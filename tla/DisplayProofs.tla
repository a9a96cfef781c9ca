----------------------------- MODULE DisplayProofs -----------------------------
(***************************************************************************)
(* Proofs about the display and what carries its messages: DwinDisplay,    *)
(* the serial transport that writes to it, and the threads and queues of   *)
(* MessageLayer: three specifications without a variable in common.        *)
(***************************************************************************)
EXTENDS DwinDisplay, SerialTransport, MessageLayer, SequenceTheorems, TLAPS

-----------------------------------------------------------------------------
(***************************************************************************)
(* The pin pads, for every text and every sequence of keys.  PinpadIsNumber *)
(* is inductive; for OrderedIsShown it has to be added that the field of   *)
(* the pad that wrote last shows the buffer.                               *)
(***************************************************************************)
\* What is left of a text after Backspace.
LEMMA FrontProperties ==
  ASSUME NEW S, NEW b \in Seq(S), b # <<>>
  PROVE  /\ Front(b) \in Seq(S)
         /\ Len(Front(b)) = Len(b) - 1
         /\ \A i \in 1..Len(b) - 1 : Front(b)[i] = b[i]
<1> DEFINE n == Len(b) - 1
<1>1. n \in Nat /\ \A i \in 1..n : b[i] \in S
  OBVIOUS
<1> HIDE DEF n
<1>2. /\ SubSeq(b, 1, n) \in Seq(S)
      /\ Len(SubSeq(b, 1, n)) = IF 1 <= n THEN n - 1 + 1 ELSE 0
      /\ \A i \in 1..n - 1 + 1 : SubSeq(b, 1, n)[i] = b[1 + i - 1]
  BY <1>1, SubSeqProperties
<1>3. Front(b) = SubSeq(b, 1, n)
  BY DEF Front, n
<1>4. Front(b) \in Seq(S) /\ Len(Front(b)) = n /\ \A i \in 1..n : Front(b)[i] = b[i]
  BY <1>1, <1>2, <1>3
<1> QED
  BY <1>4 DEF n

\* PinpadIsNumber, of any buffer.
Commas(b) == {i \in 1..Len(b) : b[i] = Comma}
Number(b) ==
  /\ \A i, j \in Commas(b) : i = j
  /\ \A i \in Commas(b) : i > 1 /\ Len(b) - i <= 2
  /\ Len(b) > 1 /\ b[1] = 0 => 2 \in Commas(b)

\* find(",") of a number: 0 if it has none, the place of its only comma if it has.
LEMMA CommaOfNumber ==
  ASSUME NEW b \in Seq(Key), Number(b)
  PROVE  \/ CommaAt(b) = 0 /\ Commas(b) = {}
         \/ CommaAt(b) \in Commas(b) /\ CommaAt(b) # 0
<1> DEFINE I == {i \in 1..Len(b) : b[i] = Comma}
<1>1. I = Commas(b)
  BY DEF Commas
<1>2. CommaAt(b) = IF I # {} THEN Min(I) ELSE 0
  BY DEF CommaAt, SelectInSeq
<1>3. CASE I = {}
  BY <1>1, <1>2, <1>3
<1>4. CASE I # {}
  <2>1. PICK i \in I : TRUE
    BY <1>4
  <2>2. I \subseteq Nat \ {0}
    OBVIOUS
  <2>3. \A j \in I : i <= j
    BY <1>1, <2>1, <2>2 DEF Number
  <2>4. \E x \in I : \A y \in I : x <= y
    BY <2>1, <2>3
  <2>5. Min(I) \in I
    BY <2>4, Zenon DEF Min
  <2> QED
    BY <1>1, <1>2, <1>4, <2>2, <2>5
<1> QED
  BY <1>3, <1>4

\* No key makes anything but a number of a number.
LEMMA TypedIsNumber ==
  ASSUME NEW b \in Seq(Key), Number(b), NEW k,
         ~(k \in 0..9 /\ DecimalsFull(b))
  PROVE  Typed(b, k) \in Seq(Key) /\ Number(Typed(b, k))
<1>1. CASE k \in 0..9
  <2>1. CASE Len(b) >= MaxInput
    BY <1>1, <2>1 DEF Typed, Comma
  <2>2. CASE ~(Len(b) >= MaxInput) /\ b = <<0>>
    <3>1. Typed(b, k) = <<k>> /\ k \in Key /\ k # Comma
      BY <1>1, <2>2 DEF Typed, Key, Comma
    <3>2. <<k>> \in Seq(Key) /\ Len(<<k>>) = 1 /\ <<k>>[1] = k
      BY <3>1
    <3>3. Commas(<<k>>) = {}
      BY <3>1, <3>2 DEF Commas
    <3> QED
      BY <3>1, <3>2, <3>3 DEF Number
  <2>3. CASE ~(Len(b) >= MaxInput) /\ b # <<0>>
    <3>1. Typed(b, k) = Append(b, k) /\ k # Comma /\ k \in Key
      BY <1>1, <2>3 DEF Typed, Comma, Key
    <3>2. Commas(Append(b, k)) = Commas(b)
      BY <3>1 DEF Commas
    <3>3. \A i \in Commas(b) : Len(b) - i <= 1
      <4>1. CASE Commas(b) = {}
        BY <4>1
      <4>2. CASE CommaAt(b) \in Commas(b) /\ CommaAt(b) # 0
        <5>1. CommaAt(b) \in Nat /\ Len(b) \in Nat
          BY <4>2 DEF Commas
        <5>2. ~(Len(b) - (CommaAt(b) - 1) > 2)
          BY <1>1, <4>2 DEF DecimalsFull
        <5>3. \A i \in Commas(b) : i = CommaAt(b)
          BY <4>2 DEF Number
        <5> QED
          BY <5>1, <5>2, <5>3
      <4> QED
        BY <4>1, <4>2, CommaOfNumber
    <3>4. Len(b) = 1 => b[1] # 0
      BY <2>3
    <3>5. Len(Append(b, k)) = Len(b) + 1 /\ Append(b, k) \in Seq(Key) /\ Len(b) \in Nat
      BY <3>1
    <3>6. b # <<>> => Append(b, k)[1] = b[1]
      BY <3>1
    <3>7. \A i \in Commas(b) : i \in 1..Len(b)
      BY DEF Commas
    <3>8. Len(b) > 1 /\ b[1] = 0 => 2 \in Commas(b)
      BY DEF Number
    <3>9. (Len(b) + 1 > 1 /\ Append(b, k)[1] = 0) => 2 \in Commas(b)
      <4>1. CASE Len(b) > 1
        BY <3>6, <3>8, <4>1
      <4>2. CASE Len(b) = 1
        BY <3>4, <3>6, <4>2
      <4>3. CASE Len(b) = 0
        BY <4>3
      <4> QED
        <5> DEFINE n == Len(b)
        <5>1. n \in Nat
          BY <3>5
        <5> HIDE DEF n
        <5>2. n = 0 \/ n = 1 \/ n > 1
          BY <5>1
        <5> QED
          BY <4>1, <4>2, <4>3, <5>2, Zenon DEF n
    <3> QED
      BY <3>1, <3>2, <3>3, <3>5, <3>7, <3>9 DEF Number
  <2> QED
    BY <2>1, <2>2, <2>3
<1>2. CASE k = Comma
  <2>1. CASE CommaAt(b) # 0
    BY <1>2, <2>1 DEF Typed, Comma
  <2>2. CASE CommaAt(b) = 0 /\ b = <<>>
    <3>1. Typed(b, k) = <<0, Comma>>
      BY <1>2, <2>2 DEF Typed, Comma
    <3> QED
      BY <3>1 DEF Number, Commas, Key, Comma
  <2>3. CASE CommaAt(b) = 0 /\ b # <<>>
    <3>1. Typed(b, k) = Append(b, Comma) /\ Comma \in Key
      BY <1>2, <2>3 DEF Typed, Comma, Key
    <3>2. Commas(b) = {}
      BY <2>3, CommaOfNumber
    <3>3. Commas(Append(b, Comma)) = {Len(b) + 1}
      BY <3>2 DEF Commas
    <3> QED
      BY <2>3, <3>1, <3>2, <3>3 DEF Number
  <2> QED
    BY <2>1, <2>2, <2>3
<1>3. CASE k = 11
  BY <1>3 DEF Typed, Number, Commas, Comma
<1>4. CASE k = 12
  <2>1. CASE b = <<>>
    BY <1>4, <2>1 DEF Typed, Comma
  <2>2. CASE b # <<>>
    <3>1. Typed(b, k) = Front(b)
      BY <1>4, <2>2 DEF Typed, Comma
    <3>2. Front(b) \in Seq(Key) /\ Len(Front(b)) = Len(b) - 1
      BY <2>2, FrontProperties
    <3>3. \A i \in 1..Len(b) - 1 : Front(b)[i] = b[i]
      BY <2>2, FrontProperties
    <3> QED
      BY <2>2, <3>1, <3>2, <3>3 DEF Number, Commas
  <2> QED
    BY <2>1, <2>2
<1>5. CASE k \notin 0..12
  BY <1>5 DEF Typed, Comma
<1> QED
  BY <1>1, <1>2, <1>3, <1>4, <1>5 DEF Comma

\* What the field of a number pad shows is the buffer, as long as the pad was the
\* last to write its field.
FieldIsBuffer ==
  pad \in {"volume", "price"} /\ d_pinpad_buffer # <<>> => shown[pad] = d_pinpad_buffer

\* The inductive invariant of the pads.
PadInv ==
  /\ d_pinpad_buffer \in Seq(Key)
  /\ PinpadIsNumber
  /\ DOMAIN shown = Pads
  /\ FieldIsBuffer

\* OrderedIsShown, of one step.
OrderShown ==
  \A p \in {"volume", "price"} :
    out'.type = EnterType(p) /\ pad = p => out'.payload = shown[p]

\* PinpadIsNumber is about d_pinpad_buffer.
LEMMA NumberIsPinpad == Number(d_pinpad_buffer) <=> PinpadIsNumber
  BY DEF Number, PinpadIsNumber, Commas

\* The same after a step.
LEMMA NumberIsPinpadNext == Number(d_pinpad_buffer)' <=> PinpadIsNumber'
  BY DEF Number, PinpadIsNumber, Commas

\* The types Enter passes on for the two number pads.
LEMMA EnterTypes ==
  EnterType("volume") = "ENTER_FUEL_VOLUME" /\ EnterType("price") = "ENTER_FUEL_EDITING"
  BY DEF EnterType

\* The types that are not of the pin pads.
LEMMA ButtonTypes ==
  \A type \in DOMAIN PlainButton \cup DOMAIN KeyButton \cup DOMAIN ArrowButton \cup {"", "VOLUME"} :
    type \notin {"ENTER_FUEL_VOLUME", "ENTER_FUEL_EDITING"}
  BY DEF PlainButton, KeyButton, ArrowButton

\* handleServiceMenu() passes neither on.
LEMMA ServiceTypes == \A k : ServiceType(k) \notin {"ENTER_FUEL_VOLUME", "ENTER_FUEL_EDITING"}
  BY DEF ServiceType

\* handleBasicTouch() passes neither on.
LEMMA BasicTypesPlain == \A k : BasicType(k) \notin {"ENTER_FUEL_VOLUME", "ENTER_FUEL_EDITING"}
<1> TAKE k
<1>1. CASE k \in DOMAIN BasicTypes
  <2>1. k \in 1..12
    BY <1>1 DEF BasicTypes
  <2>2. BasicType(k) = BasicTypes[k]
    BY <1>1 DEF BasicType
  <2>3. \A i \in 1..12 : BasicTypes[i] \notin {"ENTER_FUEL_VOLUME", "ENTER_FUEL_EDITING"}
    <3>1. /\ BasicTypes[1] = "BASIC_TOUCH" /\ BasicTypes[2] = "BEGIN_FUELLING"
          /\ BasicTypes[3] = "CREATE_NEW_ORDER" /\ BasicTypes[4] = "ATTACH_CARD_BACK"
          /\ BasicTypes[5] = "DECLINE_ENTER_SERVICE_CODE"
          /\ BasicTypes[6] = "CANCEL_AFTER_ENTER_PIN" /\ BasicTypes[7] = ""
          /\ BasicTypes[8] = "ACCEPT_SELECTED_TRK" /\ BasicTypes[9] = "RESET_SELECTED_TRK"
          /\ BasicTypes[10] = "CLOSE_ORDER" /\ BasicTypes[11] = "ACCEPT_RECEPTION_FUEL"
          /\ BasicTypes[12] = "CLEAR_CARD_DATA"
      BY DEF BasicTypes
    <3>2. \A i \in 1..12 : i = 1 \/ i = 2 \/ i = 3 \/ i = 4 \/ i = 5 \/ i = 6 \/ i = 7
                           \/ i = 8 \/ i = 9 \/ i = 10 \/ i = 11 \/ i = 12
      OBVIOUS
    <3> QED
      BY <3>1, <3>2
  <2> QED
    BY <2>1, <2>2, <2>3
<1>2. CASE k \notin DOMAIN BasicTypes
  BY <1>2 DEF BasicType
<1> QED
  BY <1>1, <1>2

\* A touch that only passes something on.
LEMMA PassOnKeeps ==
  ASSUME PadInv, NEW type, type \notin {"ENTER_FUEL_VOLUME", "ENTER_FUEL_EDITING"},
         NEW payload, PassOn(type, payload)
  PROVE  PadInv' /\ OrderShown
<1>1. UNCHANGED <<d_pinpad_buffer, pad, shown>> /\ out'.type = type
  BY DEF PassOn
<1> QED
  BY <1>1, EnterTypes DEF PadInv, FieldIsBuffer, PinpadIsNumber, OrderShown

\* A touch that does nothing.
LEMMA IdleKeeps ==
  ASSUME PadInv, UNCHANGED <<d_pinpad_buffer, pad, shown>>, out' = Nothing
  PROVE  PadInv' /\ OrderShown
<1>1. out'.type = ""
  BY DEF Nothing
<1> QED
  BY <1>1, EnterTypes DEF PadInv, FieldIsBuffer, PinpadIsNumber, OrderShown

\* Enter on pad p: what a number pad passes on is what its field showed.
LEMMA EnterKeeps ==
  ASSUME PadInv, NEW p \in Pads, Enter(p)
  PROVE  PadInv' /\ OrderShown
<1>1. CASE d_pinpad_buffer = <<>>
  BY <1>1, IdleKeeps DEF Enter, logicVars
<1>2. CASE d_pinpad_buffer # <<>> /\ p = "service" /\ Head(d_pinpad_buffer) = Comma
  BY <1>2, IdleKeeps DEF Enter
<1>3. CASE d_pinpad_buffer # <<>> /\ ~(p = "service" /\ Head(d_pinpad_buffer) = Comma)
  <2>1. /\ pad' = p
        /\ shown' = [shown EXCEPT ![p] = IF p = "volume" THEN <<0>> ELSE <<>>]
        /\ out' = [type |-> EnterType(p), payload |-> d_pinpad_buffer]
        /\ d_pinpad_buffer' = <<>>
    BY <1>3 DEF Enter
  <2>2. d_pinpad_buffer' \in Seq(Key) /\ PinpadIsNumber'
    BY <2>1 DEF PinpadIsNumber
  <2>3. DOMAIN shown' = Pads
    BY <2>1 DEF PadInv
  <2>4. FieldIsBuffer'
    BY <2>1 DEF FieldIsBuffer
  <2>5. OrderShown
    <3> SUFFICES ASSUME NEW q \in {"volume", "price"}, out'.type = EnterType(q), pad = q
                 PROVE  out'.payload = shown[q]
      BY DEF OrderShown
    <3>1. shown[q] = d_pinpad_buffer
      BY <1>3 DEF PadInv, FieldIsBuffer
    <3> QED
      BY <2>1, <3>1
  <2> QED
    BY <2>2, <2>3, <2>4, <2>5 DEF PadInv
<1> QED
  BY <1>1, <1>2, <1>3

\* A key on pad p.
LEMMA PinPadKeeps ==
  ASSUME PadInv, NEW p \in Pads, NEW k, TouchPinPad(p, k)
  PROVE  PadInv' /\ OrderShown
<1>1. CASE k = 13 /\ Enter(p)
  BY <1>1, EnterKeeps
<1>2. CASE out' = Nothing /\ UNCHANGED logicVars
  BY <1>2, IdleKeeps DEF logicVars
<1>3. CASE /\ k # 13
           /\ ~(k \in 0..9 /\ DecimalsFull(d_pinpad_buffer))
           /\ LET b == Typed(d_pinpad_buffer, k)
                  t == Render(p, b)
                  cleared == IF k = 11 THEN [q \in Pads |-> <<>>] ELSE shown
              IN  /\ d_pinpad_buffer' = b
                  /\ shown' = [cleared EXCEPT ![p] = t]
                  /\ alive' = Fits(p, t)
           /\ pad' = p
           /\ out' = Nothing
  <2> DEFINE b == Typed(d_pinpad_buffer, k)
             cleared == IF k = 11 THEN [q \in Pads |-> <<>>] ELSE shown
  <2>1. b \in Seq(Key) /\ Number(b)
    BY <1>3, NumberIsPinpad, TypedIsNumber DEF PadInv
  <2>2. d_pinpad_buffer' = b /\ pad' = p /\ shown' = [cleared EXCEPT ![p] = Render(p, b)]
    BY <1>3
  <2>3. DOMAIN cleared = Pads
    BY DEF PadInv
  <2> HIDE DEF b, cleared
  <2>4. DOMAIN shown' = Pads /\ shown'[p] = Render(p, b)
    BY <2>2, <2>3
  <2>5. FieldIsBuffer'
    BY <2>2, <2>4 DEF FieldIsBuffer, Render
  <2>6. PinpadIsNumber'
    BY <2>1, <2>2, NumberIsPinpadNext
  <2>7. OrderShown
    BY <1>3, EnterTypes DEF OrderShown, Nothing
  <2> QED
    BY <2>1, <2>2, <2>4, <2>5, <2>6, <2>7 DEF PadInv
<1> QED
  BY <1>1, <1>2, <1>3 DEF TouchPinPad

\* handleBasicTouch(): key 5 clears the buffer.
LEMMA BasicTouchKeeps ==
  ASSUME PadInv, NEW k, handleBasicTouch(k)
  PROVE  PadInv' /\ OrderShown
<1>1. CASE /\ d_pinpad_buffer' = <<>>
           /\ shown' = [shown EXCEPT !["service"] = <<>>]
           /\ out' = [type |-> BasicType(k), payload |-> <<>>]
           /\ UNCHANGED <<pad, alive>>
  <2>1. d_pinpad_buffer' \in Seq(Key) /\ PinpadIsNumber'
    BY <1>1 DEF PinpadIsNumber
  <2>2. DOMAIN shown' = Pads /\ FieldIsBuffer'
    BY <1>1 DEF PadInv, FieldIsBuffer
  <2>3. OrderShown
    BY <1>1, EnterTypes, BasicTypesPlain DEF OrderShown
  <2> QED
    BY <2>1, <2>2, <2>3 DEF PadInv
<1>2. CASE PassOn(BasicType(k), <<>>)
  BY <1>2, BasicTypesPlain, PassOnKeeps
<1> QED
  BY <1>1, <1>2 DEF handleBasicTouch

\* A message handled.
LEMMA HandleKeeps ==
  ASSUME PadInv, NEW m, handle(m)
  PROVE  PadInv' /\ OrderShown
<1>1. CASE out' = Nothing /\ UNCHANGED logicVars
  BY <1>1, IdleKeeps DEF logicVars
<1>2. CASE \E vp, k : handleDwinEvent(vp, k)
  <2> PICK vp, k : handleDwinEvent(vp, k)
    BY <1>2
  <2>1. CASE \E p \in Pads : vp = PadOf[p] /\ TouchPinPad(p, k)
    BY <2>1, PinPadKeeps
  <2>2. CASE \E b \in DOMAIN PlainButton : vp = PlainButton[b] /\ PassOn(b, <<>>)
    BY <2>2, ButtonTypes, PassOnKeeps
  <2>3. CASE \E b \in DOMAIN KeyButton : vp \in KeyButton[b] /\ PassOn(b, <<k % 256>>)
    BY <2>3, ButtonTypes, PassOnKeeps
  <2>4. CASE \E b \in DOMAIN ArrowButton :
               vp = ArrowButton[b] /\ PassOn(b, <<IF k = 1 THEN 1 ELSE 255>>)
    BY <2>4, ButtonTypes, PassOnKeeps
  <2>5. CASE vp = VolumeButton /\ PassOn("VOLUME", <<k \div 256, k % 256>>)
    BY <2>5, ButtonTypes, PassOnKeeps
  <2>6. CASE vp = ServiceMenu /\ PassOn(ServiceType(k), <<>>)
    BY <2>6, ServiceTypes, PassOnKeeps
  <2>7. CASE vp = BasicTouch /\ handleBasicTouch(k)
    BY <2>7, BasicTouchKeeps
  <2>8. CASE vp \notin Buttons /\ out' = Nothing /\ UNCHANGED logicVars
    BY <2>8, IdleKeeps DEF logicVars
  <2> QED
    BY <2>1, <2>2, <2>3, <2>4, <2>5, <2>6, <2>7, <2>8 DEF handleDwinEvent
<1> QED
  BY <1>1, <1>2 DEF handle

\* The pads' invariant holds initially and is kept by every step.
LEMMA PadInit == Init => PadInv
  BY DEF Init, LogicInit, PadInv, PinpadIsNumber, FieldIsBuffer, NoPad

\* The pads' invariant is kept by every step.
LEMMA PadNext == PadInv /\ [Next]_vars => PadInv'
<1> SUFFICES ASSUME PadInv, [Next]_vars PROVE PadInv'
  OBVIOUS
<1>1. CASE UNCHANGED <<d_pinpad_buffer, pad, shown>>
  BY <1>1 DEF PadInv, FieldIsBuffer, PinpadIsNumber
<1>2. CASE HandleMessage
  BY <1>2, HandleKeeps DEF HandleMessage
<1>3. CASE OtherLayer
  <2>1. UNCHANGED <<d_pinpad_buffer, pad, shown>>
    BY <1>3 DEF OtherLayer, ShowAmount, handleRevertAmount, clearInputAmountAndVolumeText,
                ShowBalance
  <2> QED
    BY <1>1, <2>1
<1>4. CASE \/ \E t \in Touches : Touch(t)
           \/ \E p \in Screens : TurnPage(p)
           \/ Acknowledge
           \/ \E c \in Strays : Stray(c)
           \/ ParseStep
  <2>1. UNCHANGED logicVars
    BY <1>4 DEF Touch, TurnPage, Acknowledge, Stray, ParseStep
  <2> QED
    BY <1>1, <2>1 DEF logicVars
<1>5. CASE UNCHANGED vars
  BY <1>1, <1>5 DEF vars, logicVars
<1> QED
  BY <1>2, <1>3, <1>4, <1>5 DEF Next

\* The pads' invariant holds in every behaviour.
LEMMA PadInvariant == Spec => []PadInv
  BY PadInit, PadNext, PTL DEF Spec

\* However the keys of the five pads are touched, d_pinpad_buffer stays a number:
\* handleTouchPinPad() drops a second comma, a third decimal and a leading zero.
THEOREM PinpadNumber == Spec => []PinpadIsNumber
<1>1. PadInv => PinpadIsNumber
  BY DEF PadInv
<1> QED
  BY <1>1, PadInvariant, PTL

\* What Enter passes on for the volume or the price is what the field of the pad
\* showed when that pad was the one that wrote last: TouchPinPad() renders the buffer
\* after every key, and Enter passes the buffer on before it clears it.
THEOREM OrderedShown == Spec => OrderedIsShown
<1>1. PadInv /\ [Next]_vars =>
        [\A p \in {"volume", "price"} :
           HandleMessage /\ out'.type = EnterType(p) /\ pad = p
             => out'.payload = shown[p]]_vars
  <2> SUFFICES ASSUME PadInv, HandleMessage
               PROVE  \A p \in {"volume", "price"} :
                        out'.type = EnterType(p) /\ pad = p => out'.payload = shown[p]
    OBVIOUS
  <2>1. OrderShown
    BY HandleKeeps DEF HandleMessage
  <2> QED
    BY <2>1 DEF OrderShown
<1> QED
  BY <1>1, PadInvariant, PTL DEF Spec, OrderedIsShown

-----------------------------------------------------------------------------
(***************************************************************************)
(* The touches, for every set of screens and stray bytes and every way of  *)
(* cutting what the port receives.  What the display has sent is a list of *)
(* items: frames, acknowledgements, stray bytes.  The invariant says that  *)
(* the messages queued are those of the oldest of them, that the bytes of  *)
(* m_buffer and of the line are the bytes of the others, one after the     *)
(* other, and that the touches not handled are the ones they report.       *)
(* First, what it is for a sequence to be others one after the other.      *)
(***************************************************************************)
\* s is the sequences of w one after the other: the i-th ends at off[i].
CutAt(s, w, off) ==
  /\ off \in [0..Len(w) -> Nat]
  /\ off[0] = 0 /\ off[Len(w)] = Len(s)
  /\ \A i, j \in 0..Len(w) : i <= j => off[i] <= off[j]
  /\ \A i \in 1..Len(w) :
       /\ off[i] = off[i - 1] + Len(w[i])
       /\ \A k \in 1..Len(w[i]) : s[off[i - 1] + k] = w[i][k]
Blocks(s, w) == \E off : CutAt(s, w, off)

\* No blocks, no elements.
LEMMA NoBlocks == ASSUME NEW T, NEW s \in Seq(T), Blocks(s, <<>>) PROVE s = <<>>
<1> PICK off : CutAt(s, <<>>, off)
  BY DEF Blocks
<1>1. Len(s) = 0
  BY DEF CutAt
<1> QED
  BY <1>1

\* The empty sequence is no blocks.
LEMMA EmptyBlocks == Blocks(<<>>, <<>>)
<1>1. CutAt(<<>>, <<>>, [i \in {0} |-> 0])
  BY DEF CutAt
<1> QED
  BY <1>1 DEF Blocks

\* A block more.
LEMMA AppendBlock ==
  ASSUME NEW T, NEW s \in Seq(T), NEW w \in Seq(Seq(T)), Blocks(s, w), NEW x \in Seq(T)
  PROVE  Blocks(s \o x, Append(w, x))
<1> PICK off : CutAt(s, w, off)
  BY DEF Blocks
<1> DEFINE N == Len(w)
           o == [i \in 0..N + 1 |-> IF i <= N THEN off[i] ELSE Len(s) + Len(x)]
           v == Append(w, x)
           u == s \o x
<1>1. N \in Nat /\ Len(s) \in Nat /\ Len(x) \in Nat /\ off \in [0..N -> Nat] /\ off[N] = Len(s)
  BY DEF CutAt
<1>2. Len(v) = N + 1 /\ v[N + 1] = x /\ \A i \in 1..N : v[i] = w[i]
  OBVIOUS
<1>3. Len(u) = Len(s) + Len(x) /\ \A k \in 1..Len(s) : u[k] = s[k]
  OBVIOUS
<1>4. \A k \in 1..Len(x) : u[Len(s) + k] = x[k]
  OBVIOUS
<1>5. o \in [0..N + 1 -> Nat]
  BY <1>1
<1>6. o[N + 1] = Len(s) + Len(x) /\ \A i \in 0..N : o[i] = off[i]
  BY <1>1
<1>9. \A i, j \in 0..N : i <= j => off[i] <= off[j]
  BY DEF CutAt
<1>10. \A i \in 0..N : off[i] <= Len(s)
  BY <1>1, <1>9
<1>11. off[0] = 0
  BY DEF CutAt
<1>12. \A i \in 1..N : off[i] = off[i - 1] + Len(w[i])
  BY DEF CutAt
<1>13. \A i \in 1..N : \A k \in 1..Len(w[i]) : s[off[i - 1] + k] = w[i][k]
  BY DEF CutAt
<1>14. \A i \in 1..N : Len(w[i]) \in Nat
  OBVIOUS
<1> HIDE DEF N, o, v, u
<1>7. \A i, j \in 0..N + 1 : i <= j => o[i] <= o[j]
  BY <1>1, <1>6, <1>9, <1>10
<1>8. ASSUME NEW i \in 1..N + 1
      PROVE  /\ o[i] = o[i - 1] + Len(v[i])
             /\ \A k \in 1..Len(v[i]) : u[o[i - 1] + k] = v[i][k]
  <2>1. CASE i = N + 1
    <3>1. o[i - 1] = Len(s) /\ v[i] = x /\ o[i] = Len(s) + Len(x)
      BY <1>1, <1>2, <1>6, <2>1
    <3> QED
      BY <3>1, <1>4
  <2>2. CASE i \in 1..N
    <3>1. i - 1 \in 0..N /\ o[i] = off[i] /\ o[i - 1] = off[i - 1] /\ v[i] = w[i]
      BY <1>1, <1>2, <1>6, <2>2
    <3>2. /\ off[i] <= Len(s) /\ off[i] = off[i - 1] + Len(w[i])
          /\ off[i - 1] \in Nat /\ Len(w[i]) \in Nat
      BY <1>1, <1>10, <1>12, <1>14, <2>2, <3>1
    <3>3. \A k \in 1..Len(w[i]) : off[i - 1] + k \in 1..Len(s)
      BY <1>1, <3>2, SMTT(60)
    <3> QED
      BY <1>3, <1>13, <2>2, <3>1, <3>2, <3>3
  <2> QED
    BY <1>1, <2>1, <2>2
<1>15. CutAt(u, v, o)
  BY <1>1, <1>2, <1>3, <1>5, <1>6, <1>7, <1>8, <1>11 DEF CutAt
<1> QED
  BY <1>15 DEF Blocks, u, v

\* The first block, and what follows it.
LEMMA FirstBlock ==
  ASSUME NEW T, NEW s \in Seq(T), NEW w \in Seq(Seq(T)), w # <<>>, Blocks(s, w)
  PROVE  /\ Len(w[1]) \in Nat /\ Len(w[1]) <= Len(s)
         /\ \A k \in 1..Len(w[1]) : s[k] = w[1][k]
         /\ SubSeq(s, Len(w[1]) + 1, Len(s)) \in Seq(T)
         /\ Blocks(SubSeq(s, Len(w[1]) + 1, Len(s)), Tail(w))
<1> PICK off : CutAt(s, w, off)
  BY DEF Blocks
<1> DEFINE N == Len(w) - 1
           l == Len(w[1])
           m == Len(s) - l
           v == Tail(w)
           u == SubSeq(s, l + 1, Len(s))
           o == [i \in 0..N |-> off[i + 1] - l]
<1>1. /\ N \in Nat /\ Len(w) = N + 1 /\ l \in Nat /\ Len(s) \in Nat
  OBVIOUS
<1>2. /\ off \in [0..N + 1 -> Nat] /\ off[0] = 0 /\ off[N + 1] = Len(s)
      /\ \A i, j \in 0..N + 1 : i <= j => off[i] <= off[j]
      /\ \A i \in 1..N + 1 : /\ off[i] = off[i - 1] + Len(w[i])
                             /\ \A k \in 1..Len(w[i]) : s[off[i - 1] + k] = w[i][k]
  BY <1>1 DEF CutAt
<1>3. Len(v) = N /\ \A i \in 1..N : v[i] = w[i + 1]
  OBVIOUS
<1>5. \A i \in 1..N + 1 : Len(w[i]) \in Nat
  BY <1>1
<1>12. \A k \in 1..Len(s) : s[k] \in T
  OBVIOUS
<1> HIDE DEF N, l
<1>4. off[1] = l /\ l <= Len(s) /\ \A k \in 1..l : s[k] = w[1][k]
  <2>1. 1 \in 1..N + 1 /\ 1 - 1 = 0 /\ 1 \in 0..N + 1 /\ N + 1 \in 0..N + 1
    BY <1>1
  <2>2. off[1] = off[0] + Len(w[1]) /\ off[1] <= off[N + 1]
    BY <1>1, <1>2, <2>1
  <2>3. \A k \in 1..Len(w[1]) : s[off[0] + k] = w[1][k]
    BY <1>2, <2>1
  <2> QED
    BY <1>1, <1>2, <2>2, <2>3 DEF l
<1>6. m \in Nat /\ l + 1 \in Nat /\ \A i \in l + 1..Len(s) : s[i] \in T
  BY <1>1, <1>4, <1>12
<1>7. /\ u \in Seq(T)
      /\ Len(u) = IF l + 1 <= Len(s) THEN Len(s) - (l + 1) + 1 ELSE 0
      /\ \A i \in 1..Len(s) - (l + 1) + 1 : u[i] = s[l + 1 + i - 1]
  BY <1>1, <1>6, SubSeqProperties
<1> HIDE DEF u, v, o
<1>8. Len(u) = m /\ \A i \in 1..m : u[i] = s[l + i]
  <2>1. m = Len(s) - (l + 1) + 1
    BY <1>1
  <2>2. Len(u) = m
    BY <1>1, <1>6, <1>7
  <2>3. \A i \in 1..m : u[i] = s[l + 1 + i - 1] /\ l + 1 + i - 1 = l + i
    <3>1. \A i \in 1..m : u[i] = s[l + 1 + i - 1]
      BY <2>1, <1>7
    <3>2. \A i \in 1..m : l + 1 + i - 1 = l + i
      BY <1>1
    <3> QED
      BY <3>1, <3>2
  <2> QED
    BY <2>2, <2>3
<1>9. o \in [0..N -> Nat] /\ \A i \in 0..N : o[i] = off[i + 1] - l
  <2>1. \A i \in 0..N : i + 1 \in 0..N + 1 /\ 1 \in 0..N + 1 /\ 1 <= i + 1
    BY <1>1
  <2>2. \A i \in 0..N : off[1] <= off[i + 1] /\ off[i + 1] \in Nat
    BY <1>2, <2>1
  <2> QED
    BY <1>1, <1>4, <2>2 DEF o
<1>10. CutAt(u, v, o)
  <2>1. o[0] = 0 /\ o[N] = Len(u)
    <3>1. 0 \in 0..N /\ N \in 0..N /\ 0 + 1 = 1
      BY <1>1
    <3>2. o[0] = off[1] - l /\ o[N] = off[N + 1] - l
      BY <1>9, <3>1
    <3> QED
      BY <1>1, <1>2, <1>4, <1>8, <3>2
  <2>2. ASSUME NEW i \in 0..N, NEW j \in 0..N, i <= j PROVE o[i] <= o[j]
    <3>1. i + 1 \in 0..N + 1 /\ j + 1 \in 0..N + 1 /\ i + 1 <= j + 1
      BY <1>1, <2>2
    <3>2. off[i + 1] <= off[j + 1] /\ off[i + 1] \in Nat /\ off[j + 1] \in Nat
      BY <1>2, <3>1
    <3>3. o[i] = off[i + 1] - l /\ o[j] = off[j + 1] - l
      BY <1>9
    <3> QED
      BY <1>1, <3>2, <3>3
  <2>3. ASSUME NEW i \in 1..N
        PROVE  /\ o[i] = o[i - 1] + Len(v[i])
               /\ \A k \in 1..Len(v[i]) : u[o[i - 1] + k] = v[i][k]
    <3>1. /\ i + 1 \in 1..N + 1 /\ i + 1 \in 0..N + 1 /\ N + 1 \in 0..N + 1 /\ i \in 0..N + 1
          /\ 1 \in 0..N + 1 /\ i - 1 \in 0..N /\ i \in 0..N
          /\ (i - 1) + 1 = i /\ (i + 1) - 1 = i /\ i + 1 <= N + 1 /\ 1 <= i
      BY <1>1
    <3>2. v[i] = w[i + 1] /\ o[i] = off[i + 1] - l /\ o[i - 1] = off[i] - l /\ Len(w[i + 1]) \in Nat
      BY <1>3, <1>5, <1>9, <3>1
    <3>3. /\ off[i + 1] = off[i] + Len(w[i + 1]) /\ off[i + 1] <= Len(s)
          /\ off[i] \in Nat /\ off[i + 1] \in Nat /\ l <= off[i]
      BY <1>2, <1>4, <3>1
    <3>4. \A k \in 1..Len(w[i + 1]) : s[off[i] + k] = w[i + 1][k]
      BY <1>2, <3>1
    <3>5. \A k \in 1..Len(w[i + 1]) : /\ (off[i] - l) + k \in 1..m
                                      /\ l + ((off[i] - l) + k) = off[i] + k
      <4> DEFINE d == off[i]
                 e == Len(w[i + 1])
      <4>1. d \in Nat /\ e \in Nat /\ d + e <= Len(s) /\ l <= d
        BY <3>2, <3>3
      <4> HIDE DEF d, e
      <4>2. \A k \in 1..e : (d - l) + k \in 1..Len(s) - l /\ l + ((d - l) + k) = d + k
        BY <1>1, <4>1
      <4> QED
        BY <4>2 DEF d, e
    <3>6. o[i] = o[i - 1] + Len(v[i])
      BY <1>1, <3>2, <3>3, SMTT(60)
    <3> QED
      BY <1>8, <3>2, <3>4, <3>5, <3>6
  <2> QED
    BY <1>3, <1>9, <2>1, <2>2, <2>3 DEF CutAt
<1> QED
  BY <1>1, <1>4, <1>7, <1>10 DEF Blocks, u, v, l

\* What the display sends at once: a frame of a touch, an acknowledgement, a stray
\* byte.  Its bytes, the touch it reports and the message that is made of it.
TouchItem(t) ==
  [bytes |-> Frame(t), touch |-> <<t>>,
   msg |-> [type |-> "vp_data", payload |-> Payload(t)]]
AckItem ==
  [bytes |-> <<90, 165, 3, 130, 79, 75>>, touch |-> <<>>,
   msg |-> [type |-> "write_ack_ok", payload |-> <<79, 75>>]]
StrayItem(c) == [bytes |-> <<c>>, touch |-> <<>>, msg |-> Nothing]

FrameItems == {TouchItem(t) : t \in Touches} \cup {AckItem}
StrayItems == {StrayItem(c) : c \in Strays}
Items == FrameItems \cup StrayItems
Messages == {x.msg : x \in FrameItems}

BytesOf(I) == [i \in 1..Len(I) |-> I[i].bytes]
TouchesOf(I) == [i \in 1..Len(I) |-> I[i].touch]

\* An address and what follows it.
LEMMA TwoAndThree ==
  ASSUME NEW T, NEW a \in T, NEW b \in T, NEW c \in T, NEW d \in T, NEW e \in T
  PROVE  <<a, b>> \o <<c, d, e>> = <<a, b, c, d, e>>
<1> DEFINE u == <<a, b>> \o <<c, d, e>>
<1>1. <<a, b>> \in Seq(T) /\ <<c, d, e>> \in Seq(T) /\ <<a, b, c, d, e>> \in Seq(T)
  OBVIOUS
<1>2. u \in Seq(T) /\ Len(u) = 5
  BY <1>1
<1>3. u[1] = a /\ u[2] = b /\ u[3] = c /\ u[4] = d /\ u[5] = e
  BY <1>1
<1> HIDE DEF u
<1>4. \A i \in 1..5 : i = 1 \/ i = 2 \/ i = 3 \/ i = 4 \/ i = 5
  OBVIOUS
<1>5. \A i \in 1..5 : u[i] = <<a, b, c, d, e>>[i]
  BY <1>3, <1>4
<1>6. Len(<<a, b, c, d, e>>) = 5
  OBVIOUS
<1>7. u = <<a, b, c, d, e>>
  BY <1>1, <1>2, <1>5, <1>6, SeqEqual
<1> QED
  BY <1>7 DEF u

\* Four bytes before others: header, length and command of a frame.
LEMMA HeaderAndPayload ==
  ASSUME NEW T, NEW a \in T, NEW b \in T, NEW c \in T, NEW d \in T, NEW s \in Seq(T)
  PROVE  LET u == <<a, b, c, d>> \o s
         IN  /\ u \in Seq(T) /\ Len(u) = 4 + Len(s)
             /\ u[1] = a /\ u[2] = b /\ u[3] = c /\ u[4] = d
             /\ SubSeq(u, 5, Len(u)) = s
<1> DEFINE h == <<a, b, c, d>>
           u == h \o s
           n == Len(s)
<1>1. h \in Seq(T) /\ Len(h) = 4 /\ h[1] = a /\ h[2] = b /\ h[3] = c /\ h[4] = d
  OBVIOUS
<1>0. n \in Nat
  OBVIOUS
<1> HIDE DEF h
<1>2. /\ u \in Seq(T) /\ Len(u) = 4 + n
      /\ u[1] = a /\ u[2] = b /\ u[3] = c /\ u[4] = d
      /\ \A i \in 1..n : u[4 + i] = s[i]
  <2>1. u \in Seq(T) /\ Len(u) = Len(h) + n
    <3>1. h \in Seq(T)
      BY <1>1
    <3> QED
      BY <3>1, ConcatProperties
  <2>2. \A i \in 1..Len(h) + n : u[i] = IF i <= Len(h) THEN h[i] ELSE s[i - Len(h)]
    OBVIOUS
  <2> HIDE DEF u, n
  <2>3. \A i \in 1..4 + n : u[i] = IF i <= 4 THEN h[i] ELSE s[i - 4]
    BY <1>1, <2>2
  <2>4. u[1] = h[1] /\ u[2] = h[2] /\ u[3] = h[3] /\ u[4] = h[4]
    BY <1>0, <2>3
  <2>5. \A i \in 1..n : u[4 + i] = s[i]
    BY <1>0, <2>3
  <2> QED
    BY <1>1, <2>1, <2>4, <2>5
<1> HIDE DEF u
<1>3. \A i \in 5..4 + n : u[i] \in T
  BY <1>2, <1>0
<1> HIDE DEF n
<1> DEFINE l == 5
           m == 4 + n
           v == SubSeq(u, l, m)
<1>4. l = 5 /\ m = 4 + n /\ l \in Int /\ m \in Int
  BY <1>0
<1> HIDE DEF l, m
<1>5. /\ v \in Seq(T)
      /\ Len(v) = IF l <= m THEN m - l + 1 ELSE 0
      /\ \A i \in 1..m - l + 1 : v[i] = u[l + i - 1]
  <2>1. \A i \in l..m : u[i] \in T
    BY <1>3, <1>4
  <2> QED
    BY <1>4, <2>1, SubSeqProperties
<1> HIDE DEF v
<1>6. Len(v) = n /\ \A i \in 1..n : v[i] = s[i]
  <2>1. m - l + 1 = n /\ \A i \in 1..n : l + i - 1 = 4 + i
    BY <1>0, <1>4
  <2>2. Len(v) = n
    BY <1>0, <1>4, <1>5
  <2> QED
    BY <1>2, <1>5, <2>1, <2>2
<1>7. v = s
  BY <1>5, <1>6, SeqEqual DEF n
<1>8. SubSeq(u, 5, Len(u)) = v
  BY <1>2, <1>4 DEF v
<1> QED
  BY <1>1, <1>2, <1>7, <1>8 DEF u, h, n
\* A frame written out.
LEMMA FrameBytes ==
  ASSUME NEW t \in Touches
  PROVE  /\ Payload(t) = <<t.vp[1], t.vp[2], 1, t.key \div 256, t.key % 256>>
         /\ Frame(t) = <<90, 165, 6, 131>> \o Payload(t)
         /\ t.vp[1] \in Byte /\ t.vp[2] \in Byte /\ t.key \div 256 \in Byte /\ t.key % 256 \in Byte
<1> DEFINE v == t.vp
           k == t.key
<1>0. k \in Nat /\ k <= 65535
  BY TouchAssumption DEF Word
<1>1. v \in Byte \X Byte
  BY TouchAssumption
<1>2. Payload(t) = v \o <<1, k \div 256, k % 256>>
  BY DEF Payload
<1> HIDE DEF v, k
<1>3. v = <<v[1], v[2]>> /\ v[1] \in Byte /\ v[2] \in Byte
  BY <1>1
<1>4. k \div 256 \in Byte /\ k % 256 \in Byte
  <2>1. k \div 256 \in Int /\ k \div 256 >= 0 /\ k \div 256 <= 255
    BY <1>0
  <2>2. k % 256 \in 0..255
    BY <1>0
  <2> QED
    BY <2>1, <2>2 DEF Byte
<1>5. <<v[1], v[2]>> \o <<1, k \div 256, k % 256>> = <<v[1], v[2], 1, k \div 256, k % 256>>
  <2> DEFINE a == v[1]
             b == v[2]
             o == 1
             c == k \div 256
             d == k % 256
  <2>1. a \in Byte /\ b \in Byte /\ o \in Byte /\ c \in Byte /\ d \in Byte
    BY <1>3, <1>4 DEF Byte
  <2> HIDE DEF a, b, o, c, d
  <2>2. <<a, b>> \o <<o, c, d>> = <<a, b, o, c, d>>
    BY <2>1, TwoAndThree
  <2> QED
    BY <2>2 DEF a, b, o, c, d
<1> QED
  BY <1>2, <1>3, <1>4, <1>5 DEF Frame, v, k

\* What the rest of the proof uses of a frame.
LEMMA FrameFacts ==
  ASSUME NEW x \in FrameItems
  PROVE  /\ x.bytes \in Seq(Byte) /\ Len(x.bytes) >= 3 /\ Len(x.bytes) = 3 + x.bytes[3]
         /\ x.bytes[1] = 90 /\ x.bytes[2] = 165
         /\ x.touch \in Seq(Touches)
         /\ Parsed(x.bytes) = x.msg
         /\ \/ /\ Len(x.touch) = 1
               /\ x.msg = [type |-> "vp_data", payload |-> Payload(x.touch[1])]
            \/ x.touch = <<>> /\ x.msg.type = "write_ack_ok"
<1>1. CASE x = AckItem
  <2> DEFINE b == <<90, 165, 3, 130, 79, 75>>
             d == <<90, 165, 3, 130>> \o <<79, 75>>
  <2>1. x.bytes = b /\ x.touch = <<>> /\ x.msg = [type |-> "write_ack_ok", payload |-> <<79, 75>>]
    BY <1>1 DEF AckItem
  <2>2. <<79, 75>> \in Seq(Byte) /\ Len(<<79, 75>>) = 2
    BY DEF Byte
  <2>3. 90 \in Byte /\ 165 \in Byte /\ 3 \in Byte /\ 130 \in Byte
    BY DEF Byte
  <2>4. b = d
    OBVIOUS
  <2>5. /\ d \in Seq(Byte) /\ Len(d) = 4 + Len(<<79, 75>>)
        /\ d[1] = 90 /\ d[2] = 165 /\ d[3] = 3 /\ d[4] = 130
        /\ SubSeq(d, 5, Len(d)) = <<79, 75>>
    <3> DEFINE h1 == 90
               h2 == 165
               h3 == 3
               h4 == 130
               q == <<79, 75>>
    <3>1. h1 \in Byte /\ h2 \in Byte /\ h3 \in Byte /\ h4 \in Byte /\ q \in Seq(Byte)
      BY <2>2, <2>3
    <3> HIDE DEF h1, h2, h3, h4, q
    <3>2. LET u == <<h1, h2, h3, h4>> \o q
          IN  /\ u \in Seq(Byte) /\ Len(u) = 4 + Len(q)
              /\ u[1] = h1 /\ u[2] = h2 /\ u[3] = h3 /\ u[4] = h4
              /\ SubSeq(u, 5, Len(u)) = q
      BY <3>1, HeaderAndPayload
    <3> QED
      BY <3>2, Zenon DEF h1, h2, h3, h4, q
  <2> HIDE DEF b, d
  <2>6. Parsed(d) = [type |-> "write_ack_ok", payload |-> <<79, 75>>]
    <3> DEFINE q == SubSeq(d, 5, Len(d))
    <3>1. d[4] = 130
      BY <2>5
    <3>2. Parsed(d) = [type |-> IF q = <<79, 75>> THEN "write_ack_ok" ELSE "write_ack",
                       payload |-> q]
      BY <3>1 DEF Parsed
    <3>3. q = <<79, 75>>
      BY <2>5
    <3> HIDE DEF q
    <3> QED
      BY <3>2, <3>3
  <2> QED
    BY <2>1, <2>2, <2>4, <2>5, <2>6
<1>2. CASE \E t \in Touches : x = TouchItem(t)
  <2> PICK t \in Touches : x = TouchItem(t)
    BY <1>2
  <2> DEFINE p == Payload(t)
             d == <<90, 165, 6, 131>> \o p
  <2>1. x.bytes = Frame(t) /\ x.touch = <<t>> /\ x.msg = [type |-> "vp_data", payload |-> p]
    BY DEF TouchItem
  <2>2. p \in Seq(Byte) /\ Len(p) = 5
    <3> DEFINE a == t.vp[1]
               b == t.vp[2]
               o == 1
               c == t.key \div 256
               e == t.key % 256
    <3>1. a \in Byte /\ b \in Byte /\ o \in Byte /\ c \in Byte /\ e \in Byte
      BY FrameBytes DEF Byte
    <3>2. p = <<a, b, o, c, e>>
      BY FrameBytes
    <3> HIDE DEF a, b, o, c, e, p
    <3>3. <<a, b, o, c, e>> \in Seq(Byte) /\ Len(<<a, b, o, c, e>>) = 5
      BY <3>1
    <3> QED
      BY <3>2, <3>3, Zenon
  <2>3. 90 \in Byte /\ 165 \in Byte /\ 6 \in Byte /\ 131 \in Byte
    BY DEF Byte
  <2>4. Frame(t) = d
    BY FrameBytes
  <2> HIDE DEF p
  <2>5. /\ d \in Seq(Byte) /\ Len(d) = 4 + Len(p)
        /\ d[1] = 90 /\ d[2] = 165 /\ d[3] = 6 /\ d[4] = 131
        /\ SubSeq(d, 5, Len(d)) = p
    <3> DEFINE h1 == 90
               h2 == 165
               h3 == 6
               h4 == 131
               q == p
    <3>1. h1 \in Byte /\ h2 \in Byte /\ h3 \in Byte /\ h4 \in Byte /\ q \in Seq(Byte)
      BY <2>2, <2>3
    <3> HIDE DEF h1, h2, h3, h4, q
    <3>2. LET u == <<h1, h2, h3, h4>> \o q
          IN  /\ u \in Seq(Byte) /\ Len(u) = 4 + Len(q)
              /\ u[1] = h1 /\ u[2] = h2 /\ u[3] = h3 /\ u[4] = h4
              /\ SubSeq(u, 5, Len(u)) = q
      BY <3>1, HeaderAndPayload
    <3> QED
      BY <3>2, Zenon DEF h1, h2, h3, h4, q
  <2> HIDE DEF d
  <2>6. Parsed(d) = [type |-> "vp_data", payload |-> p]
    <3>1. d[4] = 131
      BY <2>5
    <3>2. Parsed(d) = [type |-> "vp_data", payload |-> SubSeq(d, 5, Len(d))]
      BY <3>1 DEF Parsed
    <3> QED
      BY <2>5, <3>2
  <2>7. <<t>> \in Seq(Touches) /\ Len(<<t>>) = 1 /\ <<t>>[1] = t
    OBVIOUS
  <2> QED
    BY <2>1, <2>2, <2>4, <2>5, <2>6, <2>7 DEF p
<1> QED
  BY <1>1, <1>2 DEF FrameItems

\* What it uses of a stray byte.
LEMMA StrayFacts ==
  ASSUME NEW x \in StrayItems
  PROVE  x.bytes \in Seq(Byte) /\ Len(x.bytes) = 1 /\ x.touch = <<>>
<1> PICK c \in Strays : x = StrayItem(c)
  BY DEF StrayItems
<1>1. c \in Byte /\ x.bytes = <<c>> /\ x.touch = <<>>
  BY StrayAssumption DEF StrayItem
<1> QED
  BY <1>1

\* The types of an item's fields.
LEMMA ItemTypes ==
  ASSUME NEW x \in Items
  PROVE  x.bytes \in Seq(Byte) /\ Len(x.bytes) >= 1 /\ x.touch \in Seq(Touches)
<1>1. CASE x \in FrameItems
  <2>1. x.bytes \in Seq(Byte) /\ Len(x.bytes) >= 3 /\ x.touch \in Seq(Touches)
    BY <1>1, FrameFacts, Zenon
  <2> DEFINE n == Len(x.bytes)
  <2>2. n \in Nat /\ n >= 3
    BY <2>1
  <2> HIDE DEF n
  <2>3. n >= 1
    BY <2>2
  <2> QED
    BY <2>1, <2>3, Zenon DEF n
<1>2. CASE x \in StrayItems
  <2>1. x.bytes \in Seq(Byte) /\ Len(x.bytes) = 1 /\ x.touch = <<>>
    BY <1>2, StrayFacts, Zenon
  <2>2. <<>> \in Seq(Touches)
    OBVIOUS
  <2>3. Len(x.bytes) >= 1
    BY <2>1
  <2> QED
    BY <2>1, <2>2, <2>3, Zenon
<1> QED
  BY <1>1, <1>2 DEF Items

\* The blocks of a list of items.
LEMMA MapTypes ==
  ASSUME NEW I \in Seq(Items)
  PROVE  /\ BytesOf(I) \in Seq(Seq(Byte)) /\ Len(BytesOf(I)) = Len(I)
         /\ TouchesOf(I) \in Seq(Seq(Touches)) /\ Len(TouchesOf(I)) = Len(I)
         /\ \A i \in 1..Len(I) : BytesOf(I)[i] = I[i].bytes /\ TouchesOf(I)[i] = I[i].touch
<1>1. \A i \in 1..Len(I) : I[i] \in Items
  OBVIOUS
<1>2. Len(I) \in Nat
  OBVIOUS
<1>3. \A i \in 1..Len(I) : I[i].bytes \in Seq(Byte) /\ I[i].touch \in Seq(Touches)
  BY <1>1, ItemTypes
<1>4. BytesOf(I) \in [1..Len(I) -> Seq(Byte)] /\ TouchesOf(I) \in [1..Len(I) -> Seq(Touches)]
  BY <1>3 DEF BytesOf, TouchesOf
<1> HIDE DEF Items
<1>5. BytesOf(I) \in Seq(Seq(Byte)) /\ Len(BytesOf(I)) = Len(I)
  BY <1>2, <1>4
<1>6. TouchesOf(I) \in Seq(Seq(Touches)) /\ Len(TouchesOf(I)) = Len(I)
  BY <1>2, <1>4
<1> QED
  BY <1>5, <1>6 DEF BytesOf, TouchesOf

\* The blocks of a list with one item more.
LEMMA MapAppend ==
  ASSUME NEW I \in Seq(Items), NEW x \in Items
  PROVE  /\ BytesOf(Append(I, x)) = Append(BytesOf(I), x.bytes)
         /\ TouchesOf(Append(I, x)) = Append(TouchesOf(I), x.touch)
<1>1. Append(I, x) \in Seq(Items) /\ Len(Append(I, x)) = Len(I) + 1 /\ Len(I) \in Nat
      /\ \A i \in 1..Len(I) + 1 : Append(I, x)[i] = IF i = Len(I) + 1 THEN x ELSE I[i]
  OBVIOUS
<1>2. x.bytes \in Seq(Byte) /\ x.touch \in Seq(Touches)
  BY ItemTypes
<1>3. /\ Len(BytesOf(Append(I, x))) = Len(I) + 1 /\ BytesOf(Append(I, x)) \in Seq(Seq(Byte))
      /\ \A i \in 1..Len(I) + 1 : BytesOf(Append(I, x))[i] = Append(I, x)[i].bytes
  BY <1>1, MapTypes
<1>4. /\ Len(TouchesOf(Append(I, x))) = Len(I) + 1 /\ TouchesOf(Append(I, x)) \in Seq(Seq(Touches))
      /\ \A i \in 1..Len(I) + 1 : TouchesOf(Append(I, x))[i] = Append(I, x)[i].touch
  BY <1>1, MapTypes
<1>5. /\ Append(BytesOf(I), x.bytes) \in Seq(Seq(Byte))
      /\ Len(Append(BytesOf(I), x.bytes)) = Len(I) + 1
      /\ \A i \in 1..Len(I) + 1 : Append(BytesOf(I), x.bytes)[i] = Append(I, x)[i].bytes
  BY <1>1, <1>2, MapTypes
<1>6. /\ Append(TouchesOf(I), x.touch) \in Seq(Seq(Touches))
      /\ Len(Append(TouchesOf(I), x.touch)) = Len(I) + 1
      /\ \A i \in 1..Len(I) + 1 : Append(TouchesOf(I), x.touch)[i] = Append(I, x)[i].touch
  BY <1>1, <1>2, MapTypes
<1> HIDE DEF Items
<1>7. BytesOf(Append(I, x)) = Append(BytesOf(I), x.bytes)
  <2> DEFINE u == BytesOf(Append(I, x))
             v == Append(BytesOf(I), x.bytes)
  <2>1. u \in Seq(Seq(Byte)) /\ v \in Seq(Seq(Byte)) /\ Len(u) = Len(v)
        /\ \A i \in 1..Len(u) : u[i] = v[i]
    BY <1>3, <1>5
  <2> HIDE DEF u, v
  <2>2. u = v
    BY <2>1, SeqEqual
  <2> QED
    BY <2>2 DEF u, v
<1>8. TouchesOf(Append(I, x)) = Append(TouchesOf(I), x.touch)
  <2> DEFINE u == TouchesOf(Append(I, x))
             v == Append(TouchesOf(I), x.touch)
  <2>1. u \in Seq(Seq(Touches)) /\ v \in Seq(Seq(Touches)) /\ Len(u) = Len(v)
        /\ \A i \in 1..Len(u) : u[i] = v[i]
    BY <1>4, <1>6
  <2> HIDE DEF u, v
  <2>2. u = v
    BY <2>1, SeqEqual
  <2> QED
    BY <2>2 DEF u, v
<1> QED
  BY <1>7, <1>8

\* The blocks of a list without its first item.
LEMMA MapTail ==
  ASSUME NEW I \in Seq(Items), I # <<>>
  PROVE  /\ Tail(I) \in Seq(Items)
         /\ BytesOf(Tail(I)) = Tail(BytesOf(I))
         /\ TouchesOf(Tail(I)) = Tail(TouchesOf(I))
<1>1. /\ Tail(I) \in Seq(Items) /\ Len(Tail(I)) = Len(I) - 1 /\ Len(I) \in Nat /\ Len(I) > 0
      /\ \A i \in 1..Len(I) - 1 : Tail(I)[i] = I[i + 1]
  OBVIOUS
<1>2. BytesOf(I) # <<>> /\ TouchesOf(I) # <<>>
  BY <1>1, MapTypes
<1> DEFINE J == Tail(I)
<1> HIDE DEF J
<1>9. J \in Seq(Items) /\ Len(J) = Len(I) - 1 /\ \A i \in 1..Len(I) - 1 : J[i] = I[i + 1]
  BY <1>1 DEF J
<1>3. /\ Len(BytesOf(J)) = Len(I) - 1 /\ BytesOf(J) \in Seq(Seq(Byte))
      /\ \A i \in 1..Len(I) - 1 : BytesOf(J)[i] = I[i + 1].bytes
  <2>1. /\ Len(BytesOf(J)) = Len(J) /\ BytesOf(J) \in Seq(Seq(Byte))
        /\ \A i \in 1..Len(J) : BytesOf(J)[i] = J[i].bytes
    BY <1>9, MapTypes
  <2> QED
    BY <1>9, <2>1
<1>4. /\ Len(TouchesOf(J)) = Len(I) - 1 /\ TouchesOf(J) \in Seq(Seq(Touches))
      /\ \A i \in 1..Len(I) - 1 : TouchesOf(J)[i] = I[i + 1].touch
  <2>1. /\ Len(TouchesOf(J)) = Len(J) /\ TouchesOf(J) \in Seq(Seq(Touches))
        /\ \A i \in 1..Len(J) : TouchesOf(J)[i] = J[i].touch
    BY <1>9, MapTypes
  <2> QED
    BY <1>9, <2>1
<1>5. /\ Tail(BytesOf(I)) \in Seq(Seq(Byte)) /\ Len(Tail(BytesOf(I))) = Len(I) - 1
      /\ \A i \in 1..Len(I) - 1 : Tail(BytesOf(I))[i] = I[i + 1].bytes
  BY <1>1, <1>2, MapTypes
<1>6. /\ Tail(TouchesOf(I)) \in Seq(Seq(Touches)) /\ Len(Tail(TouchesOf(I))) = Len(I) - 1
      /\ \A i \in 1..Len(I) - 1 : Tail(TouchesOf(I))[i] = I[i + 1].touch
  BY <1>1, <1>2, MapTypes
<1> HIDE DEF Items
<1>7. BytesOf(J) = Tail(BytesOf(I))
  <2> DEFINE u == BytesOf(J)
             v == Tail(BytesOf(I))
  <2>1. u \in Seq(Seq(Byte)) /\ v \in Seq(Seq(Byte)) /\ Len(u) = Len(v)
        /\ \A i \in 1..Len(u) : u[i] = v[i]
    BY <1>3, <1>5
  <2> HIDE DEF u, v
  <2>2. u = v
    BY <2>1, SeqEqual
  <2> QED
    BY <2>2 DEF u, v
<1>8. TouchesOf(J) = Tail(TouchesOf(I))
  <2> DEFINE u == TouchesOf(J)
             v == Tail(TouchesOf(I))
  <2>1. u \in Seq(Seq(Touches)) /\ v \in Seq(Seq(Touches)) /\ Len(u) = Len(v)
        /\ \A i \in 1..Len(u) : u[i] = v[i]
    BY <1>4, <1>6
  <2> HIDE DEF u, v
  <2>2. u = v
    BY <2>1, SeqEqual
  <2> QED
    BY <2>2 DEF u, v
<1> QED
  BY <1>1, <1>7, <1>8 DEF J

\* What follows the first n elements.
Rest(s, n) == SubSeq(s, n + 1, Len(s))

\* Its length and its elements.
LEMMA RestProperties ==
  ASSUME NEW T, NEW s \in Seq(T), NEW n \in Nat, n <= Len(s)
  PROVE  /\ Rest(s, n) \in Seq(T) /\ Len(Rest(s, n)) = Len(s) - n
         /\ \A i \in 1..Len(s) - n : Rest(s, n)[i] = s[n + i]
<1> DEFINE m == Len(s)
           l == n + 1
           v == SubSeq(s, l, m)
<1>1. m \in Nat /\ l \in Int /\ l = n + 1 /\ n <= m
  OBVIOUS
<1>2. \A i \in l..m : s[i] \in T
  OBVIOUS
<1> HIDE DEF m, l
<1>3. /\ v \in Seq(T)
      /\ Len(v) = IF l <= m THEN m - l + 1 ELSE 0
      /\ \A i \in 1..m - l + 1 : v[i] = s[l + i - 1]
  BY <1>1, <1>2, SubSeqProperties
<1>4. Rest(s, n) = v
  BY DEF Rest, m, l
<1> HIDE DEF v
<1>5. m - l + 1 = m - n /\ \A i \in 1..m - n : l + i - 1 = n + i
  BY <1>1
<1>6. Len(v) = m - n
  BY <1>1, <1>3
<1>7. v \in Seq(T) /\ Len(v) = m - n /\ \A i \in 1..m - n : v[i] = s[n + i]
  BY <1>3, <1>5, <1>6
<1> QED
  BY <1>4, <1>7 DEF m

\* A sequence is a prefix of it and the rest.
LEMMA PrefixAndRest ==
  ASSUME NEW T, NEW s \in Seq(T), NEW x \in Seq(T), Len(x) <= Len(s),
         \A i \in 1..Len(x) : s[i] = x[i]
  PROVE  x \o Rest(s, Len(x)) = s
<1> DEFINE n == Len(x)
           m == Len(s)
           r == Rest(s, n)
           u == x \o r
<1>1. n \in Nat /\ m \in Nat /\ n <= m /\ \A i \in 1..n : s[i] = x[i]
  OBVIOUS
<1>2. r \in Seq(T) /\ Len(r) = m - n /\ \A i \in 1..m - n : r[i] = s[n + i]
  BY <1>1, RestProperties
<1> HIDE DEF r
<1>3. u \in Seq(T) /\ Len(u) = n + Len(r)
      /\ \A i \in 1..n + Len(r) : u[i] = IF i <= n THEN x[i] ELSE r[i - n]
  BY <1>2, ConcatProperties
<1> HIDE DEF u, n, m
<1>4. Len(u) = m
  BY <1>1, <1>2, <1>3
<1>5. ASSUME NEW i \in 1..m PROVE u[i] = s[i]
  <2>1. i \in 1..n + Len(r)
    BY <1>1, <1>2
  <2>2. CASE i <= n
    BY <1>1, <1>3, <2>1, <2>2
  <2>3. CASE ~(i <= n)
    <3>1. i - n \in 1..m - n /\ n + (i - n) = i
      BY <1>1, <2>3
    <3> QED
      BY <1>2, <1>3, <2>1, <2>3, <3>1
  <2> QED
    BY <2>2, <2>3
<1>6. u = s
  BY <1>3, <1>4, <1>5, SeqEqual DEF m
<1> QED
  BY <1>6 DEF u, r, n

\* The rest of two sequences one after the other.
LEMMA RestOfConcat ==
  ASSUME NEW T, NEW s \in Seq(T), NEW t \in Seq(T), NEW n \in Nat, n <= Len(s)
  PROVE  Rest(s \o t, n) = Rest(s, n) \o t
<1> DEFINE c == s \o t
           u == Rest(c, n)
           r == Rest(s, n)
           v == r \o t
           m == Len(s)
           k == Len(t)
<1>1. m \in Nat /\ k \in Nat /\ n <= m
  OBVIOUS
<1>2. c \in Seq(T) /\ Len(c) = m + k
      /\ \A i \in 1..m + k : c[i] = IF i <= m THEN s[i] ELSE t[i - m]
  BY ConcatProperties
<1>3. r \in Seq(T) /\ Len(r) = m - n /\ \A i \in 1..m - n : r[i] = s[n + i]
  BY <1>1, RestProperties
<1> HIDE DEF c, r
<1>4. v \in Seq(T) /\ Len(v) = Len(r) + k
      /\ \A i \in 1..Len(r) + k : v[i] = IF i <= Len(r) THEN r[i] ELSE t[i - Len(r)]
  BY <1>3, ConcatProperties
<1>5. n <= Len(c)
  BY <1>1, <1>2
<1>6. u \in Seq(T) /\ Len(u) = Len(c) - n /\ \A i \in 1..Len(c) - n : u[i] = c[n + i]
  BY <1>2, <1>5, RestProperties
<1> HIDE DEF u, v, m, k
<1>7. Len(u) = m + k - n /\ Len(v) = m + k - n
  <2>1. Len(u) = m + k - n
    BY <1>1, <1>2, <1>6
  <2>2. Len(v) = m + k - n
    BY <1>1, <1>3, <1>4
  <2> QED
    BY <2>1, <2>2
<1>8. ASSUME NEW i \in 1..m + k - n PROVE u[i] = v[i]
  <2>1. i \in 1..Len(c) - n /\ i \in 1..Len(r) + k /\ n + i \in 1..m + k
    BY <1>1, <1>2, <1>3
  <2>2. u[i] = c[n + i]
    BY <1>6, <2>1
  <2>3. c[n + i] = IF n + i <= m THEN s[n + i] ELSE t[n + i - m]
    <3> DEFINE j == n + i
    <3>1. j \in 1..m + k
      BY <2>1
    <3> HIDE DEF j
    <3>2. c[j] = IF j <= m THEN s[j] ELSE t[j - m]
      BY <1>2, <3>1
    <3>3. j = n + i /\ j - m = n + i - m
      BY <1>1 DEF j
    <3> QED
      BY <3>2, <3>3
  <2>4. v[i] = IF i <= m - n THEN r[i] ELSE t[i - (m - n)]
    BY <1>3, <1>4, <2>1
  <2>5. CASE n + i <= m
    <3>1. i \in 1..m - n /\ i <= m - n
      BY <1>1, <2>5
    <3> QED
      BY <1>3, <2>2, <2>3, <2>4, <2>5, <3>1
  <2>6. CASE ~(n + i <= m)
    <3>1. ~(i <= m - n) /\ i - (m - n) = n + i - m
      BY <1>1, <2>6
    <3> QED
      BY <2>2, <2>3, <2>4, <2>6, <3>1
  <2> QED
    BY <2>5, <2>6
<1>9. u = v
  BY <1>4, <1>6, <1>7, <1>8, SeqEqual
<1> QED
  BY <1>9 DEF u, v, c, r

\* What was sent last.
LastSent == IF noisy THEN "stray" ELSE "frame"
Noise == {"stray"}

\* The queued messages q are those of the frames A, the bytes s on their way
\* those of I; the touches A and I report, P and Q, are the ones not handled.
\* No stray byte follows another; z says what was sent last.
Account(q, s, pend, z, A, I, P, Q) ==
  /\ A \in Seq(FrameItems) /\ I \in Seq(Items)
  /\ P \in Seq(Touches) /\ Q \in Seq(Touches) /\ pend = P \o Q
  /\ Len(A) = Len(q) /\ \A i \in 1..Len(A) : q[i] = A[i].msg
  /\ Blocks(P, TouchesOf(A))
  /\ Blocks(s, BytesOf(I)) /\ Blocks(Q, TouchesOf(I))
  /\ \A i \in 1..Len(I) - 1 : I[i] \in StrayItems => I[i + 1] \in FrameItems
  /\ I # <<>> /\ I[Len(I)] \in StrayItems => z \in Noise

\* Frames are items.
LEMMA FramesAreItems ==
  ASSUME NEW A \in Seq(FrameItems)
  PROVE  A \in Seq(Items)
  BY SeqMonotonic DEF Items

\* A frame is not a stray byte.
LEMMA FrameIsNotStray == \A x \in FrameItems : x \notin StrayItems
<1> SUFFICES ASSUME NEW x \in FrameItems, x \in StrayItems PROVE FALSE
  OBVIOUS
<1>1. Len(x.bytes) >= 3
  BY FrameFacts, Zenon
<1>2. Len(x.bytes) = 1
  BY StrayFacts, Zenon
<1> QED
  BY <1>1, <1>2

\* The display sends an item.
LEMMA AddItem ==
  ASSUME NEW q, NEW s \in Seq(Byte), NEW pend, NEW z, NEW A, NEW I, NEW P, NEW Q,
         Account(q, s, pend, z, A, I, P, Q),
         NEW x \in Items, NEW z2, x \in StrayItems => z \notin Noise /\ z2 \in Noise
  PROVE  Account(q, s \o x.bytes, pend \o x.touch, z2, A, Append(I, x), P, Q \o x.touch)
<1> DEFINE J == Append(I, x)
<1>1. /\ A \in Seq(FrameItems) /\ I \in Seq(Items)
      /\ P \in Seq(Touches) /\ Q \in Seq(Touches) /\ pend = P \o Q
      /\ Blocks(s, BytesOf(I)) /\ Blocks(Q, TouchesOf(I))
  BY DEF Account
<1>2. x.bytes \in Seq(Byte) /\ x.touch \in Seq(Touches)
  BY ItemTypes
<1>3. Blocks(s \o x.bytes, BytesOf(J))
  <2> DEFINE w == BytesOf(I)
             y == x.bytes
  <2>1. w \in Seq(Seq(Byte)) /\ BytesOf(J) = Append(w, y)
    BY <1>1, MapTypes, MapAppend
  <2>2. Blocks(s, w) /\ y \in Seq(Byte)
    BY <1>1, <1>2
  <2> HIDE DEF w, y
  <2>3. Blocks(s \o y, Append(w, y))
    BY <2>1, <2>2, AppendBlock
  <2> QED
    BY <2>1, <2>3, Zenon DEF y
<1>4. Blocks(Q \o x.touch, TouchesOf(J))
  <2> DEFINE w == TouchesOf(I)
             y == x.touch
  <2>1. w \in Seq(Seq(Touches)) /\ TouchesOf(J) = Append(w, y)
    BY <1>1, MapTypes, MapAppend
  <2>2. Blocks(Q, w) /\ y \in Seq(Touches)
    BY <1>1, <1>2
  <2> HIDE DEF w, y
  <2>3. Blocks(Q \o y, Append(w, y))
    BY <1>1, <2>1, <2>2, AppendBlock
  <2> QED
    BY <2>1, <2>3, Zenon DEF y
<1>5. J \in Seq(Items) /\ Q \o x.touch \in Seq(Touches) /\ pend \o x.touch = P \o (Q \o x.touch)
  <2> DEFINE y == x.touch
  <2>1. J \in Seq(Items)
    BY <1>1
  <2>2. P \in Seq(Touches) /\ Q \in Seq(Touches) /\ y \in Seq(Touches)
    BY <1>1, <1>2
  <2> HIDE DEF y
  <2>3. Q \o y \in Seq(Touches) /\ (P \o Q) \o y = P \o (Q \o y)
    BY <2>2, ConcatAssociative, ConcatProperties
  <2> QED
    BY <1>1, <2>1, <2>3, Zenon DEF y
<1> DEFINE n == Len(I)
<1>6. n \in Nat /\ Len(J) = n + 1 /\ J[n + 1] = x /\ \A i \in 1..n : J[i] = I[i]
  BY <1>1
<1>7. /\ \A i \in 1..n - 1 : I[i] \in StrayItems => I[i + 1] \in FrameItems
      /\ (I # <<>> /\ I[n] \in StrayItems) => z \in Noise
  BY DEF Account
<1>8. n > 0 => I # <<>>
  BY <1>1
<1>9. x \notin StrayItems => x \in FrameItems
  BY DEF Items
<1> HIDE DEF J, n
<1>10. ASSUME NEW i \in 1..n, J[i] \in StrayItems PROVE J[i + 1] \in FrameItems
  <2>1. CASE i = n
    <3>1. I[n] \in StrayItems /\ n > 0 /\ J[i + 1] = x
      BY <1>6, <1>10, <2>1
    <3> QED
      BY <1>7, <1>8, <1>9, <3>1
  <2>2. CASE i # n
    <3>1. i \in 1..n - 1 /\ i + 1 \in 1..n
      BY <1>6, <2>2
    <3> QED
      BY <1>6, <1>7, <1>10, <3>1
  <2> QED
    BY <2>1, <2>2
<1>11. Len(J) - 1 = n /\ J[Len(J)] = x
  BY <1>6
<1>12. /\ \A i \in 1..Len(J) - 1 : J[i] \in StrayItems => J[i + 1] \in FrameItems
       /\ (J # <<>> /\ J[Len(J)] \in StrayItems) => z2 \in Noise
  BY <1>10, <1>11
<1>13. Len(A) = Len(q) /\ (\A i \in 1..Len(A) : q[i] = A[i].msg) /\ Blocks(P, TouchesOf(A))
  BY DEF Account
<1>14. Account(q, s \o x.bytes, pend \o x.touch, z2, A, J, P, Q \o x.touch)
  BY <1>1, <1>3, <1>4, <1>5, <1>12, <1>13 DEF Account
<1> QED
  BY <1>14 DEF J

\* What can be said of the bytes s and the touches Q of the items I, and of the
\* ones after the first.
FirstOf(s, z, I, Q) ==
  /\ I[1] \in Items /\ Tail(I) \in Seq(Items)
  /\ Len(I[1].bytes) \in Nat /\ Len(I[1].bytes) <= Len(s)
  /\ \A i \in 1..Len(I[1].bytes) : s[i] = I[1].bytes[i]
  /\ Blocks(Rest(s, Len(I[1].bytes)), BytesOf(Tail(I)))
  /\ Len(I[1].touch) \in Nat /\ Len(I[1].touch) <= Len(Q)
  /\ \A i \in 1..Len(I[1].touch) : Q[i] = I[1].touch[i]
  /\ Rest(Q, Len(I[1].touch)) \in Seq(Touches)
  /\ Blocks(Rest(Q, Len(I[1].touch)), TouchesOf(Tail(I)))
  /\ \A i \in 1..Len(Tail(I)) - 1 :
       Tail(I)[i] \in StrayItems => Tail(I)[i + 1] \in FrameItems
  /\ Tail(I) # <<>> /\ Tail(I)[Len(Tail(I))] \in StrayItems => z \in Noise

\* That holds of every account with something on its way.
LEMMA FirstItem ==
  ASSUME NEW q, NEW s \in Seq(Byte), NEW pend, NEW z, NEW A, NEW I, NEW P, NEW Q,
         Account(q, s, pend, z, A, I, P, Q), I # <<>>
  PROVE  FirstOf(s, z, I, Q)
<1> DEFINE x == I[1]
           b == BytesOf(I)
           t == TouchesOf(I)
           J == Tail(I)
<1>1. /\ I \in Seq(Items) /\ Q \in Seq(Touches)
      /\ Blocks(s, b) /\ Blocks(Q, t)
  BY DEF Account
<1>2. x \in Items /\ J \in Seq(Items) /\ BytesOf(J) = Tail(b) /\ TouchesOf(J) = Tail(t)
  BY <1>1, MapTail
<1>3. /\ b \in Seq(Seq(Byte)) /\ b # <<>> /\ b[1] = x.bytes
      /\ t \in Seq(Seq(Touches)) /\ t # <<>> /\ t[1] = x.touch
  <2>1. /\ b \in Seq(Seq(Byte)) /\ Len(b) = Len(I)
        /\ t \in Seq(Seq(Touches)) /\ Len(t) = Len(I)
        /\ \A i \in 1..Len(I) : b[i] = I[i].bytes /\ t[i] = I[i].touch
    BY <1>1, MapTypes
  <2>2. Len(I) \in Nat /\ 1 \in 1..Len(I) /\ Len(I) # 0
    BY <1>1
  <2> QED
    BY <2>1, <2>2
<1>4. /\ Len(x.bytes) \in Nat /\ Len(x.bytes) <= Len(s)
      /\ \A i \in 1..Len(x.bytes) : s[i] = x.bytes[i]
      /\ Blocks(Rest(s, Len(x.bytes)), BytesOf(J))
  <2> DEFINE w == b
             y == x.bytes
  <2>1. w \in Seq(Seq(Byte)) /\ w # <<>> /\ w[1] = y /\ Blocks(s, w) /\ s \in Seq(Byte)
    BY <1>1, <1>3
  <2>2. BytesOf(J) = Tail(w)
    BY <1>2
  <2> HIDE DEF w, y
  <2>3. /\ Len(y) \in Nat /\ Len(y) <= Len(s)
        /\ \A i \in 1..Len(y) : s[i] = y[i]
        /\ Rest(s, Len(y)) \in Seq(Byte)
        /\ Blocks(Rest(s, Len(y)), Tail(w))
    BY <2>1, FirstBlock DEF Rest
  <2> QED
    BY <2>2, <2>3, Zenon DEF y
<1>5. /\ Len(x.touch) \in Nat /\ Len(x.touch) <= Len(Q)
      /\ \A i \in 1..Len(x.touch) : Q[i] = x.touch[i]
      /\ Rest(Q, Len(x.touch)) \in Seq(Touches)
      /\ Blocks(Rest(Q, Len(x.touch)), TouchesOf(J))
  <2> DEFINE w == t
             y == x.touch
  <2>1. w \in Seq(Seq(Touches)) /\ w # <<>> /\ w[1] = y /\ Blocks(Q, w) /\ Q \in Seq(Touches)
    BY <1>1, <1>3
  <2>2. TouchesOf(J) = Tail(w)
    BY <1>2
  <2> HIDE DEF w, y
  <2>3. /\ Len(y) \in Nat /\ Len(y) <= Len(Q)
        /\ \A i \in 1..Len(y) : Q[i] = y[i]
        /\ Rest(Q, Len(y)) \in Seq(Touches)
        /\ Blocks(Rest(Q, Len(y)), Tail(w))
    BY <2>1, FirstBlock DEF Rest
  <2> QED
    BY <2>2, <2>3, Zenon DEF y
<1>6. /\ Len(J) = Len(I) - 1 /\ Len(I) \in Nat
      /\ \A i \in 1..Len(I) - 1 : J[i] = I[i + 1]
  BY <1>1
<1>7. /\ \A i \in 1..Len(I) - 1 : I[i] \in StrayItems => I[i + 1] \in FrameItems
      /\ I[Len(I)] \in StrayItems => z \in Noise
  BY DEF Account
<1>8. J # <<>> => Len(J) # 0
  <2> HIDE DEF J
  <2>1. J \in Seq(Items)
    BY <1>2
  <2> QED
    BY <2>1
<1> DEFINE n == Len(I)
<1> HIDE DEF J
<1>9. /\ n \in Nat /\ Len(J) = n - 1 /\ \A i \in 1..n - 1 : J[i] = I[i + 1]
  BY <1>6
<1>10. /\ \A i \in 1..n - 1 : I[i] \in StrayItems => I[i + 1] \in FrameItems
       /\ I[n] \in StrayItems => z \in Noise
  BY <1>7
<1> HIDE DEF n
<1>11. ASSUME NEW i \in 1..n - 1 - 1, J[i] \in StrayItems PROVE J[i + 1] \in FrameItems
  <2>1. i + 1 \in 1..n - 1 /\ i \in 1..n - 1
    BY <1>9
  <2> QED
    BY <1>9, <1>10, <1>11, <2>1
<1>12. ASSUME J # <<>>, J[Len(J)] \in StrayItems PROVE z \in Noise
  <2>1. Len(J) \in 1..n - 1 /\ Len(J) + 1 = n
    BY <1>8, <1>9, <1>12
  <2>2. J[Len(J)] = I[Len(J) + 1]
    BY <1>9, <2>1
  <2> QED
    BY <1>10, <1>12, <2>1, <2>2
<1> QED
  BY <1>2, <1>4, <1>5, <1>9, <1>11, <1>12, Zenon DEF J, FirstOf

\* parse() drops a stray byte.
LEMMA DropStray ==
  ASSUME NEW q, NEW s \in Seq(Byte), NEW pend, NEW z, NEW A, NEW I, NEW P, NEW Q,
         Account(q, s, pend, z, A, I, P, Q), I # <<>>, I[1] \in StrayItems
  PROVE  Account(q, Rest(s, 1), pend, z, A, Tail(I), P, Q)
<1>1. Len(I[1].bytes) = 1 /\ Len(I[1].touch) = 0
  BY StrayFacts
<1>2. /\ Tail(I) \in Seq(Items)
      /\ Blocks(Rest(s, 1), BytesOf(Tail(I)))
      /\ Blocks(Rest(Q, 0), TouchesOf(Tail(I)))
      /\ \A i \in 1..Len(Tail(I)) - 1 :
           Tail(I)[i] \in StrayItems => Tail(I)[i + 1] \in FrameItems
      /\ (Tail(I) # <<>> /\ Tail(I)[Len(Tail(I))] \in StrayItems) => z \in Noise
  <2>1. /\ Tail(I) \in Seq(Items)
        /\ Blocks(Rest(s, Len(I[1].bytes)), BytesOf(Tail(I)))
        /\ Blocks(Rest(Q, Len(I[1].touch)), TouchesOf(Tail(I)))
        /\ \A i \in 1..Len(Tail(I)) - 1 :
             Tail(I)[i] \in StrayItems => Tail(I)[i + 1] \in FrameItems
        /\ (Tail(I) # <<>> /\ Tail(I)[Len(Tail(I))] \in StrayItems) => z \in Noise
    <3>1. FirstOf(s, z, I, Q)
      BY FirstItem
    <3> QED
      BY <3>1, Zenon DEF FirstOf
  <2> QED
    BY <1>1, <2>1, Zenon
<1>3. Rest(Q, 0) = Q
  <2>1. Q \in Seq(Touches)
    BY DEF Account
  <2> QED
    BY <2>1, SubSeqFull DEF Rest
<1> QED
  BY <1>2, <1>3 DEF Account

\* parse() makes a message of a frame.
LEMMA TakeFrame ==
  ASSUME NEW q, NEW s \in Seq(Byte), NEW pend, NEW z, NEW A, NEW I, NEW P, NEW Q,
         q \in Seq(Messages),
         Account(q, s, pend, z, A, I, P, Q), I # <<>>, I[1] \in FrameItems
  PROVE  Account(Append(q, I[1].msg), Rest(s, Len(I[1].bytes)), pend, z, Append(A, I[1]), Tail(I),
                 P \o I[1].touch, Rest(Q, Len(I[1].touch)))
<1> DEFINE x == I[1]
           y == x.touch
           B == Append(A, x)
           k == Len(y)
           r == Append(q, x.msg)
<1>1. /\ A \in Seq(FrameItems) /\ A \in Seq(Items) /\ x \in Items /\ x \in FrameItems
      /\ P \in Seq(Touches) /\ Q \in Seq(Touches) /\ pend = P \o Q
      /\ Blocks(P, TouchesOf(A))
  BY FramesAreItems DEF Account, Items
<1>2. y \in Seq(Touches)
  BY <1>1, ItemTypes
<1>3. /\ Tail(I) \in Seq(Items)
      /\ Blocks(Rest(s, Len(x.bytes)), BytesOf(Tail(I)))
      /\ k <= Len(Q) /\ \A i \in 1..k : Q[i] = y[i]
      /\ Rest(Q, k) \in Seq(Touches) /\ Blocks(Rest(Q, k), TouchesOf(Tail(I)))
      /\ \A i \in 1..Len(Tail(I)) - 1 :
           Tail(I)[i] \in StrayItems => Tail(I)[i + 1] \in FrameItems
      /\ (Tail(I) # <<>> /\ Tail(I)[Len(Tail(I))] \in StrayItems) => z \in Noise
  <2>1. FirstOf(s, z, I, Q)
    BY FirstItem
  <2> QED
    BY <2>1, Zenon DEF FirstOf
<1>4. B \in Seq(FrameItems) /\ TouchesOf(B) = Append(TouchesOf(A), y)
  BY <1>1, MapAppend
<1>5. TouchesOf(A) \in Seq(Seq(Touches))
  BY <1>1, MapTypes
<1>6. Len(A) = Len(q) /\ \A i \in 1..Len(A) : q[i] = A[i].msg
  BY DEF Account
<1>7. Len(B) = Len(r) /\ \A i \in 1..Len(B) : r[i] = B[i].msg
  <2>1. /\ Len(B) = Len(A) + 1 /\ B[Len(A) + 1] = x /\ \A i \in 1..Len(A) : B[i] = A[i]
        /\ Len(A) \in Nat
    BY <1>1
  <2>2. /\ Len(r) = Len(q) + 1 /\ r[Len(q) + 1] = x.msg /\ \A i \in 1..Len(q) : r[i] = q[i]
    OBVIOUS
  <2> HIDE DEF B, r, x
  <2>3. ASSUME NEW i \in 1..Len(A) + 1 PROVE r[i] = B[i].msg
    <3>1. CASE i = Len(A) + 1
      BY <1>6, <2>1, <2>2, <3>1
    <3>2. CASE i \in 1..Len(A)
      BY <1>6, <2>1, <2>2, <3>2
    <3> QED
      BY <2>1, <3>1, <3>2
  <2> QED
    BY <1>6, <2>1, <2>2, <2>3
<1> HIDE DEF y, B, r
<1>8. Blocks(P \o y, TouchesOf(B))
  <2> DEFINE w == TouchesOf(A)
  <2> HIDE DEF w
  <2>1. w \in Seq(Seq(Touches)) /\ Blocks(P, w) /\ TouchesOf(B) = Append(w, y)
    BY <1>1, <1>4, <1>5 DEF w
  <2>2. Blocks(P \o y, Append(w, y))
    BY <1>1, <1>2, <2>1, AppendBlock
  <2> QED
    BY <2>1, <2>2
<1>9. y \o Rest(Q, k) = Q
  BY <1>1, <1>2, <1>3, PrefixAndRest
<1>10. P \o y \in Seq(Touches) /\ (P \o y) \o Rest(Q, k) = P \o (y \o Rest(Q, k))
  <2> DEFINE e == Rest(Q, k)
  <2>1. e \in Seq(Touches)
    BY <1>3
  <2> HIDE DEF e
  <2>2. P \o y \in Seq(Touches) /\ (P \o y) \o e = P \o (y \o e)
    <3>1. P \in Seq(Touches) /\ y \in Seq(Touches)
      BY <1>1, <1>2
    <3> QED
      BY <2>1, <3>1, ConcatAssociative, ConcatProperties
  <2> QED
    BY <2>2 DEF e
<1>11. pend = (P \o y) \o Rest(Q, k)
  BY <1>1, <1>9, <1>10
<1>12. Account(r, Rest(s, Len(x.bytes)), pend, z, B, Tail(I), P \o y, Rest(Q, k))
  BY <1>3, <1>4, <1>7, <1>8, <1>10, <1>11, Zenon DEF Account
<1> QED
  BY <1>12, Zenon DEF y, B, r, x, k

\* The core thread handles the oldest message.
LEMMA HandleFirst ==
  ASSUME NEW q \in Seq(Messages), NEW s, NEW pend, NEW z, NEW A, NEW I, NEW P, NEW Q,
         Account(q, s, pend, z, A, I, P, Q), q # <<>>
  PROVE  LET x == A[1]
             k == Len(x.touch)
         IN  /\ x \in FrameItems /\ Head(q) = x.msg
             /\ k \in Nat /\ k <= Len(pend) /\ \A i \in 1..k : pend[i] = x.touch[i]
             /\ Account(Tail(q), s, Rest(pend, k), z, Tail(A), I, Rest(P, k), Q)
<1> DEFINE x == A[1]
           y == x.touch
           k == Len(y)
           B == Tail(A)
           r == Tail(q)
           w == TouchesOf(A)
<1>1. /\ A \in Seq(FrameItems) /\ A \in Seq(Items)
      /\ P \in Seq(Touches) /\ Q \in Seq(Touches) /\ pend = P \o Q
      /\ Blocks(P, w)
      /\ Len(A) = Len(q) /\ \A i \in 1..Len(A) : q[i] = A[i].msg
  BY FramesAreItems DEF Account
<1>2. Len(A) \in Nat /\ Len(A) > 0 /\ A # <<>>
  BY <1>1
<1>3. x \in FrameItems /\ Head(q) = x.msg
  BY <1>1, <1>2
<1>4. /\ B \in Seq(FrameItems) /\ Len(B) = Len(r)
      /\ \A i \in 1..Len(B) : r[i] = B[i].msg
  <2>1. B \in Seq(FrameItems) /\ Len(B) = Len(A) - 1 /\ \A i \in 1..Len(A) - 1 : B[i] = A[i + 1]
    BY <1>1, <1>2
  <2>2. Len(r) = Len(q) - 1 /\ \A i \in 1..Len(q) - 1 : r[i] = q[i + 1]
    OBVIOUS
  <2> HIDE DEF B, r
  <2>3. \A i \in 1..Len(A) - 1 : i + 1 \in 1..Len(A)
    BY <1>2
  <2> QED
    BY <1>1, <2>1, <2>2, <2>3
<1>5. /\ w \in Seq(Seq(Touches)) /\ w # <<>> /\ w[1] = y /\ TouchesOf(B) = Tail(w)
  <2>1. /\ w \in Seq(Seq(Touches)) /\ Len(w) = Len(A)
        /\ \A i \in 1..Len(A) : w[i] = A[i].touch
    BY <1>1, MapTypes
  <2>2. 1 \in 1..Len(A) /\ Len(A) # 0
    BY <1>2
  <2>3. TouchesOf(B) = Tail(w)
    BY <1>1, <1>2, MapTail
  <2> HIDE DEF w
  <2> QED
    BY <2>1, <2>2, <2>3
<1> HIDE DEF w, y
<1>6. /\ k \in Nat /\ k <= Len(P) /\ \A i \in 1..k : P[i] = y[i]
      /\ Rest(P, k) \in Seq(Touches)
      /\ Blocks(Rest(P, k), Tail(w))
  BY <1>1, <1>5, FirstBlock DEF Rest
<1> HIDE DEF k
<1>7. Rest(pend, k) = Rest(P, k) \o Q
  BY <1>1, <1>6, RestOfConcat
<1>8. k <= Len(pend) /\ \A i \in 1..k : pend[i] = P[i]
  <2>1. /\ Len(pend) = Len(P) + Len(Q) /\ Len(P) \in Nat /\ Len(Q) \in Nat
        /\ \A i \in 1..Len(P) + Len(Q) : pend[i] = IF i <= Len(P) THEN P[i] ELSE Q[i - Len(P)]
    BY <1>1, ConcatProperties
  <2> QED
    BY <1>6, <2>1
<1>9. Account(r, s, Rest(pend, k), z, B, I, Rest(P, k), Q)
  <2>1. /\ I \in Seq(Items) /\ Blocks(s, BytesOf(I)) /\ Blocks(Q, TouchesOf(I))
        /\ \A i \in 1..Len(I) - 1 : I[i] \in StrayItems => I[i + 1] \in FrameItems
        /\ I # <<>> /\ I[Len(I)] \in StrayItems => z \in Noise
    BY Zenon DEF Account
  <2>2. Blocks(Rest(P, k), TouchesOf(B))
    BY <1>5, <1>6
  <2> QED
    BY <1>1, <1>4, <1>6, <1>7, <2>1, <2>2, Zenon DEF Account
<1>10. k <= Len(pend) /\ \A i \in 1..k : pend[i] = y[i]
  BY <1>6, <1>8
<1> QED
  BY <1>3, <1>6, <1>9, <1>10, Zenon DEF x, y, k, B, r

\* Nothing was sent.
LEMMA NoItems ==
  ASSUME NEW q, NEW s \in Seq(Byte), NEW pend, NEW z, NEW A, NEW I, NEW P, NEW Q,
         Account(q, s, pend, z, A, I, P, Q), I = <<>>
  PROVE  s = <<>> /\ Q = <<>>
<1>1. BytesOf(I) = <<>> /\ TouchesOf(I) = <<>>
  BY DEF BytesOf, TouchesOf
<1>2. Blocks(s, <<>>) /\ Blocks(Q, <<>>) /\ Q \in Seq(Touches)
  BY <1>1 DEF Account
<1> QED
  BY <1>2, NoBlocks

\* A frame comes first.
LEMMA FrameFirst ==
  ASSUME NEW q, NEW s \in Seq(Byte), NEW pend, NEW z, NEW A, NEW I, NEW P, NEW Q,
         Account(q, s, pend, z, A, I, P, Q), I # <<>>, I[1] \in FrameItems
  PROVE  /\ s[1] = 90 /\ s[2] = 165 /\ Len(I[1].bytes) = 3 + s[3]
         /\ Len(I[1].bytes) \in Nat /\ Len(I[1].bytes) >= 3 /\ Len(I[1].bytes) <= Len(s)
         /\ \A i \in 1..Len(I[1].bytes) : s[i] = I[1].bytes[i]
<1> DEFINE b == I[1].bytes
<1>1. FirstOf(s, z, I, Q)
  BY FirstItem
<1>2. Len(b) \in Nat /\ Len(b) <= Len(s) /\ \A i \in 1..Len(b) : s[i] = b[i]
  BY <1>1, Zenon DEF FirstOf
<1>3. Len(b) >= 3 /\ Len(b) = 3 + b[3] /\ b[1] = 90 /\ b[2] = 165
  BY FrameFacts, ZenonT(60)
<1> HIDE DEF b
<1>4. 1 \in 1..Len(b) /\ 2 \in 1..Len(b) /\ 3 \in 1..Len(b)
  BY <1>2, <1>3
<1>5. s[1] = b[1] /\ s[2] = b[2] /\ s[3] = b[3]
  BY <1>2, <1>4
<1> QED
  BY <1>2, <1>3, <1>5, ZenonT(60) DEF b

\* A stray byte comes first and something follows it: a frame.
LEMMA StrayFirst ==
  ASSUME NEW q, NEW s \in Seq(Byte), NEW pend, NEW z, NEW A, NEW I, NEW P, NEW Q,
         Account(q, s, pend, z, A, I, P, Q), I # <<>>, I[1] \in StrayItems
  PROVE  /\ Len(s) >= 1
         /\ Tail(I) # <<>> => Len(s) >= 4 /\ s[2] = 90
         /\ Tail(I) = <<>> => Len(s) = 1 /\ Q = <<>>
<1> DEFINE r == Rest(s, 1)
           J == Tail(I)
<1>1. Account(q, r, pend, z, A, J, P, Q)
  BY DropStray
<1>2. Len(s) \in Nat /\ Len(s) >= 1
  <2>1. FirstOf(s, z, I, Q)
    BY FirstItem
  <2>2. Len(I[1].bytes) <= Len(s)
    BY <2>1, Zenon DEF FirstOf
  <2>3. Len(I[1].bytes) = 1
    BY StrayFacts
  <2> QED
    BY <2>2, <2>3
<1>3. r \in Seq(Byte) /\ Len(r) = Len(s) - 1 /\ \A i \in 1..Len(s) - 1 : r[i] = s[1 + i]
  BY <1>2, RestProperties
<1>4. CASE J = <<>>
  <2>1. r = <<>> /\ Q = <<>>
    BY <1>1, <1>3, <1>4, NoItems
  <2> QED
    BY <1>2, <1>3, <1>4, <2>1
<1>5. CASE J # <<>>
  <2>1. /\ I \in Seq(Items)
        /\ \A i \in 1..Len(I) - 1 : I[i] \in StrayItems => I[i + 1] \in FrameItems
    BY DEF Account
  <2>2. Len(J) = Len(I) - 1 /\ Len(I) \in Nat /\ Len(J) > 0 /\ J[1] = I[2]
    BY <1>5, <2>1
  <2>3. 1 \in 1..Len(I) - 1 /\ 1 + 1 = 2
    BY <2>2
  <2>4. J[1] \in FrameItems
    BY <2>1, <2>2, <2>3
  <2> HIDE DEF J, r
  <2>5. /\ r[1] = 90 /\ Len(J[1].bytes) \in Nat
        /\ Len(J[1].bytes) >= 3 /\ Len(J[1].bytes) <= Len(r)
    BY <1>1, <1>3, <1>5, <2>4, FrameFirst
  <2>6. Len(r) >= 3
    BY <1>2, <1>3, <2>5
  <2>7. 1 \in 1..Len(s) - 1 /\ 1 + 1 = 2 /\ Len(s) >= 4
    BY <1>2, <1>3, <2>6
  <2>8. r[1] = s[2]
    BY <1>3, <2>7
  <2> QED
    BY <1>2, <1>5, <2>5, <2>7, <2>8 DEF J
<1> QED
  BY <1>4, <1>5

\* The two bytes Garbage looks at.
LEMMA HeaderOf ==
  ASSUME NEW b \in Seq(Byte), Len(b) >= 3
  PROVE  SubSeq(b, 1, 2) = <<90, 165>> <=> b[1] = 90 /\ b[2] = 165
<1> DEFINE l == 1
           m == 2
           v == SubSeq(b, l, m)
<1>1. l \in Int /\ m \in Int /\ l = 1 /\ m = 2 /\ \A i \in l..m : b[i] \in Byte
  OBVIOUS
<1> HIDE DEF l, m
<1>2. /\ v \in Seq(Byte)
      /\ Len(v) = IF l <= m THEN m - l + 1 ELSE 0
      /\ \A i \in 1..m - l + 1 : v[i] = b[l + i - 1]
  BY <1>1, SubSeqProperties
<1> HIDE DEF v
<1>3. Len(v) = 2 /\ v[1] = b[1] /\ v[2] = b[2]
  BY <1>1, <1>2
<1>4. v = <<v[1], v[2]>>
  BY <1>2, <1>3
<1>5. v = <<b[1], b[2]>>
  BY <1>3, <1>4
<1>6. v = SubSeq(b, 1, 2)
  BY <1>1 DEF v
<1> DEFINE e == b[1]
           f == b[2]
<1> HIDE DEF e, f
<1>7. <<e, f>> = <<90, 165>> <=> e = 90 /\ f = 165
  OBVIOUS
<1> QED
  BY <1>5, <1>6, <1>7 DEF e, f

\* Where m_buffer ends does not change what it begins with.
LEMMA BufferBegins ==
  ASSUME m_buffer \in Seq(Byte), line \in Seq(Byte)
  PROVE  /\ m_buffer \o line \in Seq(Byte)
         /\ Len(m_buffer \o line) = Len(m_buffer) + Len(line)
         /\ Len(m_buffer) \in Nat /\ Len(line) \in Nat
         /\ \A i \in 1..Len(m_buffer) : (m_buffer \o line)[i] = m_buffer[i]
<1>1. Len(m_buffer) \in Nat /\ Len(line) \in Nat
  OBVIOUS
<1>2. /\ m_buffer \o line \in Seq(Byte)
      /\ Len(m_buffer \o line) = Len(m_buffer) + Len(line)
      /\ \A i \in 1..Len(m_buffer) + Len(line) :
           (m_buffer \o line)[i] = IF i <= Len(m_buffer) THEN m_buffer[i]
                                                         ELSE line[i - Len(m_buffer)]
  BY ConcatProperties
<1>3. \A i \in 1..Len(m_buffer) : i \in 1..Len(m_buffer) + Len(line) /\ i <= Len(m_buffer)
  BY <1>1
<1> QED
  BY <1>1, <1>2, <1>3

\* Two bytes tell what comes first.
LEMMA FirstIs ==
  ASSUME NEW q, NEW s \in Seq(Byte), NEW pend, NEW z, NEW A, NEW I, NEW P, NEW Q,
         Account(q, s, pend, z, A, I, P, Q), Len(s) >= 3
  PROVE  /\ I # <<>>
         /\ s[1] = 90 /\ s[2] = 165 => I[1] \in FrameItems /\ Len(I[1].bytes) = 3 + s[3]
         /\ ~(s[1] = 90 /\ s[2] = 165) => I[1] \in StrayItems
<1>1. I # <<>>
  BY NoItems
<1>2. I[1] \in Items
  <2>1. FirstOf(s, z, I, Q)
    BY <1>1, FirstItem
  <2> QED
    BY <2>1, Zenon DEF FirstOf
<1>3. CASE I[1] \in FrameItems
  <2>1. s[1] = 90 /\ s[2] = 165 /\ Len(I[1].bytes) = 3 + s[3]
    BY <1>1, <1>3, FrameFirst
  <2> QED
    BY <1>1, <1>3, <2>1
<1>4. CASE I[1] \in StrayItems
  <2>1. /\ Len(s) >= 1
        /\ Tail(I) # <<>> => Len(s) >= 4 /\ s[2] = 90
        /\ Tail(I) = <<>> => Len(s) = 1 /\ Q = <<>>
    BY <1>1, <1>4, StrayFirst, Zenon
  <2>2. s[2] = 90
    BY <2>1
  <2>3. s[2] # 165
    BY <2>2
  <2> QED
    BY <1>1, <1>4, <2>3
<1> QED
  BY <1>2, <1>3, <1>4 DEF Items

\* What does not begin with the header is a stray byte.
LEMMA GarbageIsStray ==
  ASSUME m_buffer \in Seq(Byte), line \in Seq(Byte), NEW q, NEW A, NEW I, NEW P, NEW Q,
         Account(q, m_buffer \o line, pending, LastSent, A, I, P, Q), Garbage
  PROVE  I # <<>> /\ I[1] \in StrayItems
<1> DEFINE s == m_buffer \o line
<1>1. Len(m_buffer) >= 3 /\ ~(m_buffer[1] = 90 /\ m_buffer[2] = 165)
  BY HeaderOf DEF Garbage
<1>2. /\ s \in Seq(Byte) /\ Len(s) = Len(m_buffer) + Len(line)
      /\ Len(m_buffer) \in Nat /\ Len(line) \in Nat
      /\ \A i \in 1..Len(m_buffer) : s[i] = m_buffer[i]
  BY BufferBegins
<1>3. Account(q, s, pending, LastSent, A, I, P, Q)
  OBVIOUS
<1> HIDE DEF s
<1>4. Len(s) >= 3 /\ s[1] = m_buffer[1] /\ s[2] = m_buffer[2]
  BY <1>1, <1>2
<1>5. I # <<>> /\ (~(s[1] = 90 /\ s[2] = 165) => I[1] \in StrayItems)
  BY <1>2, <1>3, <1>4, FirstIs
<1> QED
  BY <1>1, <1>4, <1>5

\* What begins with the header is a frame, and packetSize() its length.
LEMMA HeaderIsFrame ==
  ASSUME m_buffer \in Seq(Byte), line \in Seq(Byte), NEW q, NEW A, NEW I, NEW P, NEW Q,
         Account(q, m_buffer \o line, pending, LastSent, A, I, P, Q),
         Len(m_buffer) >= 3, ~Garbage
  PROVE  I # <<>> /\ I[1] \in FrameItems /\ packetSize(m_buffer) = Len(I[1].bytes)
<1> DEFINE s == m_buffer \o line
<1>1. m_buffer[1] = 90 /\ m_buffer[2] = 165
  BY HeaderOf DEF Garbage
<1>2. /\ s \in Seq(Byte) /\ Len(s) = Len(m_buffer) + Len(line)
      /\ Len(m_buffer) \in Nat /\ Len(line) \in Nat
      /\ \A i \in 1..Len(m_buffer) : s[i] = m_buffer[i]
  BY BufferBegins
<1>3. Account(q, s, pending, LastSent, A, I, P, Q)
  OBVIOUS
<1> HIDE DEF s
<1>4. Len(s) >= 3 /\ s[1] = 90 /\ s[2] = 165 /\ s[3] = m_buffer[3]
  BY <1>1, <1>2
<1>5. I # <<>> /\ I[1] \in FrameItems /\ Len(I[1].bytes) = 3 + s[3]
  BY <1>2, <1>3, <1>4, FirstIs
<1> QED
  BY <1>4, <1>5 DEF packetSize

\* When parse() has returned and all was read, no frame is kept back.
LEMMA NothingKept ==
  ASSUME m_buffer \in Seq(Byte), line = <<>>, NEW q, NEW A, NEW I, NEW P, NEW Q,
         Account(q, m_buffer \o line, pending, LastSent, A, I, P, Q),
         ~Garbage, ~Complete
  PROVE  Q = <<>>
<1>0. line \in Seq(Byte) /\ Len(line) = 0
  OBVIOUS
<1> DEFINE s == m_buffer \o line
<1>1. /\ s \in Seq(Byte) /\ Len(s) = Len(m_buffer) + Len(line)
      /\ Len(m_buffer) \in Nat /\ Len(line) \in Nat
      /\ \A i \in 1..Len(m_buffer) : s[i] = m_buffer[i]
  BY <1>0, BufferBegins
<1> HIDE DEF s
<1>2. Len(s) = Len(m_buffer)
  BY <1>0, <1>1
<1>3. Account(q, s, pending, LastSent, A, I, P, Q)
  BY DEF s
<1>4. CASE I = <<>>
  BY <1>1, <1>3, <1>4, NoItems
<1>5. CASE I # <<>> /\ I[1] \in FrameItems
  <2>1. Len(I[1].bytes) \in Nat /\ Len(I[1].bytes) >= 3 /\ Len(I[1].bytes) <= Len(s)
    BY <1>1, <1>3, <1>5, FrameFirst
  <2>2. Len(m_buffer) >= 3
    BY <1>1, <1>2, <2>1
  <2>3. packetSize(m_buffer) = Len(I[1].bytes)
    BY <1>0, <2>2, HeaderIsFrame
  <2>4. Complete
    BY <1>2, <2>1, <2>2, <2>3 DEF Complete
  <2> QED
    BY <2>4
<1>6. CASE I # <<>> /\ I[1] \in StrayItems
  <2>1. /\ Tail(I) # <<>> => Len(s) >= 4
        /\ Tail(I) = <<>> => Q = <<>>
    BY <1>1, <1>3, <1>6, StrayFirst
  <2>2. ASSUME Tail(I) # <<>> PROVE FALSE
    <3>1. Len(m_buffer) >= 3
      BY <1>1, <1>2, <2>1, <2>2
    <3>2. I[1] \in FrameItems
      BY <1>0, <3>1, HeaderIsFrame
    <3> QED
      BY <1>6, <3>2, FrameIsNotStray
  <2> QED
    BY <2>1, <2>2
<1>7. I # <<>> => I[1] \in Items
  <2>1. I \in Seq(Items)
    BY DEF Account
  <2> QED
    BY <2>1
<1> QED
  BY <1>4, <1>5, <1>6, <1>7 DEF Items

\* What is queued and what is on its way account for every touch that was made
\* and not handled; between two calls of parse() no packet waits in m_buffer.
Accounted ==
  \E A, I, P, Q : Account(inbox \o messages, m_buffer \o line, pending, LastSent, A, I, P, Q)

SentInv ==
  /\ line \in Seq(Byte) /\ m_buffer \in Seq(Byte)
  /\ inbox \in Seq(Messages) /\ messages \in Seq(Messages)
  /\ ~parsing => messages = <<>> /\ ~Garbage /\ ~Complete
  /\ Accounted

\* Nothing was sent initially.
LEMMA TouchInit == Init => SentInv
<1> SUFFICES ASSUME Init PROVE SentInv
  OBVIOUS
<1>1. line = <<>> /\ m_buffer = <<>> /\ messages = <<>> /\ inbox = <<>> /\ pending = <<>>
  BY DEF Init, ParserInit
<1>2. BytesOf(<<>>) = <<>> /\ TouchesOf(<<>>) = <<>>
  BY DEF BytesOf, TouchesOf
<1>3. Account(<<>>, <<>>, <<>>, LastSent, <<>>, <<>>, <<>>, <<>>)
  BY <1>2, EmptyBlocks DEF Account
<1>4. inbox \o messages = <<>> /\ m_buffer \o line = <<>>
  BY <1>1
<1>5. Accounted
  BY <1>1, <1>3, <1>4 DEF Accounted
<1>6. ~Garbage /\ ~Complete
  BY <1>1 DEF Garbage, Complete
<1> QED
  BY <1>1, <1>5, <1>6 DEF SentInv

\* The display sends x.
LEMMA SendKeeps ==
  ASSUME SentInv, NEW x \in Items, ~parsing,
         line' = line \o x.bytes, pending' = pending \o x.touch,
         x \in StrayItems => LastSent \notin Noise /\ LastSent' \in Noise,
         UNCHANGED <<m_buffer, parsing, messages, inbox>>
  PROVE  SentInv'
<1> PICK A, I, P, Q : Account(inbox \o messages, m_buffer \o line, pending, LastSent, A, I, P, Q)
  BY DEF SentInv, Accounted
<1> DEFINE s == m_buffer \o line
           b == x.bytes
<1>1. x.bytes \in Seq(Byte) /\ x.touch \in Seq(Touches)
  BY ItemTypes
<1>2. s \in Seq(Byte) /\ m_buffer \in Seq(Byte) /\ line \in Seq(Byte) /\ b \in Seq(Byte)
  BY <1>1, ConcatProperties DEF SentInv
<1>3. Account(inbox \o messages, s \o b, pending', LastSent', A, Append(I, x), P, Q \o x.touch)
  <2> DEFINE q == inbox \o messages
  <2>1. Account(q, s, pending, LastSent, A, I, P, Q)
    OBVIOUS
  <2> HIDE DEF q, s
  <2>2. Account(q, s \o x.bytes, pending \o x.touch, LastSent', A, Append(I, x), P, Q \o x.touch)
    <3>1. s \in Seq(Byte)
      BY <1>2
    <3> QED
      BY <2>1, <3>1, AddItem
  <2> QED
    BY <2>2 DEF q
<1> HIDE DEF b
<1>4. s \o b = m_buffer \o (line \o b) /\ line \o b \in Seq(Byte)
  BY <1>2, ConcatAssociative, ConcatProperties, SMTT(60)
<1>5. Account((inbox \o messages)', (m_buffer \o line)', pending', LastSent', A, Append(I, x), P,
              Q \o x.touch)
  BY <1>3, <1>4, Zenon DEF b
<1>6. Accounted'
  BY <1>5, Zenon DEF Accounted
<1>7. line' \in Seq(Byte)
  BY <1>4 DEF b
<1>8. ~parsing' => messages' = <<>> /\ ~Garbage' /\ ~Complete'
  BY DEF SentInv, Garbage, Complete, packetSize
<1> QED
  BY <1>6, <1>7, <1>8 DEF SentInv

\* The display reports a touch.
LEMMA TouchKeeps ==
  ASSUME SentInv, NEW t \in Touches, Touch(t)
  PROVE  SentInv'
<1> DEFINE x == TouchItem(t)
<1>1. x \in FrameItems /\ x \in Items /\ x \notin StrayItems
  BY FrameIsNotStray DEF FrameItems, Items
<1>2. x.bytes = Frame(t) /\ x.touch = <<t>>
  BY DEF TouchItem
<1>3. pending \in Seq(Touches)
  BY ConcatProperties DEF SentInv, Accounted, Account
<1>4. Append(pending, t) = pending \o <<t>>
  BY <1>3, AppendIsConcat
<1> HIDE DEF x
<1> QED
  BY <1>1, <1>2, <1>4, SendKeeps DEF Touch

\* The display acknowledges a write.
LEMMA AcknowledgeKeeps ==
  ASSUME SentInv, Acknowledge
  PROVE  SentInv'
<1> DEFINE x == AckItem
<1>1. x \in FrameItems /\ x \in Items /\ x \notin StrayItems
  BY FrameIsNotStray DEF FrameItems, Items
<1>2. x.bytes = <<90, 165, 3, 130, 79, 75>> /\ x.touch = <<>>
  BY DEF AckItem
<1>3. pending \in Seq(Touches)
  BY ConcatProperties DEF SentInv, Accounted, Account
<1>4. pending = pending \o <<>>
  BY <1>3, ConcatEmptySeq
<1>5. x.bytes \in Seq(Byte)
  BY <1>1, ItemTypes
<1> HIDE DEF x
<1>6. line' = line \o x.bytes
  <2>1. line = <<>> /\ line' = x.bytes
    BY <1>2 DEF Acknowledge
  <2> QED
    BY <1>5, <2>1, ConcatEmptySeq
<1> QED
  BY <1>1, <1>2, <1>4, <1>6, SendKeeps DEF Acknowledge

\* A stray byte is sent.
LEMMA StrayKeeps ==
  ASSUME SentInv, NEW c \in Strays, Stray(c)
  PROVE  SentInv'
<1> DEFINE x == StrayItem(c)
<1>1. x \in StrayItems /\ x \in Items
  BY DEF StrayItems, Items
<1>2. x.bytes = <<c>> /\ x.touch = <<>> /\ c \in Byte
  BY StrayAssumption DEF StrayItem
<1>3. pending \in Seq(Touches)
  BY ConcatProperties DEF SentInv, Accounted, Account
<1>4. pending = pending \o <<>>
  BY <1>3, ConcatEmptySeq
<1>5. Append(line, c) = line \o <<c>>
  BY <1>2, AppendIsConcat DEF SentInv
<1> HIDE DEF x
<1> QED
  <2>1. LastSent \notin Noise /\ LastSent' \in Noise
    BY DEF Stray, LastSent, Noise
  <2> QED
    BY <1>1, <1>2, <1>4, <1>5, <2>1, SendKeeps DEF Stray

\* The port hands bytes over.
LEMMA ReceiveKeeps ==
  ASSUME SentInv, NEW n \in {k \in Pieces : k < Len(line)} \cup {Len(line)}, Receive(n),
         UNCHANGED <<pending, noisy>>
  PROVE  SentInv'
<1>1. m_buffer \in Seq(Byte) /\ line \in Seq(Byte)
  BY DEF SentInv
<1>2. n \in Nat /\ n <= Len(line) /\ Len(line) \in Nat
  BY <1>1, PiecesAssumption
<1> DEFINE l == 1
           x == SubSeq(line, l, n)
           r == Rest(line, n)
<1>3. l = 1 /\ l \in Int /\ n \in Int /\ \A i \in l..n : line[i] \in Byte
  BY <1>1, <1>2
<1> HIDE DEF l
<1>4. /\ x \in Seq(Byte)
      /\ Len(x) = IF l <= n THEN n - l + 1 ELSE 0
      /\ \A i \in 1..n - l + 1 : x[i] = line[l + i - 1]
  BY <1>3, SubSeqProperties
<1>5. x = SubSeq(line, 1, n)
  BY <1>3
<1> HIDE DEF x
<1>6. Len(x) = n
  BY <1>2, <1>3, <1>4
<1>7. \A i \in 1..n : line[i] = x[i]
  <2> TAKE i \in 1..n
  <2>1. i \in 1..n - l + 1 /\ l + i - 1 = i
    BY <1>2, <1>3
  <2> QED
    BY <1>4, <2>1
<1>8. x \o Rest(line, Len(x)) = line
  BY <1>1, <1>2, <1>4, <1>6, <1>7, PrefixAndRest
<1>9. r \in Seq(Byte)
  BY <1>1, <1>2, RestProperties
<1>10. x \o r = line
  BY <1>6, <1>8
<1> HIDE DEF r
<1>11. m_buffer \o x \in Seq(Byte) /\ (m_buffer \o x) \o r = m_buffer \o line
  <2>1. m_buffer \in Seq(Byte) /\ x \in Seq(Byte) /\ r \in Seq(Byte)
    BY <1>1, <1>4, <1>9
  <2>2. m_buffer \o x \in Seq(Byte) /\ (m_buffer \o x) \o r = m_buffer \o (x \o r)
    BY <2>1, ConcatAssociative, ConcatProperties
  <2> QED
    BY <1>10, <2>2, Zenon
<1>12. m_buffer' = m_buffer \o x /\ line' = r /\ parsing' = TRUE /\ UNCHANGED <<messages, inbox>>
  BY <1>5 DEF Receive, Rest, r
<1> QED
  <2>1. (m_buffer \o line)' = m_buffer \o line /\ (inbox \o messages)' = inbox \o messages
    BY <1>11, <1>12
  <2>2. Accounted'
    BY <2>1, Zenon DEF SentInv, Accounted, LastSent
  <2> QED
    BY <1>9, <1>11, <1>12, <2>2 DEF SentInv

\* parse() drops a byte.
LEMMA SkipKeeps ==
  ASSUME SentInv, SkipGarbage, UNCHANGED <<pending, noisy>>
  PROVE  SentInv'
<1>1. m_buffer \in Seq(Byte) /\ line \in Seq(Byte)
  BY DEF SentInv
<1> PICK A, I, P, Q : Account(inbox \o messages, m_buffer \o line, pending, LastSent, A, I, P, Q)
  BY DEF SentInv, Accounted
<1>2. I # <<>> /\ I[1] \in StrayItems
  BY <1>1, GarbageIsStray DEF SkipGarbage
<1> DEFINE q == inbox \o messages
           s == m_buffer \o line
<1>3. s \in Seq(Byte) /\ Account(q, s, pending, LastSent, A, I, P, Q)
  BY <1>1, ConcatProperties
<1> HIDE DEF q, s
<1>4. Account(q, Rest(s, 1), pending, LastSent, A, Tail(I), P, Q)
  BY <1>2, <1>3, DropStray
<1>5. m_buffer # <<>> /\ 1 <= Len(m_buffer)
  BY <1>1 DEF SkipGarbage, Garbage
<1>6. Tail(m_buffer) = Rest(m_buffer, 1) /\ Tail(m_buffer) \in Seq(Byte)
  BY <1>1, <1>5, TailIsSubSeq DEF Rest
<1>7. Rest(s, 1) = Rest(m_buffer, 1) \o line
  <2> DEFINE n == 1
  <2>1. n \in Nat /\ n <= Len(m_buffer)
    BY <1>5
  <2> HIDE DEF n
  <2>2. Rest(m_buffer \o line, n) = Rest(m_buffer, n) \o line
    BY <1>1, <2>1, RestOfConcat
  <2> QED
    BY <2>2 DEF n, s
<1>8. /\ m_buffer' = Tail(m_buffer) /\ parsing' /\ line' = line
      /\ inbox' = inbox /\ messages' = messages /\ LastSent' = LastSent
  BY DEF SkipGarbage, LastSent
<1>9. (m_buffer \o line)' = Rest(s, 1) /\ (inbox \o messages)' = q
  BY <1>6, <1>7, <1>8 DEF q
<1>10. Accounted'
  BY <1>4, <1>8, <1>9, Zenon DEF Accounted
<1> QED
  BY <1>1, <1>6, <1>8, <1>10 DEF SentInv

\* A message appended to the second of two queues.
LEMMA AppendToSecond ==
  ASSUME NEW T, NEW s \in Seq(T), NEW t \in Seq(T), NEW m \in T
  PROVE  s \o Append(t, m) = Append(s \o t, m)
<1>1. <<m>> \in Seq(T) /\ s \o t \in Seq(T)
  BY ConcatProperties
<1>2. Append(t, m) = t \o <<m>> /\ Append(s \o t, m) = (s \o t) \o <<m>>
  BY <1>1, AppendIsConcat
<1>3. (s \o t) \o <<m>> = s \o (t \o <<m>>)
  BY <1>1, ConcatAssociative
<1> QED
  BY <1>2, <1>3

\* parse() takes a packet off.
LEMMA TakeKeeps ==
  ASSUME SentInv, TakePacket, UNCHANGED <<pending, noisy>>
  PROVE  SentInv'
<1>1. /\ m_buffer \in Seq(Byte) /\ line \in Seq(Byte)
      /\ inbox \in Seq(Messages) /\ messages \in Seq(Messages)
  BY DEF SentInv
<1> PICK A, I, P, Q : Account(inbox \o messages, m_buffer \o line, pending, LastSent, A, I, P, Q)
  BY DEF SentInv, Accounted
<1> DEFINE n == packetSize(m_buffer)
           x == I[1]
           q == inbox \o messages
           s == m_buffer \o line
<1>2. I # <<>> /\ x \in FrameItems /\ n = Len(x.bytes)
  BY <1>1, HeaderIsFrame DEF TakePacket, Complete
<1>3. s \in Seq(Byte) /\ q \in Seq(Messages) /\ Account(q, s, pending, LastSent, A, I, P, Q)
  BY <1>1, ConcatProperties
<1>4. n <= Len(m_buffer)
  BY <1>1 DEF TakePacket, Complete
<1>5. /\ messages' = Append(messages, Parsed(SubSeq(m_buffer, 1, n)))
      /\ m_buffer' = Rest(m_buffer, n)
      /\ line' = line /\ parsing' /\ inbox' = inbox /\ LastSent' = LastSent
  BY DEF TakePacket, Rest, LastSent
<1> HIDE DEF n, q, s
<1>6. /\ Len(x.bytes) \in Nat
      /\ \A i \in 1..Len(x.bytes) : s[i] = x.bytes[i]
  <2>1. FirstOf(s, LastSent, I, Q)
    BY <1>2, <1>3, FirstItem
  <2> QED
    BY <2>1, Zenon DEF FirstOf
<1>7. n \in Nat /\ n >= 3 /\ x.bytes \in Seq(Byte) /\ Parsed(x.bytes) = x.msg
  <2>1. x.bytes \in Seq(Byte) /\ Len(x.bytes) >= 3 /\ Parsed(x.bytes) = x.msg
    BY <1>2, FrameFacts, Zenon
  <2> QED
    BY <1>2, <2>1
<1>8. SubSeq(m_buffer, 1, n) = x.bytes
  <2> DEFINE l == 1
             v == SubSeq(m_buffer, l, n)
             b == x.bytes
  <2>1. l = 1 /\ l \in Int /\ n \in Int /\ \A i \in l..n : m_buffer[i] \in Byte
    BY <1>1, <1>4, <1>7
  <2> HIDE DEF l
  <2>2. /\ v \in Seq(Byte)
        /\ Len(v) = IF l <= n THEN n - l + 1 ELSE 0
        /\ \A i \in 1..n - l + 1 : v[i] = m_buffer[l + i - 1]
    BY <2>1, SubSeqProperties
  <2>3. v = SubSeq(m_buffer, 1, n)
    BY <2>1
  <2>4. \A i \in 1..Len(m_buffer) : s[i] = m_buffer[i]
    BY <1>1, BufferBegins DEF s
  <2>5. b \in Seq(Byte) /\ Len(b) = n /\ \A i \in 1..n : s[i] = b[i]
    BY <1>2, <1>6, <1>7
  <2> HIDE DEF v, b
  <2>6. Len(v) = n
    BY <1>7, <2>1, <2>2
  <2>7. \A i \in 1..n : v[i] = b[i]
    <3> TAKE i \in 1..n
    <3>1. i \in 1..n - l + 1 /\ l + i - 1 = i /\ i \in 1..Len(m_buffer)
      BY <1>1, <1>4, <1>7, <2>1
    <3> QED
      BY <2>2, <2>4, <2>5, <3>1
  <2>8. v = b
    BY <2>2, <2>5, <2>6, <2>7, SeqEqual
  <2> QED
    BY <2>3, <2>8 DEF b
<1>9. x.msg \in Messages
  BY <1>2 DEF Messages
<1>10. messages' = Append(messages, x.msg) /\ messages' \in Seq(Messages)
  <2> DEFINE m == x.msg
  <2>1. messages' = Append(messages, m) /\ m \in Messages
    BY <1>5, <1>7, <1>8, <1>9
  <2> HIDE DEF m
  <2>2. Append(messages, m) \in Seq(Messages)
    BY <1>1, <2>1
  <2> QED
    BY <2>1, <2>2 DEF m
<1>11. (inbox \o messages)' = Append(q, x.msg)
  BY <1>1, <1>5, <1>9, <1>10, AppendToSecond DEF q
<1>12. Rest(s, n) = Rest(m_buffer, n) \o line /\ Rest(m_buffer, n) \in Seq(Byte)
  BY <1>1, <1>4, <1>7, RestOfConcat, RestProperties DEF s
<1>13. (m_buffer \o line)' = Rest(s, n)
  BY <1>5, <1>12
<1>14. Account(Append(q, x.msg), Rest(s, n), pending, LastSent, Append(A, x), Tail(I),
               P \o x.touch, Rest(Q, Len(x.touch)))
  <2>1. Account(Append(q, I[1].msg), Rest(s, Len(I[1].bytes)), pending, LastSent,
                Append(A, I[1]), Tail(I), P \o I[1].touch, Rest(Q, Len(I[1].touch)))
    BY <1>2, <1>3, TakeFrame
  <2> QED
    BY <1>2, <2>1, Zenon
<1>15. Accounted'
  BY <1>5, <1>11, <1>13, <1>14, Zenon DEF Accounted
<1> QED
  BY <1>1, <1>5, <1>10, <1>12, <1>15 DEF SentInv

\* parse() returns.
LEMMA EndKeeps ==
  ASSUME SentInv, EndParse, UNCHANGED <<pending, noisy>>
  PROVE  SentInv'
<1>1. inbox \in Seq(Messages) /\ messages \in Seq(Messages)
  BY DEF SentInv
<1>2. inbox \o messages \in Seq(Messages) /\ (inbox \o messages) \o <<>> = inbox \o messages
  <2> DEFINE q == inbox \o messages
  <2>1. q \in Seq(Messages)
    BY <1>1, ConcatProperties
  <2> HIDE DEF q
  <2>2. q \o <<>> = q
    BY <2>1, ConcatEmptySeq
  <2> QED
    BY <2>1, <2>2 DEF q
<1>3. /\ inbox' = inbox \o messages /\ messages' = <<>> /\ ~Garbage' /\ ~Complete'
      /\ line' = line /\ m_buffer' = m_buffer /\ LastSent' = LastSent /\ pending' = pending
  BY DEF EndParse, Garbage, Complete, packetSize, LastSent
<1>4. (inbox \o messages)' = inbox \o messages /\ (m_buffer \o line)' = m_buffer \o line
  BY <1>2, <1>3
<1>5. Accounted'
  BY <1>3, <1>4, Zenon DEF SentInv, Accounted
<1> QED
  BY <1>2, <1>3, <1>5 DEF SentInv

\* The core thread handles a message: it is the touch made first of those not
\* handled, or an acknowledgement.
LEMMA MessageKeeps ==
  ASSUME SentInv, HandleMessage
  PROVE  /\ SentInv'
         /\ Head(inbox).type # "write_ack_ok" =>
              /\ pending # <<>>
              /\ Head(inbox) = [type |-> "vp_data", payload |-> Payload(Head(pending))]
<1>1. inbox \in Seq(Messages) /\ messages \in Seq(Messages) /\ inbox # <<>>
  BY DEF SentInv, HandleMessage
<1> PICK A, I, P, Q : Account(inbox \o messages, m_buffer \o line, pending, LastSent, A, I, P, Q)
  BY DEF SentInv, Accounted
<1> DEFINE q == inbox \o messages
           s == m_buffer \o line
           x == A[1]
           k == Len(x.touch)
<1>2. q \in Seq(Messages) /\ Account(q, s, pending, LastSent, A, I, P, Q)
  BY <1>1, ConcatProperties
<1>3. /\ q # <<>> /\ Head(q) = Head(inbox) /\ Tail(q) = Tail(inbox) \o messages
      /\ Tail(inbox) \in Seq(Messages)
  <2> DEFINE n == 1
  <2>1. n = 1 /\ n \in Nat /\ n <= Len(inbox)
    BY <1>1
  <2>2. /\ Len(q) = Len(inbox) + Len(messages) /\ Len(inbox) \in Nat /\ Len(messages) \in Nat
        /\ \A i \in 1..Len(inbox) + Len(messages) :
             q[i] = IF i <= Len(inbox) THEN inbox[i] ELSE messages[i - Len(inbox)]
    BY <1>1, ConcatProperties
  <2>3. q # <<>> /\ q[1] = inbox[1]
    <3> HIDE DEF q
    <3> QED
      BY <2>1, <2>2
  <2> HIDE DEF n
  <2>4. Rest(q, n) = Rest(inbox, n) \o messages
    BY <1>1, <2>1, RestOfConcat
  <2>5. Tail(inbox) = Rest(inbox, n) /\ Tail(inbox) \in Seq(Messages)
    BY <1>1, <2>1, TailIsSubSeq DEF Rest
  <2> HIDE DEF q
  <2>6. Tail(q) = Rest(q, n)
    BY <1>2, <2>1, <2>3, TailIsSubSeq DEF Rest
  <2>7. Head(q) = q[1] /\ Head(inbox) = inbox[1]
    BY <1>1, <1>2, <2>3
  <2> QED
    BY <2>3, <2>4, <2>5, <2>6, <2>7
<1> HIDE DEF q, s
<1>4. /\ x \in FrameItems /\ Head(q) = x.msg
      /\ k \in Nat /\ k <= Len(pending) /\ \A i \in 1..k : pending[i] = x.touch[i]
      /\ Account(Tail(q), s, Rest(pending, k), LastSent, Tail(A), I, Rest(P, k), Q)
  BY <1>2, <1>3, HandleFirst
<1>5. \/ /\ k = 1
         /\ x.msg = [type |-> "vp_data", payload |-> Payload(x.touch[1])]
      \/ x.touch = <<>> /\ x.msg.type = "write_ack_ok"
  BY <1>4, FrameFacts, Zenon
<1>6. pending \in Seq(Touches)
  BY <1>2, ConcatProperties DEF Account
<1> DEFINE Oldest == Head(inbox).type # "write_ack_ok" =>
                       /\ pending # <<>>
                       /\ Head(inbox) = [type |-> "vp_data", payload |-> Payload(Head(pending))]
<1>7. pending' = Rest(pending, k) /\ Oldest
  <2>1. CASE k = 1 /\ x.msg = [type |-> "vp_data", payload |-> Payload(x.touch[1])]
    <3>1. Len(pending) >= 1 /\ pending[1] = x.touch[1]
      <4>1. 1 \in 1..k
        BY <2>1
      <4> QED
        BY <1>4, <2>1, <4>1
    <3>2. pending # <<>> /\ Head(pending) = x.touch[1]
      BY <1>6, <3>1
    <3>3. Head(inbox).type = "vp_data"
      BY <1>3, <1>4, <2>1
    <3>4. pending' = Tail(pending)
      BY <3>2, <3>3 DEF HandleMessage
    <3>5. Rest(pending, k) = Tail(pending)
      BY <1>6, <2>1, <3>2, TailIsSubSeq DEF Rest
    <3>6. Head(inbox) = [type |-> "vp_data", payload |-> Payload(Head(pending))]
      BY <1>3, <1>4, <2>1, <3>2
    <3> QED
      BY <3>2, <3>4, <3>5, <3>6
  <2>2. CASE x.touch = <<>> /\ x.msg.type = "write_ack_ok"
    <3>1. Head(inbox).type = "write_ack_ok"
      BY <1>3, <1>4, <2>2
    <3>2. pending' = pending
      BY <3>1 DEF HandleMessage
    <3>3. k = 0
      BY <2>2
    <3>4. Rest(pending, 0) = pending
      BY <1>6, SubSeqFull DEF Rest
    <3>5. pending' = Rest(pending, k)
      BY <3>2, <3>3, <3>4
    <3> QED
      BY <3>1, <3>5
  <2> QED
    BY <1>5, <2>1, <2>2
<1> HIDE DEF Oldest
<1>8. /\ inbox' = Tail(inbox) /\ line' = line /\ m_buffer' = m_buffer /\ parsing' = parsing
      /\ messages' = messages /\ LastSent' = LastSent
  BY DEF HandleMessage, LastSent
<1>9. (inbox \o messages)' = Tail(q) /\ (m_buffer \o line)' = s
  BY <1>3, <1>8 DEF s
<1>10. Accounted'
  BY <1>4, <1>7, <1>8, <1>9, Zenon DEF Accounted
<1>11. ~parsing' => messages' = <<>> /\ ~Garbage' /\ ~Complete'
  BY <1>8 DEF SentInv, Garbage, Complete, packetSize
<1>12. SentInv'
  BY <1>3, <1>8, <1>10, <1>11 DEF SentInv
<1> QED
  BY <1>7, <1>12 DEF Oldest

\* The touches' invariant is kept by every step.
LEMMA TouchNext == SentInv /\ [Next]_vars => SentInv'
<1> SUFFICES ASSUME SentInv, [Next]_vars PROVE SentInv'
  OBVIOUS
<1>1. CASE UNCHANGED <<parserVars, pending, noisy>>
  <2>1. /\ line' = line /\ m_buffer' = m_buffer /\ parsing' = parsing /\ messages' = messages
        /\ inbox' = inbox /\ pending' = pending /\ LastSent' = LastSent
    BY <1>1 DEF parserVars, LastSent
  <2>2. Accounted'
    BY <2>1, Zenon DEF SentInv, Accounted
  <2> QED
    BY <2>1, <2>2 DEF SentInv, Garbage, Complete, packetSize
<1>2. CASE \E t \in Touches : Touch(t)
  BY <1>2, TouchKeeps
<1>3. CASE \E p \in Screens : TurnPage(p)
  BY <1>1, <1>3 DEF TurnPage
<1>4. CASE Acknowledge
  BY <1>4, AcknowledgeKeeps
<1>5. CASE \E c \in Strays : Stray(c)
  BY <1>5, StrayKeeps
<1>6. CASE ParseStep
  <2>1. Parse /\ UNCHANGED <<pending, noisy>>
    BY <1>6 DEF ParseStep
  <2> QED
    BY <2>1, ReceiveKeeps, SkipKeeps, TakeKeeps, EndKeeps DEF Parse
<1>7. CASE HandleMessage
  BY <1>7, MessageKeeps
<1>8. CASE OtherLayer
  BY <1>1, <1>8 DEF OtherLayer
<1>9. CASE UNCHANGED vars
  BY <1>1, <1>9 DEF vars
<1> QED
  BY <1>2, <1>3, <1>4, <1>5, <1>6, <1>7, <1>8, <1>9 DEF Next

\* The touches' invariant holds in every behaviour.
LEMMA TouchInvariant == Spec => []SentInv
  BY TouchInit, TouchNext, PTL DEF Spec

\* No touch is lost: when all bytes that were sent are read, parse() has returned
\* and the core thread has nothing queued, every touch that was made has been handled.
\* For all screens, stray bytes and ways the port cuts what arrives.
THEOREM TouchesKept == Spec => []NoTouchLost
<1>1. SentInv => NoTouchLost
  <2> SUFFICES ASSUME SentInv, line = <<>>, ~parsing, inbox = <<>> PROVE pending = <<>>
    BY DEF NoTouchLost
  <2> PICK A, I, P, Q : Account(inbox \o messages, m_buffer \o line, pending, LastSent, A, I, P, Q)
    BY DEF SentInv, Accounted
  <2>1. messages = <<>> /\ ~Garbage /\ ~Complete /\ m_buffer \in Seq(Byte)
    BY DEF SentInv
  <2>2. Q = <<>>
    BY <2>1, NothingKept
  <2>3. Len(inbox \o messages) = 0
    BY <2>1
  <2>4. /\ A \in Seq(FrameItems) /\ Len(A) = 0 /\ P \in Seq(Touches)
        /\ Blocks(P, TouchesOf(A)) /\ pending = P \o Q
    BY <2>3 DEF Account
  <2>5. TouchesOf(A) = <<>>
    BY <2>4 DEF TouchesOf
  <2>6. P = <<>>
    BY <2>4, <2>5, NoBlocks
  <2> QED
    BY <2>2, <2>4, <2>6
<1> QED
  BY <1>1, TouchInvariant, PTL

\* The core thread handles the touches in the order in which they were made, each
\* with the address and key it was made with, for all screens, stray bytes and cuts.
THEOREM TouchesOrdered == Spec => TouchesInOrder
<1>1. SentInv /\ [Next]_vars =>
        [HandleMessage /\ Head(inbox).type # "write_ack_ok" =>
           /\ pending # <<>>
           /\ Head(inbox) = [type |-> "vp_data", payload |-> Payload(Head(pending))]]_vars
  BY MessageKeeps
<1> QED
  BY <1>1, TouchInvariant, PTL DEF Spec, TouchesInOrder

-----------------------------------------------------------------------------
(***************************************************************************)
(* SerialTransport, for every set of threads and frames and every burst    *)
(* limit.  The safety properties are not inductive as they stand: that an  *)
(* operation is outstanding has to imply that the queue has a head and     *)
(* that m_write_in_progress is set, and the error paths that leave the     *)
(* flag set are harmless only because the transport was stopped.           *)
(***************************************************************************)
\* An outstanding operation owns the head of the queue and the flag.
OperationOwnsQueue ==
  writes + timers > 0 => write_serial_queue # <<>> /\ m_write_in_progress

\* Operations are cancelled only after stop().
StopOrder ==
  /\ close_posted => ~running
  /\ cancelled => ~running

\* Before the first send() the writer is idle (start() runs in that state).
IdleBeforeSend ==
  sends = 0 => /\ \A t \in Threads : sending[t] = None
               /\ write_serial_queue = <<>>
               /\ ~m_write_in_progress
               /\ writes = 0 /\ timers = 0 /\ ~cancelled

SerialInv ==
  /\ PortTypeOK
  /\ OneOperation
  /\ NotStuck
  /\ BurstBounded
  /\ OperationOwnsQueue
  /\ StopOrder
  /\ IdleBeforeSend

\* The initial state satisfies the inductive invariant.
LEMMA SerialInit == PortInit => SerialInv
<1> SUFFICES ASSUME PortInit PROVE SerialInv
  OBVIOUS
<1>1. PortTypeOK
  <2>1. /\ running \in BOOLEAN /\ port_open \in BOOLEAN /\ close_posted \in BOOLEAN
        /\ m_write_in_progress \in BOOLEAN /\ cancelled \in BOOLEAN /\ reading \in BOOLEAN
    BY Zenon DEF PortInit
  <2>2. QED
    BY <2>1 DEF PortInit, PortTypeOK
<1>2. OneOperation /\ BurstBounded
  BY DEF PortInit, OneOperation, BurstBounded
<1>3. NotStuck /\ StopOrder
  BY DEF PortInit, NotStuck, StopOrder
<1>4. OperationOwnsQueue
  BY DEF PortInit, OperationOwnsQueue
<1>5. IdleBeforeSend
  BY DEF PortInit, IdleBeforeSend
<1>6. QED
  BY <1>1, <1>2, <1>3, <1>4, <1>5 DEF SerialInv

\* doWrite() called by the only owner of the writer, on a queue q of frames:
\* it leaves the writer idle on an empty queue, or with one operation.
LEMMA DoWriteStep ==
  ASSUME PortTypeOK, NEW q \in Seq(Packets), timers = 0,
         doWrite(q, 0)
  PROVE  /\ m_write_in_progress' \in BOOLEAN
         /\ m_burst_bytes' \in Nat /\ writes' \in Nat /\ timers' \in Nat
         /\ writes' + timers' <= 1
         /\ m_write_in_progress' <=> writes' + timers' > 0
         /\ m_write_in_progress' => q # <<>>
         /\ writes' > 0 => \/ m_burst_bytes' <= MAX_BURST_BYTES
                           \/ m_burst_bytes' = Size[Head(q)]
<1>1. q # <<>> => Head(q) \in Packets /\ Size[Head(q)] \in Nat
  BY TransportAssumption
<1>2. m_burst_bytes \in Nat /\ MAX_BURST_BYTES \in Nat
  BY TransportAssumption DEF PortTypeOK
<1>3. CASE q = <<>> /\ m_write_in_progress' = FALSE /\ m_burst_bytes' = 0
           /\ writes' = 0 /\ UNCHANGED timers
  <2>1. m_write_in_progress' \in BOOLEAN
    BY <1>3, Zenon
  <2>2. QED
    BY <1>2, <1>3, <2>1
<1>4. CASE q # <<>> /\ m_write_in_progress' = TRUE /\ timers' = timers + 1
           /\ writes' = 0 /\ UNCHANGED m_burst_bytes
  BY <1>2, <1>4
<1>5. CASE q # <<>> /\ ~MustPause(q, m_burst_bytes) /\ m_write_in_progress' = TRUE
           /\ doWriteImpl(q, m_burst_bytes, 0) /\ UNCHANGED timers
  BY <1>1, <1>2, <1>5 DEF doWriteImpl, MustPause
<1>6. QED
  BY <1>3, <1>4, <1>5 DEF doWrite

\* Every step preserves the inductive invariant.
LEMMA SerialNext ==
  ASSUME SerialInv, [PortNext]_portVars
  PROVE  SerialInv'
<1> USE TransportAssumption
<1>1. ASSUME NEW t \in Threads, NEW p \in Packets, SendCheck(t, p) PROVE SerialInv'
  BY <1>1
  DEF SendCheck, writer, life, SerialInv, PortTypeOK,
      OneOperation, NotStuck, BurstBounded, OperationOwnsQueue,
      StopOrder, IdleBeforeSend
<1>2. ASSUME NEW t \in Threads, SendPush(t) PROVE SerialInv'
  <2> DEFINE q == Append(write_serial_queue, sending[t])
  <2>1. /\ sending[t] \in Packets /\ sends # 0
        /\ write_serial_queue' = q /\ q \in Seq(Packets) /\ q # <<>>
        /\ write_serial_queue # <<>> => Head(q) = Head(write_serial_queue)
        /\ sending' \in [Threads -> Packets \cup {None}]
        /\ UNCHANGED <<running, port_open, close_posted, cancelled, reading, wire, sends>>
    BY <1>2 DEF SendPush, life, SerialInv, PortTypeOK, IdleBeforeSend
  <2> HIDE DEF q
  <2>2. CASE m_write_in_progress /\ UNCHANGED <<m_write_in_progress, m_burst_bytes, writes, timers>>
    BY <2>1, <2>2
    DEF SerialInv, PortTypeOK, OneOperation, NotStuck,
        BurstBounded, OperationOwnsQueue, StopOrder, IdleBeforeSend
  <2>3. CASE ~m_write_in_progress /\ doWrite(q, writes)
    <3>1. writes = 0 /\ timers = 0
      BY <2>3 DEF SerialInv, PortTypeOK, OperationOwnsQueue
    <3>2. doWrite(q, 0)
      BY <2>3, <3>1
    <3>3. QED
      BY <2>1, <3>1, <3>2, DoWriteStep
      DEF SerialInv, PortTypeOK, OneOperation, NotStuck,
          BurstBounded, OperationOwnsQueue, StopOrder, IdleBeforeSend
  <2>4. QED
    BY <1>2, <2>2, <2>3 DEF SendPush, q
<1>3. CASE HandleWriteOk
  <2> DEFINE q == Tail(write_serial_queue)
  <2>1. writes = 1 /\ timers = 0 /\ write_serial_queue # <<>> /\ sends # 0
    BY <1>3
    DEF HandleWriteOk, SerialInv, PortTypeOK, OneOperation,
        OperationOwnsQueue, IdleBeforeSend
  <2>2. /\ write_serial_queue' = q /\ q \in Seq(Packets)
        /\ wire' \in Seq(Packets)
        /\ doWrite(q, 0) /\ ~cancelled'
        /\ UNCHANGED <<running, port_open, close_posted, reading, sending, sends>>
    BY <1>3, <2>1 DEF HandleWriteOk, SerialInv, PortTypeOK
  <2> HIDE DEF q
  <2>3. cancelled' \in BOOLEAN
    BY <1>3 DEF HandleWriteOk
  <2>4. QED
    BY <2>1, <2>2, <2>3, DoWriteStep
    DEF SerialInv, PortTypeOK, OneOperation, NotStuck,
        BurstBounded, OperationOwnsQueue, StopOrder, IdleBeforeSend
<1>4. ASSUME NEW aborted \in BOOLEAN, HandleWriteError(aborted) PROVE SerialInv'
  <2>1. writes = 1 /\ timers = 0 /\ sends # 0
    BY <1>4
    DEF HandleWriteError, SerialInv, PortTypeOK, OneOperation,
        IdleBeforeSend
  <2>2. write_serial_queue' \in Seq(Packets)
    BY <1>4 DEF HandleWriteError, SerialInv, PortTypeOK
  <2>3. /\ cancelled' \in BOOLEAN /\ ~cancelled'
        /\ m_write_in_progress' \in BOOLEAN /\ ~m_write_in_progress'
    BY <1>4, Zenon DEF HandleWriteError
  <2>4. QED
    BY <1>4, <2>1, <2>2, <2>3
    DEF HandleWriteError, SerialInv, PortTypeOK, OneOperation,
        NotStuck, BurstBounded, OperationOwnsQueue, StopOrder,
        IdleBeforeSend
<1>5. CASE ThrottleExpired
  <2>1. writes = 0 /\ timers = 1 /\ write_serial_queue # <<>> /\ sends # 0
        /\ m_write_in_progress
    BY <1>5
    DEF ThrottleExpired, SerialInv, PortTypeOK, OneOperation,
        OperationOwnsQueue, IdleBeforeSend
  <2>2. Size[Head(write_serial_queue)] \in Nat
    BY <2>1 DEF SerialInv, PortTypeOK
  <2>3. cancelled' \in BOOLEAN /\ ~cancelled'
    BY <1>5, Zenon DEF ThrottleExpired
  <2>4. QED
    BY <1>5, <2>1, <2>2, <2>3
    DEF ThrottleExpired, doWriteImpl, SerialInv, PortTypeOK,
        OneOperation, NotStuck, BurstBounded, OperationOwnsQueue,
        StopOrder, IdleBeforeSend
<1>6. CASE ClosePort
  <2>1. /\ port_open' \in BOOLEAN /\ close_posted' \in BOOLEAN
        /\ reading' \in BOOLEAN /\ cancelled' \in BOOLEAN
    BY <1>6, Zenon DEF ClosePort
  <2>2. ~running /\ UNCHANGED <<writer, running, sending, wire, sends>>
    BY <1>6 DEF ClosePort, SerialInv, StopOrder
  <2>3. sends = 0 => ~cancelled'
    BY <1>6 DEF ClosePort, SerialInv, PortTypeOK, IdleBeforeSend
  <2>4. QED
    BY <2>1, <2>2, <2>3
    DEF writer, SerialInv, PortTypeOK, OneOperation, NotStuck,
        BurstBounded, OperationOwnsQueue, StopOrder, IdleBeforeSend
<1>7. ASSUME NEW opened \in BOOLEAN, Start(opened) PROVE SerialInv'
  <2>1. running' \in BOOLEAN
    BY <1>7, Zenon DEF Start
  <2>2. ~cancelled
    BY <1>7 DEF Start, SerialInv, IdleBeforeSend
  <2>3. QED
    BY <1>7, <2>1, <2>2
    DEF Start, writer, SerialInv, PortTypeOK, OneOperation,
        NotStuck, BurstBounded, OperationOwnsQueue, StopOrder,
        IdleBeforeSend
<1>8. CASE Stop
  BY <1>8
  DEF Stop, writer, SerialInv, PortTypeOK, OneOperation,
      NotStuck, BurstBounded, OperationOwnsQueue, StopOrder, IdleBeforeSend
<1>9. ASSUME NEW ok \in BOOLEAN, HandleRead(ok) PROVE SerialInv'
  BY <1>9
  DEF HandleRead, writer, SerialInv, PortTypeOK, OneOperation,
      NotStuck, BurstBounded, OperationOwnsQueue, StopOrder, IdleBeforeSend
<1>10. CASE UNCHANGED portVars
  BY <1>10
  DEF portVars, writer, life, SerialInv, PortTypeOK,
      OneOperation, NotStuck, BurstBounded, OperationOwnsQueue,
      StopOrder, IdleBeforeSend
<1>11. QED
  BY <1>1, <1>2, <1>3, <1>4, <1>5, <1>6, <1>7, <1>8, <1>9, <1>10
  DEF PortNext, IoThread

\* The inductive invariant holds in every reachable state.
THEOREM SerialInvHolds == PortSpec => []SerialInv
<1>1. SerialInv /\ [PortNext]_portVars => SerialInv' BY SerialNext
<1> QED BY <1>1, SerialInit, PTL DEF PortSpec

\* The variables of the transport keep their types.
THEOREM SerialTypes == PortSpec => []PortTypeOK
<1>1. SerialInv => PortTypeOK
  BY DEF SerialInv
<1>2. QED
  BY <1>1, SerialInvHolds, PTL

\* At most one asynchronous operation of the writer is ever outstanding.
THEOREM OneOperationHolds == PortSpec => []OneOperation
<1>1. SerialInv => OneOperation
  BY DEF SerialInv
<1>2. QED
  BY <1>1, SerialInvHolds, PTL

\* m_write_in_progress tells the truth as long as the transport runs.
THEOREM NotStuckHolds == PortSpec => []NotStuck
<1>1. SerialInv => NotStuck
  BY DEF SerialInv
<1>2. QED
  BY <1>1, SerialInvHolds, PTL

\* A burst exceeds MAX_BURST_BYTES only when it is a single frame.
THEOREM BurstBoundedHolds == PortSpec => []BurstBounded
<1>1. SerialInv => BurstBounded
  BY DEF SerialInv
<1>2. QED
  BY <1>1, SerialInvHolds, PTL

\* Every step of the transport is a step of the abstract pipe or a stutter.
LEMMA StepImplementsPipe ==
  SerialInv /\ [PortNext]_portVars => [Pipe!Next]_Pipe!pipeVars
<1> SUFFICES ASSUME SerialInv, [PortNext]_portVars
             PROVE  [Pipe!Next]_Pipe!pipeVars
  OBVIOUS
<1> USE DEF Pipe!pipeVars
<1>1. ASSUME NEW t \in Threads, NEW p \in Packets, SendCheck(t, p)
      PROVE  UNCHANGED Pipe!pipeVars
  BY <1>1 DEF SendCheck, writer
<1>2. ASSUME NEW t \in Threads, SendPush(t)
      PROVE  \E p \in Packets : Pipe!Put(p)
  <2>1. sending[t] \in Packets
    BY <1>2 DEF SendPush, SerialInv, PortTypeOK
  <2>2. Pipe!Put(sending[t])
    BY <1>2 DEF SendPush, Pipe!Put
  <2>3. QED
    BY <2>1, <2>2
<1>3. ASSUME HandleWriteOk PROVE Pipe!Deliver
  <2>1. write_serial_queue # <<>>
    BY <1>3 DEF HandleWriteOk, SerialInv, PortTypeOK, OperationOwnsQueue
  <2>2. QED
    BY <1>3, <2>1 DEF HandleWriteOk, Pipe!Deliver
<1>4. ASSUME NEW aborted \in BOOLEAN, HandleWriteError(aborted)
      PROVE  Pipe!Flush \/ UNCHANGED Pipe!pipeVars
  BY <1>4 DEF HandleWriteError, Pipe!Flush
<1>5. ASSUME ThrottleExpired PROVE UNCHANGED Pipe!pipeVars
  BY <1>5 DEF ThrottleExpired
<1>6. ASSUME ClosePort PROVE UNCHANGED Pipe!pipeVars
  BY <1>6 DEF ClosePort, writer
<1>7. ASSUME NEW opened \in BOOLEAN, Start(opened) PROVE UNCHANGED Pipe!pipeVars
  BY <1>7 DEF Start, writer
<1>8. ASSUME Stop PROVE UNCHANGED Pipe!pipeVars
  BY <1>8 DEF Stop, writer
<1>9. ASSUME NEW ok \in BOOLEAN, HandleRead(ok) PROVE UNCHANGED Pipe!pipeVars
  BY <1>9 DEF HandleRead, writer
<1>10. ASSUME UNCHANGED portVars PROVE UNCHANGED Pipe!pipeVars
  BY <1>10 DEF portVars, writer
<1>11. QED
  BY <1>1, <1>2, <1>3, <1>4, <1>5, <1>6, <1>7, <1>8, <1>9, <1>10
  DEF PortNext, IoThread, Pipe!Next

\* The transport implements the abstract FIFO pipe: frames reach the port in
\* the order of send(), none twice, and are lost only all at once.
THEOREM TransportImplementsPipe == PortSpec => ImplementsPipe
<1>1. PortInit => Pipe!Init
  BY DEF PortInit, Pipe!Init
<1>2. QED
  BY <1>1, StepImplementsPipe, SerialInvHolds, PTL
  DEF PortSpec, ImplementsPipe, Pipe!Spec

-----------------------------------------------------------------------------
(***************************************************************************)
(* MessageLayer: no wake-up is lost to a message, for any number of        *)
(* touches.  The invariant that carries it is the mutex's: while a         *)
(* consumer has seen its queue empty and has not blocked yet, nobody can   *)
(* fill the queue.                                                         *)
(***************************************************************************)
USE DEF Positions

\* Between the test of the predicate and the blocking the queue stays empty.
TestedIsEmpty == \A t \in Consumers : pc[t] = "tested" => queue[t] = <<>>

\* The inductive invariant.
LayerInv == LayerTypeOK /\ TestedIsEmpty /\ NoLostWakeup

-----------------------------------------------------------------------------
\* A message appended to a queue leaves the queues well typed.
LEMMA PushType ==
    ASSUME LayerTypeOK, NEW t \in Consumers, NEW m \in CoreMessages, Push(t, m)
    PROVE  /\ queue' \in [Consumers -> Seq(CoreMessages)]
           /\ \A c \in Consumers : c # t => queue'[c] = queue[c]
           /\ pc[t] # "tested"
  BY DEF LayerTypeOK, Push, MutexFree

\* What send() does to the queues.
LEMMA SendType ==
    ASSUME LayerTypeOK, NEW m \in CoreMessages, send(m)
    PROVE  /\ queue' \in [Consumers -> Seq(CoreMessages)]
           /\ queue'["core"] = queue["core"]
           /\ queue' = queue \/ pc["http"] # "tested"
<1>1. CASE m_running["http"]
  BY <1>1, PushType DEF send, Consumers
<1>2. CASE ~m_running["http"]
  BY <1>2 DEF send, LayerTypeOK
<1> QED BY <1>1, <1>2

\* A notification unblocks its consumer and moves no other.
LEMMA NotifiedPc ==
    ASSUME NEW pcs \in [Consumers -> Positions],
           NEW t \in Consumers
    PROVE  /\ Notified(pcs, t) \in [Consumers -> Positions]
           /\ Notified(pcs, t)[t] # "blocked"
           /\ \A c \in Consumers : c # t => Notified(pcs, t)[c] = pcs[c]
           /\ \A c \in Consumers : Notified(pcs, t)[c] = "tested" => pcs[c] = "tested"
  BY DEF Notified

-----------------------------------------------------------------------------
\* The loop of a consumer blocks only after the test, with an empty queue.
LEMMA ConsumeInv == ASSUME LayerInv, NEW t \in Consumers, Consume(t) PROVE LayerInv'
<1> USE DEF LayerInv
<1>0. UNCHANGED <<m_running, m_waitingResponse, io, ark, main, touches>>
  BY DEF Consume
<1>1. ASSUME Loop(t) \/ Test(t) \/ Block(t) PROVE LayerInv'
  <2>1. UNCHANGED <<queue, current>>
    BY <1>1 DEF Loop, Test, Block
  <2>2. PICK p \in {"lock", "done", "tested", "blocked"} :
           /\ pc' = [pc EXCEPT ![t] = p]
           /\ p \in {"tested", "blocked"} => queue[t] = <<>>
           /\ pc[t] \notin {"send", "notify"}
    BY <1>1 DEF Loop, Test, Block, TestedIsEmpty
  <2>3. LayerTypeOK'
    BY <1>0, <2>1, <2>2 DEF LayerTypeOK
  <2>4. TestedIsEmpty'
    BY <2>1, <2>2 DEF TestedIsEmpty, LayerTypeOK
  <2>5. NoLostWakeup'
    BY <1>0, <2>1, <2>2 DEF NoLostWakeup, LayerTypeOK, Consumers
  <2> QED BY <2>3, <2>4, <2>5
<1>2. ASSUME Take(t) PROVE LayerInv'
  <2>1. CASE queue[t] = <<>>
    <3>1. UNCHANGED <<queue, current>> /\ pc' = [pc EXCEPT ![t] = "done"] /\ pc[t] = "lock"
      BY <1>2, <2>1 DEF Take
    <3>2. LayerTypeOK'
      BY <1>0, <3>1 DEF LayerTypeOK
    <3> QED BY <1>0, <3>1, <3>2
      DEF TestedIsEmpty, NoLostWakeup, LayerTypeOK, Consumers
  <2>2. CASE queue[t] # <<>>
    <3>1. /\ current' = [current EXCEPT ![t] = Head(queue[t])]
          /\ queue' = [queue EXCEPT ![t] = Tail(queue[t])]
          /\ pc' = [pc EXCEPT ![t] = "work"] /\ pc[t] = "lock"
      BY <1>2, <2>2 DEF Take
    <3>2. /\ queue[t] \in Seq(CoreMessages) /\ Head(queue[t]) \in CoreMessages
          /\ Tail(queue[t]) \in Seq(CoreMessages)
      BY <2>2 DEF LayerTypeOK
    <3>3. LayerTypeOK'
      BY <1>0, <3>1, <3>2 DEF LayerTypeOK
    <3> QED BY <1>0, <3>1, <3>3
      DEF TestedIsEmpty, NoLostWakeup, LayerTypeOK, Consumers
  <2> QED BY <2>1, <2>2
<1> QED BY <1>1, <1>2 DEF Consume

\* A handler fills the worker's queue only with the mutex, and notifies next.
LEMMA HandlerInv ==
    ASSUME LayerInv, Dispatch \/ HandlerSends \/ HandlerNotifies PROVE LayerInv'
<1> USE DEF LayerInv
<1>1. CASE Dispatch
  <2>1. PICK p \in {"send", "loop"} : pc' = [pc EXCEPT !["core"] = p]
    BY <1>1 DEF Dispatch
  <2>2. m_waitingResponse' \in BOOLEAN
    BY <1>1, Zenon DEF Dispatch
  <2>3. UNCHANGED <<m_running, queue, current, io, ark, main, touches>> /\ pc["core"] = "work"
    BY <1>1 DEF Dispatch
  <2>4. LayerTypeOK'
    BY <2>1, <2>2, <2>3 DEF LayerTypeOK
  <2> QED BY <2>1, <2>3, <2>4
    DEF TestedIsEmpty, NoLostWakeup, LayerTypeOK, Consumers
<1>2. CASE HandlerSends
  <2>1. /\ queue' \in [Consumers -> Seq(CoreMessages)]
        /\ queue'["core"] = queue["core"]
        /\ queue' = queue \/ pc["http"] # "tested"
    BY <1>2, SendType DEF HandlerSends, CoreMessages
  <2>2. /\ pc' = [pc EXCEPT !["core"] = "notify"] /\ pc["core"] = "send"
        /\ UNCHANGED <<m_running, current, m_waitingResponse, io, ark, main, touches>>
    BY <1>2 DEF HandlerSends
  <2>3. LayerTypeOK'
    BY <2>1, <2>2 DEF LayerTypeOK
  <2> QED BY <2>1, <2>2, <2>3
    DEF TestedIsEmpty, NoLostWakeup, LayerTypeOK, Consumers
<1>3. CASE HandlerNotifies
  <2> DEFINE pcs == [pc EXCEPT !["core"] = "loop"]
  <2>1. pcs \in [Consumers -> Positions]
    BY DEF LayerTypeOK
  <2>2. /\ pc' = Notified(pcs, "http")
        /\ UNCHANGED <<m_running, queue, current, m_waitingResponse, io, ark, main, touches>>
    BY <1>3 DEF HandlerNotifies
  <2>3. /\ pc' \in [Consumers -> Positions]
        /\ pc'["http"] # "blocked" /\ pc'["core"] = pcs["core"]
        /\ pc'["http"] = "tested" => pcs["http"] = "tested"
    BY <2>1, <2>2, NotifiedPc DEF Consumers
  <2>4. pcs["core"] = "loop" /\ pcs["http"] = pc["http"]
    BY DEF LayerTypeOK, Consumers
  <2> HIDE DEF pcs
  <2>5. LayerTypeOK'
    BY <2>2, <2>3 DEF LayerTypeOK
  <2> QED BY <2>2, <2>3, <2>4, <2>5 DEF TestedIsEmpty, NoLostWakeup, Consumers
<1> QED BY <1>1, <1>2, <1>3

\* A message for the core thread: push and notification are one step.
LEMMA ReceiveInv ==
    ASSUME LayerInv, NEW m \in CoreMessages, ReceiveHandler(m),
           NEW pcs \in [Consumers -> Positions],
           pcs["core"] = pc["core"], pcs["http"] \in {pc["http"], "loop"},
           pc' = ReceiveWake(pcs), io' = io, ark' = ark
    PROVE  /\ queue' \in [Consumers -> Seq(CoreMessages)]
           /\ pc' \in [Consumers -> Positions]
           /\ TestedIsEmpty'
           /\ NoLostWakeup'
<1> USE DEF LayerInv
<1>1. /\ queue' \in [Consumers -> Seq(CoreMessages)] /\ queue'["http"] = queue["http"]
      /\ pc["core"] # "tested"
  BY PushType DEF ReceiveHandler, Consumers
<1>2. /\ pc' \in [Consumers -> Positions]
      /\ pc'["core"] # "blocked" /\ pc'["http"] = pcs["http"]
      /\ pc'["core"] = "tested" => pcs["core"] = "tested"
      /\ pc["core"] = "notify" => pc'["core"] = "notify"
  BY NotifiedPc DEF ReceiveWake, Notified, Consumers
<1> QED BY <1>1, <1>2 DEF TestedIsEmpty, NoLostWakeup, Consumers

\* The response of a request.
LEMMA PerformInv == ASSUME LayerInv, performRequest PROVE LayerInv'
<1> USE DEF LayerInv
<1> DEFINE pcs == [pc EXCEPT !["http"] = "loop"]
<1>1. /\ pcs \in [Consumers -> Positions]
      /\ pcs["core"] = pc["core"] /\ pcs["http"] \in {pc["http"], "loop"}
  BY DEF LayerTypeOK, Consumers
<1>2. /\ current["http"] \in CoreMessages /\ ReceiveHandler(current["http"])
      /\ pc' = ReceiveWake(pcs)
      /\ UNCHANGED <<m_running, current, m_waitingResponse, io, ark, main, touches>>
  BY DEF performRequest, LayerTypeOK, Consumers
<1> HIDE DEF pcs
<1>3. /\ queue' \in [Consumers -> Seq(CoreMessages)]
      /\ pc' \in [Consumers -> Positions]
      /\ TestedIsEmpty' /\ NoLostWakeup'
  BY <1>1, <1>2, ReceiveInv
<1>4. LayerTypeOK'
  BY <1>2, <1>3 DEF LayerTypeOK
<1> QED BY <1>3, <1>4

\* A touch of the display.
LEMMA TouchInv ==
    ASSUME LayerInv, TouchArrives PROVE LayerInv'
<1> USE DEF LayerInv
<1>1. /\ "touch" \in CoreMessages /\ ReceiveHandler("touch") /\ pc' = ReceiveWake(pc)
      /\ UNCHANGED <<m_running, current, m_waitingResponse, io, ark, main>>
  BY DEF TouchArrives, CoreMessages
<1>2. touches' \in 0..MaxTouches
  BY LayerAssumption DEF TouchArrives, LayerTypeOK
<1>3. /\ queue' \in [Consumers -> Seq(CoreMessages)]
      /\ pc' \in [Consumers -> Positions]
      /\ TestedIsEmpty' /\ NoLostWakeup'
  BY <1>1, ReceiveInv DEF LayerTypeOK
<1>4. LayerTypeOK'
  BY <1>1, <1>2, <1>3 DEF LayerTypeOK
<1> QED BY <1>3, <1>4

\* The tick fills the worker's queue and notifies next.
LEMMA IoInv == ASSUME LayerInv, TickThread PROVE LayerInv'
<1> USE DEF LayerInv
<1>1. CASE onTimerExpired \/ IoEnds
  <2>1. /\ UNCHANGED <<m_running, queue, pc, current, m_waitingResponse, ark, main, touches>>
        /\ io = "idle" /\ io' \in {"send", "done"}
    BY <1>1 DEF onTimerExpired, IoEnds
  <2>2. LayerTypeOK'
    BY <2>1 DEF LayerTypeOK
  <2> QED BY <2>1, <2>2 DEF TestedIsEmpty, NoLostWakeup
<1>2. CASE startPolling
  <2>1. /\ queue' \in [Consumers -> Seq(CoreMessages)]
        /\ queue'["core"] = queue["core"]
        /\ queue' = queue \/ pc["http"] # "tested"
    BY <1>2, SendType DEF startPolling, CoreMessages
  <2>2. /\ io' = "notify" /\ io = "send"
        /\ UNCHANGED <<m_running, pc, current, m_waitingResponse, ark, main, touches>>
    BY <1>2 DEF startPolling
  <2>3. LayerTypeOK'
    BY <2>1, <2>2 DEF LayerTypeOK
  <2> QED BY <2>1, <2>2, <2>3
    DEF TestedIsEmpty, NoLostWakeup, LayerTypeOK, Consumers
<1>3. CASE TickNotifies
  <2>1. /\ pc' = Notified(pc, "http") /\ io' = "store"
        /\ UNCHANGED <<m_running, queue, current, m_waitingResponse, ark, main, touches>>
    BY <1>3 DEF TickNotifies
  <2>2. /\ pc' \in [Consumers -> Positions]
        /\ pc'["http"] # "blocked" /\ pc'["core"] = pc["core"]
        /\ pc'["http"] = "tested" => pc["http"] = "tested"
    BY <2>1, NotifiedPc DEF Consumers, LayerTypeOK
  <2>3. LayerTypeOK'
    BY <2>1, <2>2 DEF LayerTypeOK
  <2> QED BY <2>1, <2>2, <2>3 DEF TestedIsEmpty, NoLostWakeup, Consumers
<1>4. CASE TickStores
  <2>1. m_waitingResponse' \in BOOLEAN
    BY <1>4, Zenon DEF TickStores
  <2>2. /\ UNCHANGED <<m_running, queue, pc, current, ark, main, touches>>
        /\ io = "store" /\ io' = "idle"
    BY <1>4 DEF TickStores
  <2>3. LayerTypeOK'
    BY <2>1, <2>2 DEF LayerTypeOK
  <2> QED BY <2>2, <2>3 DEF TestedIsEmpty, NoLostWakeup
<1> QED BY <1>1, <1>2, <1>3, <1>4 DEF TickThread

\* The start of the loop by the terminal's thread.
LEMMA ArkInv == ASSUME LayerInv, startLoop \/ LoopNotifies PROVE LayerInv'
<1> USE DEF LayerInv
<1>1. CASE startLoop
  <2>1. /\ queue' \in [Consumers -> Seq(CoreMessages)]
        /\ queue'["core"] = queue["core"]
        /\ queue' = queue \/ pc["http"] # "tested"
    BY <1>1, SendType DEF startLoop, CoreMessages
  <2>2. m_waitingResponse' \in BOOLEAN
    BY <1>1, Zenon DEF startLoop
  <2>3. /\ ark' = "notify" /\ ark = "off"
        /\ UNCHANGED <<m_running, pc, current, io, main, touches>>
    BY <1>1 DEF startLoop
  <2>4. LayerTypeOK'
    BY <2>1, <2>2, <2>3 DEF LayerTypeOK
  <2> QED BY <2>1, <2>3, <2>4
    DEF TestedIsEmpty, NoLostWakeup, LayerTypeOK, Consumers
<1>2. CASE LoopNotifies
  <2>1. /\ pc' = Notified(pc, "http") /\ ark' = "on"
        /\ UNCHANGED <<m_running, queue, current, m_waitingResponse, io, main, touches>>
    BY <1>2 DEF LoopNotifies
  <2>2. /\ pc' \in [Consumers -> Positions]
        /\ pc'["http"] # "blocked" /\ pc'["core"] = pc["core"]
        /\ pc'["http"] = "tested" => pc["http"] = "tested"
    BY <2>1, NotifiedPc DEF Consumers, LayerTypeOK
  <2>3. LayerTypeOK'
    BY <2>1, <2>2 DEF LayerTypeOK
  <2> QED BY <2>1, <2>2, <2>3 DEF TestedIsEmpty, NoLostWakeup, Consumers
<1> QED BY <1>1, <1>2

\* The steps of the main thread.
LEMMA MainInv == ASSUME LayerInv, Quit \/ stop PROVE LayerInv'
<1> USE DEF LayerInv
<1> DEFINE Places == {"menu", "notifyCore", "clearHttp", "notifyHttp", "joinHttp",
                      "joinCore", "joinIo", "stopped"}
<1>1. ASSUME NEW t \in Consumers, NEW p, NEW q \in Places, Clear(t, p, q) PROVE LayerInv'
  <2>1. m_running' \in [Consumers -> BOOLEAN]
    BY <1>1 DEF Clear, LayerTypeOK
  <2>2. /\ UNCHANGED <<queue, pc, current, m_waitingResponse, io, ark, touches>>
        /\ main' = q
    BY <1>1 DEF Clear
  <2>3. LayerTypeOK'
    BY <2>1, <2>2 DEF LayerTypeOK
  <2> QED BY <2>2, <2>3 DEF TestedIsEmpty, NoLostWakeup
<1>2. ASSUME NEW t \in Consumers, NEW p, NEW q \in Places, NotifyAll(t, p, q) PROVE LayerInv'
  <2>1. /\ pc' = Notified(pc, t) /\ main' = q
        /\ UNCHANGED <<m_running, queue, current, m_waitingResponse, io, ark, touches>>
    BY <1>2 DEF NotifyAll
  <2>2. /\ pc' \in [Consumers -> Positions]
        /\ \A c \in Consumers : pc'[c] = pc[c] \/ (pc[c] = "blocked" /\ pc'[c] = "lock")
    BY <2>1 DEF Notified, LayerTypeOK
  <2>3. LayerTypeOK'
    BY <2>1, <2>2 DEF LayerTypeOK
  <2> QED BY <2>1, <2>2, <2>3 DEF TestedIsEmpty, NoLostWakeup, Consumers
<1>3. ASSUME NEW e, NEW p, NEW q \in Places, Join(e, p, q) PROVE LayerInv'
  <2>1. /\ UNCHANGED <<m_running, queue, pc, current, m_waitingResponse, io, ark, touches>>
        /\ main' = q
    BY <1>3 DEF Join
  <2>2. LayerTypeOK'
    BY <2>1 DEF LayerTypeOK
  <2> QED BY <2>1, <2>2 DEF TestedIsEmpty, NoLostWakeup
<1> QED BY <1>1, <1>2, <1>3 DEF Quit, stop, Consumers

-----------------------------------------------------------------------------
\* Every step of every thread keeps IInv.
THEOREM LayerInvHolds == LayerSpec => []LayerInv
<1>1. LayerInit => LayerInv
  <2> SUFFICES ASSUME LayerInit PROVE LayerInv OBVIOUS
  <2>1. m_running \in [Consumers -> BOOLEAN] /\ m_waitingResponse \in BOOLEAN
    BY Zenon DEF LayerInit
  <2>2. LayerTypeOK
    BY <2>1, LayerAssumption DEF LayerInit, LayerTypeOK, CoreMessages
  <2> QED BY <2>2 DEF LayerInit, LayerInv, TestedIsEmpty, NoLostWakeup
<1>2. LayerInv /\ [LayerNext]_layerVars => LayerInv'
  <2> SUFFICES ASSUME LayerInv, [LayerNext]_layerVars PROVE LayerInv' OBVIOUS
  <2>1. CASE CoreThread BY <2>1, ConsumeInv, HandlerInv
    DEF CoreThread, Consumers
  <2>2. CASE HttpThread BY <2>2, ConsumeInv, PerformInv
    DEF HttpThread, Consumers
  <2>3. CASE TickThread BY <2>3, IoInv
  <2>4. CASE TouchArrives BY <2>4, TouchInv
  <2>5. CASE startLoop \/ LoopNotifies BY <2>5, ArkInv
  <2>6. CASE Quit \/ stop BY <2>6, MainInv
  <2>7. CASE UNCHANGED layerVars
    BY <2>7 DEF layerVars, LayerInv, LayerTypeOK, TestedIsEmpty, NoLostWakeup
  <2> QED BY <2>1, <2>2, <2>3, <2>4, <2>5, <2>6, <2>7 DEF LayerNext
<1> QED BY <1>1, <1>2, PTL DEF LayerSpec

\* The queues hold messages and the threads are where their code is.
THEOREM LayerTypes == LayerSpec => []LayerTypeOK
<1>1. LayerInv => LayerTypeOK BY DEF LayerInv
<1> QED BY <1>1, LayerInvHolds, PTL

\* send() and the receive handler of registerChannel() wake the consumer of
\* what they queue: no thread sleeps in front of a message for good.
THEOREM WakeupsArrive == LayerSpec => []NoLostWakeup
<1>1. LayerInv => NoLostWakeup BY DEF LayerInv
<1> QED BY <1>1, LayerInvHolds, PTL
=============================================================================
