----------------------------- MODULE StationSetup -----------------------------
(***************************************************************************)
(* The service menu of src/logic/PrimeLogic and what it leaves behind:     *)
(* which dispensers are used and in which order, how many the start page   *)
(* shows, and the prices.  They are kept in memory and in config.json,     *)
(* which is read only when the process starts, and customers go on using   *)
(* the station while they are edited.  A save may fail, or leave a file    *)
(* that cannot be loaded: the process goes on with what it has in memory   *)
(* and, when it is started again, with what it finds.                      *)
(*                                                                         *)
(* A text typed on a pin pad is its digits and the number of decimals      *)
(* after the comma; DwinLogic keeps it to a number without leading zeros.  *)
(* Reading outside a vector is undefined: the process ends, or goes on     *)
(* with the id of some dispenser.                                          *)
(***************************************************************************)
EXTENDS Integers, Sequences, FiniteSets

CONSTANTS
  DeviceSeq,       \* ids of the dispensers, as the controller lists them
  ProductSeq,      \* ids of the products
  ProductOf,       \* the product of each dispenser
  None,            \* an empty id
  Broken,          \* a config.json that Settings::load() cannot read
  Volumes,         \* volumes typed by customers
  Prices,          \* prices typed by the operator
  StartPrices,     \* prices config.json may hold from the beginning
  FieldWidth,      \* text_len_fuel_integer
  Word,            \* 2^16, the range of uint16_t
  MaxTouches,      \* bound: touches of the display in a behaviour
  MaxFaults,       \* bound: saves that fail
  MaxRestarts      \* bound: restarts of the process

Dispensers == {DeviceSeq[i] : i \in DOMAIN DeviceSeq}
Products == {ProductSeq[i] : i \in DOMAIN ProductSeq}
Texts == [value : Nat, exponent : Nat]
Unset == [value |-> 0, exponent |-> 0]    \* the price "0"
NoPrices == [p \in Products |-> Unset]
GasStation == [amount : Nat, used : Seq(Dispensers), prices : [Products -> Texts]]

ASSUME SetupConstants ==
  /\ DeviceSeq \in Seq(Dispensers) \ {<<>>} /\ ProductSeq \in Seq(Products) \ {<<>>}
  /\ ProductOf \in [Dispensers -> Products]
  /\ None \notin Dispensers \cup Products
  /\ Broken \notin GasStation
  /\ Volumes \cup Prices \cup StartPrices \subseteq Texts
  /\ {FieldWidth, Word} \subseteq Nat \ {0}
  /\ {MaxTouches, MaxFaults, MaxRestarts} \subseteq Nat

VARIABLES
  alive,       \* the process runs
  config,      \* config.json: amount_trk, used_trks, fuel_price
  settings,    \* m_settings.gas_station, as it was read at the start
  devices,     \* m_dispensers is filled
  products,    \* m_products is filled
  price,       \* m_products: price
  amount,      \* m_amount_trk
  selected,    \* m_selected_dispensers
  index,       \* m_current_dispenser_index
  current,     \* m_current_dispenser_id
  editing,     \* m_current_fuel_id_editing
  fuel,        \* m_current_fuel_type_index
  ordering,    \* the display shows a page on which a volume can be typed
  timer,       \* m_page_timers holds one that returns to a start page
  edited,      \* history: selected was changed and not accepted since
  accepted,    \* history: the list accepted and saved last, <<>> once the file was lost
  entered,     \* history: the prices entered and saved last, none once the file was lost
  unsavedList, \* history: since the start a save of the list failed, or the file was lost
  unsaved,     \* history: the products of which a price was not saved since the start
  stray,       \* history: the last step read outside m_selected_dispensers
  order,       \* history: the order created last
  touches, faults, restarts

fuelVars   == <<price, editing, fuel>>
selectVars == <<amount, selected, index, edited>>
fileVars   == <<config, accepted, entered, unsavedList, unsaved, faults>>
diskVars   == <<fileVars, settings, restarts>>
vars == <<alive, diskVars, devices, products, fuelVars, selectVars, current, ordering, timer,
          stray, order, touches>>

TypeOK ==
  /\ alive \in BOOLEAN /\ devices \in BOOLEAN /\ products \in BOOLEAN
  /\ config \in GasStation \cup {Broken} /\ settings \in GasStation
  /\ price \in [Products -> Texts]
  /\ amount \in Nat
  /\ selected \in Seq(Dispensers)
  /\ index \in 0..Len(DeviceSeq) - 1 /\ fuel \in 0..Len(ProductSeq) - 1
  /\ current \in Dispensers \cup {None}
  /\ editing \in Products \cup {None}
  /\ {ordering, timer, edited, stray, unsavedList} \subseteq BOOLEAN
  /\ accepted \in Seq(Dispensers)
  /\ entered \in [Products -> Texts] /\ unsaved \subseteq Products
  /\ order \in [typed : Texts, sent : Texts, price : Texts] \cup {None}
  /\ touches \in 0..MaxTouches /\ faults \in 0..MaxFaults /\ restarts \in 0..MaxRestarts

-----------------------------------------------------------------------------
(* Starting.                                                               *)

\* Settings::load(): what the file says, or, when it cannot be read, no list and
\* no prices; amount_trk then is not initialised.
load ==
  IF config # Broken THEN {config}
  ELSE [amount : 0..Len(DeviceSeq), used : {<<>>}, prices : {NoPrices}]

\* The process starts with what config.json says; startLoop() copies it and
\* asks once for devices and products.
Init ==
  /\ config \in [amount : {Len(DeviceSeq)}, used : {<<>>, DeviceSeq},
                 prices : [Products -> StartPrices]]
  /\ settings = config
  /\ amount = config.amount /\ selected = config.used
  /\ devices = FALSE /\ products = FALSE
  /\ price = NoPrices
  /\ index = 0 /\ current = None
  /\ editing = None /\ fuel = 0
  /\ ordering = FALSE /\ timer = FALSE /\ edited = FALSE /\ stray = FALSE
  /\ alive = TRUE
  /\ accepted = config.used /\ entered = config.prices
  /\ unsavedList = FALSE /\ unsaved = {}
  /\ order = None
  /\ touches = 0 /\ faults = 0 /\ restarts = 0

\* The power fails, or the process has ended, and it is started again.
Restart ==
  /\ restarts < MaxRestarts
  /\ restarts' = restarts + 1
  /\ settings' \in load
  /\ amount' = settings'.amount /\ selected' = settings'.used
  /\ devices' = FALSE /\ products' = FALSE
  /\ price' = NoPrices
  /\ index' = 0 /\ current' = None
  /\ editing' = None /\ fuel' = 0
  /\ ordering' = FALSE /\ timer' = FALSE /\ edited' = FALSE /\ stray' = FALSE
  /\ alive' = TRUE
  /\ unsavedList' = FALSE /\ unsaved' = {}
  /\ order' = None
  /\ UNCHANGED <<config, accepted, entered, touches, faults>>

-----------------------------------------------------------------------------
(* saveTRKAmountToConfig(), saveFuelPriceToConfig(), saveUsedTRKsToConfig(). *)

\* The file is read, changed and written.
Saved(c) == config # Broken /\ config' = c /\ UNCHANGED faults

Fault == faults < MaxFaults /\ faults' = faults + 1

\* What is there cannot be parsed, or the file cannot be opened for writing:
\* the error is printed and the caller goes on.
NotSaved ==
  /\ UNCHANGED config
  /\ \/ config = Broken /\ UNCHANGED faults
     \/ config # Broken /\ Fault

\* The file is emptied when it is opened for writing, and the text does not get
\* there; or it could not be opened for reading and only gas.station is written,
\* and load() gives up when it misses the other parts.
FileLost ==
  /\ config # Broken /\ Fault
  /\ config' = Broken
  /\ accepted' = <<>> /\ entered' = NoPrices
  /\ unsavedList' = TRUE /\ unsaved' = Products

\* The power fails in one of them, after the file was emptied.
CutWhileSaving ==
  /\ alive /\ touches < MaxTouches
  /\ FileLost
  /\ alive' = FALSE
  /\ UNCHANGED <<settings, restarts, devices, products, fuelVars, selectVars, current,
                 ordering, timer, stray, order, touches>>

-----------------------------------------------------------------------------
(* m_selected_dispensers and what reads it.                                *)

InRange(i) == i < Len(selected)

\* The core goes on, or a read outside the vector ends the process.
Reads(ok) ==
  /\ stray' = ~ok
  /\ alive' \in (IF ok THEN {TRUE} ELSE BOOLEAN)

\* renderDispenser(): the duo page shows as many as there are, the mono page
\* the first, the multi page that of the index.  Before the devices have come
\* the dispenser is a null pointer.
RenderOk == selected = <<>> \/ amount \in {1, 2} \/ InRange(index)
renderDispenser ==
  \/ (devices \/ selected = <<>>) /\ Reads(RenderOk)
  \/ ~devices /\ selected # <<>> /\ stray' = ~RenderOk /\ alive' = FALSE

\* processDevices(): without used_trks every dispenser is used.
processDevices ==
  /\ alive /\ ~devices
  /\ devices' = TRUE
  /\ selected' = IF selected = <<>> THEN DeviceSeq ELSE selected
  /\ stray' = FALSE
  /\ UNCHANGED <<alive, diskVars, products, fuelVars, amount, index, edited, current, ordering,
                 timer, order, touches>>

\* processProducts(): the price that the process was started with.
processProducts ==
  /\ alive /\ ~products
  /\ products' = TRUE
  /\ price' = settings.prices
  /\ stray' = FALSE
  /\ UNCHANGED <<alive, diskVars, devices, editing, fuel, selectVars, current, ordering, timer,
                 order, touches>>

\* handleRandomDispenserStatus(): is the dispenser of the event the one shown?
StatusEvent(d) ==
  /\ alive
  /\ \/ devices /\ Reads(InRange(index))
     \/ ~devices /\ alive' = FALSE /\ stray' = FALSE    \* getDispenserById() is null
  /\ UNCHANGED <<diskVars, devices, products, fuelVars, selectVars, current, ordering, timer,
                 order, touches>>

\* checkTimers(): a page timer expires and sends the start page it was given when
\* it was started, to which the display turns later.  The end of a payment starts
\* such timers too.
ForgetDispenser ==
  /\ alive
  /\ timer \/ order # None
  /\ timer' = FALSE
  /\ current' = None
  /\ renderDispenser
  /\ UNCHANGED <<diskVars, devices, products, fuelVars, selectVars, ordering, order, touches>>

TurnPage ==
  /\ ordering /\ current = None
  /\ ordering' = FALSE
  /\ stray' = FALSE
  /\ UNCHANGED <<alive, diskVars, devices, products, fuelVars, selectVars, current, timer, order,
                 touches>>

Touch ==
  /\ alive
  /\ touches < MaxTouches
  /\ touches' = touches + 1
  /\ UNCHANGED <<settings, restarts, devices, products>>

\* Touches that neither read the vector nor end the process.
Plain == stray' = FALSE /\ alive' = TRUE

\* checkAllFuelPrice().
checkAllFuelPrice == products /\ \A p \in Products : price[p] # Unset

Digits(n) == 1 + Cardinality({k \in 1..6 : 10^k <= n})
IntegerWidth(t) == Digits(t.value \div 10^t.exponent)
Fits(t) == IntegerWidth(t) <= FieldWidth

\* handleChooseTRK().  Without prices the page of the prices is filled, from
\* m_products[0] even if there is none.  The dispenser is idle, has its nozzle
\* up, is filling or is done.
handleChooseTRK(i) ==
  /\ Touch
  /\ \/ /\ ~checkAllFuelPrice
        /\ alive' = products /\ stray' = FALSE
        /\ UNCHANGED <<current, ordering, timer>>
     \/ /\ checkAllFuelPrice
        /\ stray' = ~InRange(i)
        /\ current' \in (IF InRange(i) THEN {selected[i + 1]} ELSE Dispensers)
        /\ \/ devices /\ Fits(price[ProductOf[current']]) /\ alive' = TRUE
           \/ (~devices \/ ~InRange(i) \/ ~Fits(price[ProductOf[current']])) /\ alive' = FALSE
        /\ \/ ordering' = TRUE /\ timer' = FALSE
           \/ ordering' = FALSE /\ timer' \in {timer, TRUE}
  /\ UNCHANGED <<fileVars, fuelVars, selectVars, order>>

\* USER_TOUCH_CHOOSE_TRK_BUTTON carries the position of the button, the left or
\* the right one, and the page with these buttons may be that of an earlier amount;
\* USER_TOUCH_CHOOSE_MULTI_TRK_BUTTON stands for the index.
ChooseTRK == \E i \in {0, 1, index} : handleChooseTRK(i)

\* USER_TOUCH_BASIC_TOUCH_ATTACH_CARD_BACK_BUTTON: no timer is stopped.
AttachCardBack ==
  /\ Touch
  /\ current' = None
  /\ renderDispenser
  /\ UNCHANGED <<fileVars, fuelVars, selectVars, ordering, timer, order>>

getPaginationIndex(i, size, direction) ==
  IF i + direction >= size THEN 0
  ELSE IF i + direction < 0 THEN size - 1 ELSE i + direction

handlePaginationDispenser(direction) ==
  /\ Touch
  /\ amount >= 3 /\ selected # <<>>
  /\ index' = getPaginationIndex(index, Len(selected), direction)
  /\ alive' = devices /\ stray' = FALSE    \* renderDispenser()
  /\ UNCHANGED <<fileVars, fuelVars, amount, selected, edited, current, ordering, timer, order>>

\* USER_TOUCH_AMOUNT_TRK_BUTTON: handleAmountTRK().
handleAmountTRK(n) ==
  /\ Touch /\ Plain
  /\ \/ FileLost
     \/ /\ Saved([config EXCEPT !.amount = n]) \/ NotSaved
        /\ UNCHANGED <<accepted, entered, unsavedList, unsaved>>
  /\ amount' = n
  /\ index' = 0
  /\ current' = None
  /\ UNCHANGED <<fuelVars, selected, edited, ordering, timer, order>>

\* erase() of the place where find() saw d, which is in s once.
Without(s, d) ==
  LET i == CHOOSE i \in DOMAIN s : s[i] = d
  IN  [k \in 1..Len(s) - 1 |-> s[IF k < i THEN k ELSE k + 1]]

\* handleTrkSelectionToggle().
handleTrkSelectionToggle(d) ==
  /\ devices
  /\ Touch /\ Plain
  /\ selected' = IF \E i \in DOMAIN selected : selected[i] = d
                 THEN Without(selected, d) ELSE Append(selected, d)
  /\ edited' = TRUE
  /\ UNCHANGED <<fileVars, fuelVars, amount, index, current, ordering, timer, order>>

\* USER_TOUCH_RESET_SELECTED_TRK_BUTTON.
ResetSelected ==
  /\ Touch /\ Plain
  /\ selected' = <<>>
  /\ edited' = TRUE
  /\ UNCHANGED <<fileVars, fuelVars, amount, index, current, ordering, timer, order>>

\* Mutant: an empty list is taken like any other.
MayAccept_Empty == TRUE

MayAccept == selected # <<>>

\* Mutant: the multi page stays where it is.
AcceptedIndex_Kept == index

AcceptedIndex == 0

\* handleAcceptSelectedTRK(): used_trks is saved, amount_trk is not.
handleAcceptSelectedTRK ==
  /\ Touch /\ Plain
  /\ \/ /\ MayAccept
        /\ \/ FileLost
           \/ /\ Saved([config EXCEPT !.used = selected])
              /\ accepted' = selected /\ unsavedList' = FALSE
              /\ UNCHANGED <<entered, unsaved>>
           \/ NotSaved /\ unsavedList' = TRUE /\ UNCHANGED <<accepted, entered, unsaved>>
        /\ edited' = FALSE
        /\ amount' = Len(selected)
        /\ index' = AcceptedIndex
        /\ current' = None
     \/ ~MayAccept /\ UNCHANGED <<fileVars, edited, amount, index, current>>
  /\ UNCHANGED <<fuelVars, selected, ordering, timer, order>>

-----------------------------------------------------------------------------
(* Prices and orders.                                                      *)

\* changeFuelType().
changeFuelType(direction) ==
  /\ Touch
  /\ products
  /\ fuel' = getPaginationIndex(fuel, Len(ProductSeq), direction)
  /\ alive' = Fits(price[ProductSeq[fuel' + 1]]) /\ stray' = FALSE
  /\ UNCHANGED <<fileVars, price, editing, selectVars, current, ordering, timer, order>>

\* handleEditFuelButton(): m_products[...] is taken without a test.
handleEditFuelButton ==
  /\ Touch
  /\ stray' = FALSE
  /\ \/ /\ products
        /\ editing' = ProductSeq[fuel + 1]
        /\ alive' = Fits(price[editing'])
     \/ ~products /\ alive' = FALSE /\ UNCHANGED editing
  /\ UNCHANGED <<fileVars, price, fuel, selectVars, current, ordering, timer, order>>

\* digit_count < text_len_fuel_integer.
PriceTaken(t) == (IF t.value = 0 THEN 1 ELSE Digits(t.value) - t.exponent) < FieldWidth

\* Mutant: the price of the fuel that is shown changes.
PricedProduct_Shown == ProductSeq[fuel + 1]

PricedProduct == editing

\* handleEnterFuelPricePinPad(): saveFuelPriceToConfig(), then m_products.
handleEnterFuelPricePinPad(t) ==
  /\ Touch
  /\ stray' = FALSE
  /\ \/ /\ PriceTaken(t) /\ editing # None
        /\ \/ FileLost
           \/ /\ Saved([config EXCEPT !.prices[editing] = t])
              /\ entered' = [entered EXCEPT ![editing] = t] /\ unsaved' = unsaved \ {editing}
              /\ UNCHANGED <<accepted, unsavedList>>
           \/ /\ NotSaved
              /\ unsaved' = unsaved \cup {editing}
              /\ UNCHANGED <<accepted, entered, unsavedList>>
        /\ price' = [price EXCEPT ![PricedProduct] = t]
        /\ alive' = Fits(t)
     \/ ~(PriceTaken(t) /\ editing # None) /\ UNCHANGED <<fileVars, price, alive>>
  /\ UNCHANGED <<editing, fuel, selectVars, current, ordering, timer, order>>

\* handleEnterFuelVolumeOrderPinPad(), handleCreateOrder(): the volume becomes
\* a uint16_t, and the dispenser "" is a null pointer.
handleCreateOrder(v) ==
  /\ ordering
  /\ Touch
  /\ stray' = FALSE
  /\ \/ /\ current # None
        /\ order' = [typed |-> v, sent |-> [v EXCEPT !.value = @ % Word],
                     price |-> price[ProductOf[current]]]
        /\ alive' = TRUE
     \/ current = None /\ alive' = FALSE /\ UNCHANGED order
  /\ UNCHANGED <<fileVars, fuelVars, selectVars, current, ordering, timer>>

-----------------------------------------------------------------------------
Operator ==
  \/ \E n \in 1..Len(DeviceSeq) : handleAmountTRK(n)
  \/ \E d \in Dispensers : handleTrkSelectionToggle(d)
  \/ ResetSelected \/ handleAcceptSelectedTRK
  \/ \E direction \in {-1, 1} : changeFuelType(direction)
  \/ handleEditFuelButton
  \/ \E t \in Prices : handleEnterFuelPricePinPad(t)

Customer ==
  \/ ChooseTRK \/ AttachCardBack
  \/ \E direction \in {-1, 1} : handlePaginationDispenser(direction)
  \/ \E v \in Volumes : handleCreateOrder(v)

Next ==
  \/ Restart \/ CutWhileSaving
  \/ processDevices \/ processProducts
  \/ \E d \in Dispensers : StatusEvent(d)
  \/ ForgetDispenser \/ TurnPage
  \/ Operator \/ Customer

Spec == Init /\ [][Next]_vars

-----------------------------------------------------------------------------
(* Properties.                                                             *)

\* Customers pay the price that was entered and saved last for their product, or
\* cannot order ("0") once the file was lost, through any number of restarts; only
\* a product of which a save has failed since the start is sold at another price.
PricesAgree == products => \A p \in Products \ unsaved : price[p] = entered[p]

\* The station uses the dispensers that were accepted and saved last, whatever was
\* tapped, reset or left unaccepted before a restart, and all of them once the file
\* was lost; only until the next restart a list of which the save failed.
RestartRestores ==
  alive /\ devices /\ ~edited /\ ~unsavedList
    => selected = IF accepted = <<>> THEN DeviceSeq ELSE accepted

\* As long as an accepted list names two dispensers or more, no touch, timer or
\* event reads outside it, whichever start page the display still shows.
AcceptedListRead == ~edited /\ Len(selected) >= 2 => ~stray

\* Refuted: no read outside m_selected_dispensers (a list being edited is read, and
\* the right button of a page for two reads outside a list of one).
NoStrayRead == ~stray

\* Refuted: customers pay the price saved last (a save that fails is only printed,
\* and the memory changes).
PricesSaved == products => price = entered

\* Refuted: a price that fits its field is taken (three digits are not).
PriceAccepted ==
  [][\A t \in Prices : handleEnterFuelPricePinPad(t) /\ editing # None /\ Fits(t)
       => price'[editing] = t]_vars

\* Refuted: the order is created with the volume that was typed (uint16_t).
VolumeKept == order # None => order.sent = order.typed

\* Refuted: no order without a price ("0,00" is not "0").
OrderIsPriced == order # None => order.price.value > 0

\* Refuted: no touch, event or timer ends the process.
SetupKeepsRunning == alive
=============================================================================
