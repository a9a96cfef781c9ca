-------------------------- MODULE StationSetupProofs --------------------------
(***************************************************************************)
(* Proofs about StationSetup, for any dispensers, products, prices and     *)
(* numbers of touches, failed saves and restarts: the memory of the        *)
(* process and config.json stay in step as far as the saves went through,  *)
(* although the file is read only at the start and the answers of the      *)
(* controller that fill the memory come later; and an accepted list of     *)
(* dispensers is not read outside its bounds.                              *)
(***************************************************************************)
EXTENDS StationSetup, TLAPS

\* What the argument needs of the types.
DataOK ==
  /\ devices \in BOOLEAN /\ products \in BOOLEAN /\ edited \in BOOLEAN
  /\ config \in GasStation \cup {Broken} /\ settings \in GasStation
  /\ price \in [Products -> Texts] /\ entered \in [Products -> Texts]
  /\ selected \in Seq(Dispensers) /\ accepted \in Seq(Dispensers)
  /\ editing \in Products \cup {None} /\ fuel \in 0..Len(ProductSeq) - 1

\* The file holds what was entered, accepted and saved last, or is lost.
FileAsSaved ==
  IF config = Broken THEN accepted = <<>> /\ entered = NoPrices
  ELSE accepted = config.used /\ entered = config.prices

\* A price is edited only after the products have come, so that until then what
\* was read at the start is what the file holds, or the file has been lost since.
NoPriceBeforeProducts == editing # None => products
PricesAsAtStart == ~products => \A p \in Products \ unsaved : settings.prices[p] = entered[p]

\* The memory holds the list accepted last, unless it has been edited, was not saved
\* or the devices have come to stand for an empty list.
ListAsAtStart == ~devices /\ ~edited /\ ~unsavedList => selected = accepted
ListRestored ==
  devices /\ ~edited /\ ~unsavedList
    => selected = IF accepted = <<>> THEN DeviceSeq ELSE accepted

PriceInv == NoPriceBeforeProducts /\ PricesAsAtStart /\ PricesAgree
ListInv == ListAsAtStart /\ ListRestored

\* The inductive invariant.
IInv == DataOK /\ FileAsSaved /\ PriceInv /\ ListInv

-----------------------------------------------------------------------------
\* The constants' assumptions, in the form in which they are used.
LEMMA Lists ==
  /\ DeviceSeq \in Seq(Dispensers) /\ ProductSeq \in Seq(Products)
  /\ Len(DeviceSeq) \in Nat /\ Len(ProductSeq) \in Nat \ {0}
  /\ \A i \in 0..Len(ProductSeq) - 1 : ProductSeq[i + 1] \in Products
  /\ Unset \in Texts /\ Prices \subseteq Texts /\ StartPrices \subseteq Texts
  /\ Broken \notin GasStation /\ None \notin Products
  BY SetupConstants DEF Unset, Texts

\* A record of settings in which one field was changed is one again.
LEMMA SavedRecord ==
  ASSUME NEW c \in GasStation
  PROVE  /\ \A n \in Nat : /\ [c EXCEPT !.amount = n] \in GasStation
                           /\ [c EXCEPT !.amount = n].used = c.used
                           /\ [c EXCEPT !.amount = n].prices = c.prices
         /\ \A u \in Seq(Dispensers) : /\ [c EXCEPT !.used = u] \in GasStation
                                       /\ [c EXCEPT !.used = u].used = u
                                       /\ [c EXCEPT !.used = u].prices = c.prices
         /\ \A p \in Products, t \in Texts :
              /\ [c EXCEPT !.prices[p] = t] \in GasStation
              /\ [c EXCEPT !.prices[p] = t].used = c.used
              /\ [c EXCEPT !.prices[p] = t].prices = [c.prices EXCEPT ![p] = t]
  BY DEF GasStation

\* The file and the memory agree at the first start.
LEMMA InitIInv == Init => IInv
<1> SUFFICES ASSUME Init PROVE IInv OBVIOUS
<1>1. config \in GasStation
  <2>1. PICK c \in [amount : {Len(DeviceSeq)}, used : {<<>>, DeviceSeq},
                     prices : [Products -> StartPrices]] : config = c
    BY DEF Init
  <2>2. c.amount \in Nat /\ c.used \in Seq(Dispensers)
    <3>1. c.amount = Len(DeviceSeq) /\ (c.used = <<>> \/ c.used = DeviceSeq)
      OBVIOUS
    <3>2. <<>> \in Seq(Dispensers)
      OBVIOUS
    <3> QED BY <3>1, <3>2, Lists
  <2>3. c.prices \in [Products -> Texts]
    BY Lists
  <2>4. c = [amount |-> c.amount, used |-> c.used, prices |-> c.prices]
    OBVIOUS
  <2> QED BY <2>1, <2>2, <2>3, <2>4 DEF GasStation
<1>2. config.used \in Seq(Dispensers) /\ config.prices \in [Products -> Texts]
  BY <1>1 DEF GasStation
<1>3. DataOK
  <2>1. price \in [Products -> Texts] /\ fuel \in 0..Len(ProductSeq) - 1
    BY Lists DEF Init, NoPrices
  <2> QED BY <1>1, <1>2, <2>1, Zenon DEF Init, DataOK
<1>4. FileAsSaved
  BY <1>1, Lists DEF Init, FileAsSaved
<1>5. PriceInv
  BY DEF Init, PriceInv, NoPriceBeforeProducts, PricesAsAtStart, PricesAgree
<1>6. ListInv
  BY DEF Init, ListInv, ListAsAtStart, ListRestored
<1> QED BY <1>3, <1>4, <1>5, <1>6 DEF IInv

\* The parts of the invariant are about these variables only.
about == <<fileVars, settings, devices, products, fuelVars, selected, edited>>

\* Steps that change none of them keep it.
LEMMA Apart ==
  ASSUME IInv, UNCHANGED about
  PROVE  IInv'
<1> USE DEF about, fileVars, fuelVars, IInv
<1>1. DataOK' BY DEF DataOK
<1>2. FileAsSaved' BY DEF FileAsSaved
<1>3. PriceInv' BY DEF PriceInv, NoPriceBeforeProducts, PricesAsAtStart, PricesAgree
<1>4. ListInv' BY DEF ListInv, ListAsAtStart, ListRestored
<1> QED BY <1>1, <1>2, <1>3, <1>4

\* A save that loses the file leaves nothing to agree with.
LEMMA LostIInv ==
  ASSUME IInv, FileLost, DataOK', NoPriceBeforeProducts' PROVE IInv'
<1>1. FileAsSaved' BY DEF FileLost, FileAsSaved
<1>2. PriceInv' BY DEF FileLost, PriceInv, PricesAsAtStart, PricesAgree
<1>3. ListInv' BY DEF FileLost, ListInv, ListAsAtStart, ListRestored
<1> QED BY <1>1, <1>2, <1>3 DEF IInv

\* What FileLost leaves has its type.
LEMMA LostData ==
  /\ NoPrices \in [Products -> Texts] /\ <<>> \in Seq(Dispensers)
  /\ FileLost => config' \in GasStation \cup {Broken}
                   /\ entered' \in [Products -> Texts] /\ accepted' \in Seq(Dispensers)
<1>1. NoPrices \in [Products -> Texts] BY Lists DEF NoPrices
<1>2. <<>> \in Seq(Dispensers) OBVIOUS
<1> QED BY <1>1, <1>2, Zenon DEF FileLost

\* Removing a dispenser from a list leaves a list.
LEMMA SelectInSeq ==
  ASSUME NEW s \in Seq(Dispensers), NEW d,
         \E i \in DOMAIN s : s[i] = d
  PROVE  Without(s, d) \in Seq(Dispensers)
<1> DEFINE i == CHOOSE i \in DOMAIN s : s[i] = d
<1>1. i \in 1..Len(s) /\ Len(s) \in Nat \ {0}
  OBVIOUS
<1> HIDE DEF i
<1>2. \A k \in 1..Len(s) - 1 : s[IF k < i THEN k ELSE k + 1] \in Dispensers
  BY <1>1
<1>3. [k \in 1..Len(s) - 1 |-> s[IF k < i THEN k ELSE k + 1]] \in Seq(Dispensers)
  BY <1>1, <1>2
<1> QED BY <1>3 DEF Without, i

\* A list that is edited and not accepted does not matter.
LEMMA EditedIInv ==
  ASSUME IInv, selected' \in Seq(Dispensers), edited' = TRUE,
         UNCHANGED <<fileVars, settings, devices, products, fuelVars>>
  PROVE  IInv'
  BY DEF fileVars, fuelVars, IInv, DataOK, FileAsSaved, PriceInv, NoPriceBeforeProducts,
         PricesAsAtStart, PricesAgree, ListInv, ListAsAtStart, ListRestored

\* saveTRKAmountToConfig() concerns neither prices nor the list.
LEMMA AmountIInv ==
  ASSUME IInv, NEW n \in 1..Len(DeviceSeq), handleAmountTRK(n) PROVE IInv'
<1> USE DEF IInv
<1>1. UNCHANGED <<settings, devices, products, price, editing, fuel, selected, edited>>
  BY DEF handleAmountTRK, Touch, fuelVars
<1>2. CASE FileLost
  <2>1. DataOK' BY <1>1, <1>2, LostData DEF DataOK
  <2>2. NoPriceBeforeProducts' BY <1>1 DEF PriceInv, NoPriceBeforeProducts
  <2> QED BY <1>2, <2>1, <2>2, LostIInv
<1>3. CASE NotSaved /\ UNCHANGED <<accepted, entered, unsavedList, unsaved>>
  BY <1>1, <1>3 DEF NotSaved, DataOK, FileAsSaved, PriceInv, NoPriceBeforeProducts,
                    PricesAsAtStart, PricesAgree, ListInv, ListAsAtStart, ListRestored
<1>4. CASE Saved([config EXCEPT !.amount = n])
             /\ UNCHANGED <<accepted, entered, unsavedList, unsaved>>
  <2>1. config \in GasStation /\ n \in Nat
    BY <1>4, Lists DEF Saved, DataOK
  <2>2. /\ config' \in GasStation
        /\ config'.used = config.used /\ config'.prices = config.prices
    BY <1>4, <2>1, SavedRecord DEF Saved
  <2>3. config # Broken /\ config' # Broken
    BY <2>1, <2>2, Lists
  <2>4. DataOK' BY <1>1, <1>4, <2>2 DEF DataOK
  <2>5. FileAsSaved' BY <1>4, <2>2, <2>3 DEF FileAsSaved
  <2>6. PriceInv' BY <1>1, <1>4 DEF PriceInv, NoPriceBeforeProducts, PricesAsAtStart, PricesAgree
  <2>7. ListInv' BY <1>1, <1>4 DEF ListInv, ListAsAtStart, ListRestored
  <2> QED BY <2>4, <2>5, <2>6, <2>7
<1> QED BY <1>2, <1>3, <1>4 DEF handleAmountTRK

\* What is accepted is in the memory, and in the file if saveUsedTRKsToConfig() got there.
LEMMA AcceptIInv ==
  ASSUME IInv, handleAcceptSelectedTRK PROVE IInv'
<1> USE DEF IInv
<1>1. UNCHANGED <<settings, devices, products, price, editing, fuel, selected>>
  BY DEF handleAcceptSelectedTRK, Touch, fuelVars
<1>2. CASE ~MayAccept
  <2>1. UNCHANGED about
    BY <1>1, <1>2 DEF handleAcceptSelectedTRK, about, fuelVars
  <2> QED BY <2>1, Apart
<1>3. CASE MayAccept /\ FileLost
  <2>1. edited' = FALSE BY <1>3 DEF handleAcceptSelectedTRK
  <2>2. DataOK' BY <1>1, <1>3, <2>1, LostData DEF DataOK
  <2>3. NoPriceBeforeProducts' BY <1>1 DEF PriceInv, NoPriceBeforeProducts
  <2> QED BY <1>3, <2>2, <2>3, LostIInv
<1>4. CASE /\ MayAccept /\ NotSaved /\ unsavedList' = TRUE
           /\ UNCHANGED <<accepted, entered, unsaved>>
  <2>1. edited' = FALSE BY <1>4 DEF handleAcceptSelectedTRK
  <2>2. DataOK' /\ FileAsSaved' BY <1>1, <1>4, <2>1 DEF NotSaved, DataOK, FileAsSaved
  <2>3. PriceInv' BY <1>1, <1>4 DEF PriceInv, NoPriceBeforeProducts, PricesAsAtStart, PricesAgree
  <2>4. ListInv' BY <1>4 DEF ListInv, ListAsAtStart, ListRestored
  <2> QED BY <2>2, <2>3, <2>4
<1>5. CASE /\ MayAccept /\ Saved([config EXCEPT !.used = selected])
           /\ accepted' = selected /\ unsavedList' = FALSE
           /\ UNCHANGED <<entered, unsaved>>
  <2>1. config \in GasStation /\ selected \in Seq(Dispensers)
    BY <1>5 DEF Saved, DataOK
  <2>2. /\ config' \in GasStation
        /\ config'.used = selected /\ config'.prices = config.prices
    BY <1>5, <2>1, SavedRecord DEF Saved
  <2>3. config # Broken /\ config' # Broken
    BY <2>1, <2>2, Lists
  <2>4. edited' = FALSE /\ selected # <<>>
    BY <1>5 DEF handleAcceptSelectedTRK, MayAccept
  <2>5. DataOK' BY <1>1, <1>5, <2>1, <2>2, <2>4 DEF DataOK
  <2>6. FileAsSaved' BY <1>5, <2>2, <2>3 DEF FileAsSaved
  <2>7. PriceInv' BY <1>1, <1>5 DEF PriceInv, NoPriceBeforeProducts, PricesAsAtStart, PricesAgree
  <2>8. ListInv' BY <1>1, <1>5, <2>4 DEF ListInv, ListAsAtStart, ListRestored
  <2> QED BY <2>5, <2>6, <2>7, <2>8
<1> QED BY <1>2, <1>3, <1>4, <1>5 DEF handleAcceptSelectedTRK

\* The price that is entered changes in the memory, and in the file if
\* saveFuelPriceToConfig() got there.
LEMMA PriceIInv ==
  ASSUME IInv, NEW t \in Prices, handleEnterFuelPricePinPad(t) PROVE IInv'
<1> USE DEF IInv
<1>1. UNCHANGED <<settings, devices, products, editing, fuel, selected, edited>>
  BY DEF handleEnterFuelPricePinPad, Touch, selectVars
<1>2. CASE ~(PriceTaken(t) /\ editing # None)
  <2>1. UNCHANGED about
    BY <1>1, <1>2 DEF handleEnterFuelPricePinPad, about, fuelVars
  <2> QED BY <2>1, Apart
<1>3. CASE PriceTaken(t) /\ editing # None
  <2>1. /\ editing \in Products /\ t \in Texts /\ products
        /\ price' = [price EXCEPT ![editing] = t]
    BY <1>3, Lists
    DEF handleEnterFuelPricePinPad, PricedProduct, DataOK, PriceInv, NoPriceBeforeProducts
  <2>2. price' \in [Products -> Texts] BY <2>1 DEF DataOK
  <2>3. NoPriceBeforeProducts' BY <1>1 DEF PriceInv, NoPriceBeforeProducts
  <2>4. PricesAsAtStart' BY <1>1, <2>1 DEF PricesAsAtStart
  <2>5. CASE FileLost
    <3>1. DataOK' BY <1>1, <2>2, <2>5, LostData DEF DataOK
    <3> QED BY <2>3, <2>5, <3>1, LostIInv
  <2>6. CASE /\ NotSaved /\ unsaved' = unsaved \cup {editing}
             /\ UNCHANGED <<accepted, entered, unsavedList>>
    <3>1. DataOK' /\ FileAsSaved' BY <1>1, <2>2, <2>6 DEF NotSaved, DataOK, FileAsSaved
    <3>2. PricesAgree' BY <1>1, <2>1, <2>6 DEF PriceInv, PricesAgree, DataOK
    <3>3. ListInv' BY <1>1, <2>6 DEF ListInv, ListAsAtStart, ListRestored
    <3> QED BY <2>3, <2>4, <3>1, <3>2, <3>3 DEF PriceInv
  <2>7. CASE /\ Saved([config EXCEPT !.prices[editing] = t])
             /\ entered' = [entered EXCEPT ![editing] = t] /\ unsaved' = unsaved \ {editing}
             /\ UNCHANGED <<accepted, unsavedList>>
    <3>1. config \in GasStation BY <2>7 DEF Saved, DataOK
    <3>2. /\ config' \in GasStation /\ config'.used = config.used
          /\ config'.prices = [config.prices EXCEPT ![editing] = t]
      BY <2>1, <2>7, <3>1, SavedRecord DEF Saved
    <3>3. config' # Broken /\ config # Broken
      BY <3>1, <3>2, Lists
    <3>4. entered' \in [Products -> Texts] BY <2>1, <2>7 DEF DataOK
    <3>5. DataOK' BY <1>1, <2>2, <2>7, <3>2, <3>4 DEF DataOK
    <3>6. FileAsSaved' BY <2>7, <3>2, <3>3 DEF FileAsSaved
    <3>7. PricesAgree' BY <1>1, <2>1, <2>7 DEF PriceInv, PricesAgree, DataOK
    <3>8. ListInv' BY <1>1, <2>7 DEF ListInv, ListAsAtStart, ListRestored
    <3> QED BY <2>3, <2>4, <3>5, <3>6, <3>7, <3>8 DEF PriceInv
  <2> QED BY <1>3, <2>5, <2>6, <2>7 DEF handleEnterFuelPricePinPad
<1> QED BY <1>2, <1>3

\* The service menu keeps the invariant.
LEMMA OperatorIInv == IInv /\ Operator => IInv'
<1> SUFFICES ASSUME IInv, Operator PROVE IInv' OBVIOUS
<1>1. ASSUME NEW n \in 1..Len(DeviceSeq), handleAmountTRK(n) PROVE IInv'
  BY <1>1, AmountIInv
<1>2. ASSUME NEW d \in Dispensers, handleTrkSelectionToggle(d) PROVE IInv'
  <2>1. selected' \in Seq(Dispensers)
    BY <1>2, SelectInSeq DEF handleTrkSelectionToggle, IInv, DataOK
  <2>2. UNCHANGED <<fileVars, settings, devices, products, fuelVars>> /\ edited' = TRUE
    BY <1>2 DEF handleTrkSelectionToggle, Touch
  <2> QED BY <2>1, <2>2, EditedIInv
<1>3. CASE ResetSelected
  <2>1. /\ UNCHANGED <<fileVars, settings, devices, products, fuelVars>>
        /\ edited' = TRUE /\ selected' \in Seq(Dispensers)
    BY <1>3 DEF ResetSelected, Touch
  <2> QED BY <2>1, EditedIInv
<1>4. CASE handleAcceptSelectedTRK BY <1>4, AcceptIInv
<1>5. ASSUME NEW direction \in {-1, 1}, changeFuelType(direction) PROVE IInv'
  <2>1. fuel' \in 0..Len(ProductSeq) - 1
    BY <1>5, Lists DEF changeFuelType, getPaginationIndex, IInv, DataOK
  <2>2. UNCHANGED <<fileVars, settings, devices, products, price, editing, selected, edited>>
    BY <1>5 DEF changeFuelType, Touch, selectVars
  <2> QED BY <2>1, <2>2
          DEF fileVars, IInv, DataOK, FileAsSaved, PriceInv, NoPriceBeforeProducts,
              PricesAsAtStart, PricesAgree, ListInv, ListAsAtStart, ListRestored
<1>6. CASE handleEditFuelButton
  <2>1. editing' \in Products \cup {None} /\ (editing' # None => products)
    BY <1>6, Lists DEF handleEditFuelButton, IInv, DataOK, PriceInv, NoPriceBeforeProducts
  <2>2. UNCHANGED <<fileVars, settings, devices, products, price, fuel, selected, edited>>
    BY <1>6 DEF handleEditFuelButton, Touch, selectVars
  <2> QED BY <2>1, <2>2
          DEF fileVars, IInv, DataOK, FileAsSaved, PriceInv, NoPriceBeforeProducts,
              PricesAsAtStart, PricesAgree, ListInv, ListAsAtStart, ListRestored
<1>7. ASSUME NEW t \in Prices, handleEnterFuelPricePinPad(t) PROVE IInv'
  BY <1>7, PriceIInv
<1> QED BY <1>1, <1>2, <1>3, <1>4, <1>5, <1>6, <1>7 DEF Operator

\* Customers change neither the settings nor the prices nor the list.
LEMMA CustomerIInv == IInv /\ Customer => IInv'
<1> SUFFICES ASSUME IInv, Customer PROVE IInv' OBVIOUS
<1>1. UNCHANGED about
  BY DEF Customer, ChooseTRK, handleChooseTRK, AttachCardBack, handlePaginationDispenser,
         handleCreateOrder, Touch, about, fuelVars, selectVars
<1> QED BY <1>1, Apart

\* Each step keeps the invariant.
LEMMA StepIInv == IInv /\ [Next]_vars => IInv'
<1> SUFFICES ASSUME IInv, [Next]_vars PROVE IInv' OBVIOUS
<1> USE DEF IInv
<1>1. CASE Restart
  <2>1. /\ UNCHANGED <<config, accepted, entered>> /\ selected' = settings'.used
        /\ settings' \in load /\ price' = NoPrices /\ unsaved' = {}
        /\ devices' = FALSE /\ products' = FALSE /\ edited' = FALSE
        /\ editing' = None /\ fuel' = 0
    BY <1>1 DEF Restart
  <2>2. settings' \in GasStation /\ settings'.used = accepted /\ settings'.prices = entered
    <3>1. CASE config = Broken
      <4>1. PICK c \in [amount : 0..Len(DeviceSeq), used : {<<>>}, prices : {NoPrices}] :
              settings' = c
        BY <2>1, <3>1 DEF load
      <4>2. c.amount \in Nat /\ c.used = <<>> /\ c.prices = NoPrices
        BY Lists
      <4>3. c = [amount |-> c.amount, used |-> c.used, prices |-> c.prices]
        OBVIOUS
      <4>4. c \in GasStation BY <4>2, <4>3, LostData DEF GasStation
      <4> QED BY <3>1, <4>1, <4>2, <4>4 DEF FileAsSaved
    <3>2. CASE config # Broken
      BY <2>1, <3>2 DEF load, DataOK, FileAsSaved
    <3> QED BY <3>1, <3>2
  <2>3. DataOK'
    <3>1. fuel' \in 0..Len(ProductSeq) - 1
      BY <2>1, Lists
    <3>2. price' \in [Products -> Texts] /\ selected' \in Seq(Dispensers)
      BY <2>1, <2>2, LostData DEF DataOK
    <3> QED BY <2>1, <2>2, <3>1, <3>2, Zenon DEF DataOK
  <2>4. FileAsSaved' BY <2>1 DEF FileAsSaved
  <2>5. PriceInv'
    BY <2>1, <2>2 DEF PriceInv, NoPriceBeforeProducts, PricesAsAtStart, PricesAgree
  <2>6. ListInv' BY <2>1, <2>2 DEF ListInv, ListAsAtStart, ListRestored
  <2> QED BY <2>3, <2>4, <2>5, <2>6
<1>2. CASE CutWhileSaving
  <2>1. FileLost /\ UNCHANGED <<settings, devices, products, price, editing, fuel, selected, edited>>
    BY <1>2 DEF CutWhileSaving, fuelVars, selectVars
  <2>2. DataOK' BY <2>1, LostData DEF DataOK
  <2>3. NoPriceBeforeProducts' BY <2>1 DEF PriceInv, NoPriceBeforeProducts
  <2> QED BY <2>1, <2>2, <2>3, LostIInv
<1>3. CASE processDevices
  <2>1. /\ UNCHANGED <<fileVars, settings, products, fuelVars, edited>>
        /\ devices' = TRUE /\ ~devices
        /\ selected' = IF selected = <<>> THEN DeviceSeq ELSE selected
    BY <1>3 DEF processDevices, diskVars
  <2>2. DataOK'
    <3>1. selected' \in Seq(Dispensers)
      BY <2>1, Lists DEF DataOK
    <3> QED BY <2>1, <3>1 DEF fuelVars, fileVars, DataOK
  <2>3. ListInv'
    BY <2>1 DEF fileVars, ListInv, ListAsAtStart, ListRestored, DataOK
  <2>4. PriceInv' /\ FileAsSaved'
    BY <2>1 DEF fuelVars, fileVars, FileAsSaved, PriceInv, NoPriceBeforeProducts,
                PricesAsAtStart, PricesAgree
  <2> QED BY <2>2, <2>3, <2>4
<1>4. CASE processProducts
  <2>1. /\ UNCHANGED <<fileVars, settings, devices, editing, fuel, selected, edited>>
        /\ products' = TRUE /\ ~products /\ price' = settings.prices
    BY <1>4 DEF processProducts, selectVars, diskVars
  <2>2. DataOK'
    <3>1. settings.prices \in [Products -> Texts]
      BY DEF DataOK, GasStation
    <3> QED BY <2>1, <3>1 DEF fileVars, DataOK
  <2>3. PriceInv'
    BY <2>1 DEF fileVars, PriceInv, NoPriceBeforeProducts, PricesAsAtStart, PricesAgree
  <2>4. FileAsSaved' /\ ListInv'
    BY <2>1 DEF fileVars, FileAsSaved, ListInv, ListAsAtStart, ListRestored
  <2> QED BY <2>2, <2>3, <2>4
<1>5. CASE (\E d \in Dispensers : StatusEvent(d)) \/ ForgetDispenser \/ TurnPage
  <2>1. UNCHANGED about
    BY <1>5 DEF StatusEvent, ForgetDispenser, TurnPage, about, fuelVars, selectVars, diskVars
  <2> QED BY <2>1, Apart
<1>6. CASE Operator BY <1>6, OperatorIInv
<1>7. CASE Customer BY <1>7, CustomerIInv
<1>8. CASE UNCHANGED vars
  <2>1. UNCHANGED about
    BY <1>8 DEF vars, about, fuelVars, selectVars, diskVars
  <2> QED BY <2>1, Apart
<1> QED BY <1>1, <1>2, <1>3, <1>4, <1>5, <1>6, <1>7, <1>8 DEF Next

\* The invariant holds throughout.
LEMMA Inductive == Spec => []IInv
  BY InitIInv, StepIInv, PTL DEF Spec

\* Customers pay the price that was entered last (handleEnterFuelPricePinPad()) and
\* saved, or find none once the file was lost, through any number of edits, failed
\* saves and restarts, unless a save of that price failed since the start.
THEOREM PricesStayInStep == Spec => []PricesAgree
<1>1. IInv => PricesAgree BY DEF IInv, PriceInv
<1> QED BY <1>1, Inductive, PTL

\* After a restart processDevices() ends up with the dispensers accepted last in
\* handleAcceptSelectedTRK() and saved, or with all of them once the file was lost,
\* whatever was edited, not accepted or not saved.
THEOREM RestartsRestore == Spec => []RestartRestores
<1>1. IInv => RestartRestores BY DEF IInv, ListInv, ListRestored, RestartRestores
<1> QED BY <1>1, Inductive, PTL
-----------------------------------------------------------------------------
(* Reads outside m_selected_dispensers.                                    *)

\* The page of the multi display is among the dispensers, unless there are none or
\* their list is being edited.  Before the devices have come it is the first, since
\* turning it ends the process.
PageInv ==
  /\ index \in Nat
  /\ alive /\ ~devices => index = 0
  /\ alive /\ devices /\ ~edited => index < Len(selected)

StrayInv == PageInv /\ AcceptedListRead

\* What PageInv is about.
page == <<index, devices, edited, selected>>

\* A step that reads outside nothing and leaves the page alone.
LEMMA StrayApart ==
  ASSUME PageInv, UNCHANGED page, stray' = FALSE, alive' => alive PROVE StrayInv'
  BY DEF PageInv, StrayInv, AcceptedListRead, page

\* A step that reads where the page is, or where the pages of one or two
\* dispensers have their buttons.
LEMMA StrayRead ==
  ASSUME IInv, PageInv, alive, UNCHANGED page,
         stray' => ~InRange(index) \/ ~InRange(0) \/ ~InRange(1)
  PROVE  StrayInv'
<1>1. Len(selected) \in Nat /\ devices \in BOOLEAN BY DEF IInv, DataOK
<1>2. PageInv' BY DEF PageInv, page
<1>3. ASSUME ~edited, Len(selected) >= 2 PROVE ~stray'
  <2>1. index \in Nat /\ index < Len(selected) BY <1>1, <1>3 DEF PageInv
  <2> QED BY <1>1, <1>3, <2>1 DEF InRange
<1>4. AcceptedListRead' BY <1>3 DEF AcceptedListRead, page
<1> QED BY <1>2, <1>4 DEF StrayInv

\* Each step reads inside an accepted list of two dispensers or more.
LEMMA StepStray == IInv /\ StrayInv /\ [Next]_vars => StrayInv'
<1> SUFFICES ASSUME IInv, StrayInv, [Next]_vars PROVE StrayInv' OBVIOUS
<1>0. /\ PageInv /\ selected \in Seq(Dispensers) /\ devices \in BOOLEAN
      /\ Len(selected) \in Nat /\ (selected # <<>> => Len(selected) > 0)
  BY DEF StrayInv, IInv, DataOK
<1>1. CASE Restart
  BY <1>1 DEF Restart, StrayInv, PageInv, AcceptedListRead
<1>2. CASE CutWhileSaving
  BY <1>2 DEF CutWhileSaving, selectVars, StrayInv, PageInv, AcceptedListRead
<1>3. CASE processDevices
  <2>1. /\ index = 0 /\ UNCHANGED <<index, edited>> /\ devices' = TRUE /\ stray' = FALSE
        /\ selected' = IF selected = <<>> THEN DeviceSeq ELSE selected
    BY <1>0, <1>3 DEF processDevices, PageInv
  <2>2. DeviceSeq \in Seq(Dispensers) /\ DeviceSeq # <<>> BY SetupConstants
  <2>3. Len(DeviceSeq) > 0 BY <2>2
  <2>4. Len(selected') > 0 BY <1>0, <2>1, <2>3
  <2> QED BY <2>1, <2>4 DEF StrayInv, PageInv, AcceptedListRead
<1>4. CASE processProducts
  BY <1>0, <1>4, StrayApart DEF processProducts, selectVars, page
<1>5. ASSUME NEW d \in Dispensers, StatusEvent(d) PROVE StrayInv'
  <2>1. UNCHANGED page /\ alive /\ (stray' => ~InRange(index))
    BY <1>5 DEF StatusEvent, Reads, selectVars, page
  <2> QED BY <1>0, <2>1, StrayRead
<1>6. CASE ForgetDispenser \/ AttachCardBack
  <2>1. UNCHANGED page /\ alive /\ (stray' => ~InRange(index))
    BY <1>6 DEF ForgetDispenser, AttachCardBack, Touch, renderDispenser, Reads, RenderOk,
                selectVars, page
  <2> QED BY <1>0, <2>1, StrayRead
<1>7. CASE TurnPage
  BY <1>0, <1>7, StrayApart DEF TurnPage, selectVars, page
<1>8. ASSUME NEW n \in 1..Len(DeviceSeq), handleAmountTRK(n) PROVE StrayInv'
  <2>1. /\ index' = 0 /\ UNCHANGED <<devices, edited, selected>> /\ stray' = FALSE
        /\ alive
    BY <1>8 DEF handleAmountTRK, Touch, Plain
  <2> QED BY <1>0, <2>1 DEF StrayInv, PageInv, AcceptedListRead
<1>9. CASE ResetSelected \/ \E d \in Dispensers : handleTrkSelectionToggle(d)
  <2>1. edited' = TRUE /\ UNCHANGED <<index, devices>> /\ stray' = FALSE /\ alive
    BY <1>9 DEF handleTrkSelectionToggle, ResetSelected, Touch, Plain
  <2> QED BY <1>0, <2>1 DEF StrayInv, PageInv, AcceptedListRead
<1>10. CASE handleAcceptSelectedTRK
  <2>1. UNCHANGED <<devices, selected>> /\ stray' = FALSE /\ alive
    BY <1>10 DEF handleAcceptSelectedTRK, Touch, Plain
  <2>2. (selected # <<>> /\ index' = 0) \/ UNCHANGED <<index, edited>>
    BY <1>10 DEF handleAcceptSelectedTRK, MayAccept, AcceptedIndex
  <2> QED BY <1>0, <2>1, <2>2 DEF StrayInv, PageInv, AcceptedListRead
<1>11. CASE \/ \E direction \in {-1, 1} : changeFuelType(direction)
            \/ handleEditFuelButton
            \/ \E t \in Prices : handleEnterFuelPricePinPad(t)
            \/ \E v \in Volumes : handleCreateOrder(v)
  <2>1. UNCHANGED page /\ stray' = FALSE /\ alive
    BY <1>11 DEF changeFuelType, handleEditFuelButton, handleEnterFuelPricePinPad,
                 handleCreateOrder, Touch, selectVars, page
  <2> QED BY <1>0, <2>1, StrayApart
<1>12. CASE ChooseTRK
  <2>1. PICK i \in {0, 1, index} : handleChooseTRK(i) BY <1>12 DEF ChooseTRK
  <2>2. UNCHANGED page /\ alive /\ (stray' => ~InRange(i))
    BY <2>1 DEF handleChooseTRK, Touch, selectVars, page
  <2> QED BY <1>0, <2>1, <2>2, StrayRead
<1>13. ASSUME NEW direction \in {-1, 1}, handlePaginationDispenser(direction) PROVE StrayInv'
  <2>1. /\ selected # <<>> /\ UNCHANGED <<devices, edited, selected>> /\ stray' = FALSE
        /\ index' = getPaginationIndex(index, Len(selected), direction) /\ alive' = devices
    BY <1>13 DEF handlePaginationDispenser, Touch
  <2>2. index \in Nat /\ Len(selected) \in Nat \ {0} BY <1>0, <2>1 DEF PageInv
  <2>3. CASE direction = 1
    <3>1. index' \in Nat /\ index' < Len(selected)
      BY <2>1, <2>2, <2>3 DEF getPaginationIndex
    <3> QED BY <2>1, <3>1 DEF StrayInv, PageInv, AcceptedListRead
  <2>4. CASE direction = -1
    <3>1. index' \in Nat /\ index' < Len(selected)
      BY <2>1, <2>2, <2>4 DEF getPaginationIndex
    <3> QED BY <2>1, <3>1 DEF StrayInv, PageInv, AcceptedListRead
  <2> QED BY <2>3, <2>4
<1>14. CASE UNCHANGED vars
  BY <1>14 DEF vars, selectVars, StrayInv, PageInv, AcceptedListRead
<1> QED BY <1>1, <1>2, <1>3, <1>4, <1>5, <1>6, <1>7, <1>8, <1>9, <1>10, <1>11, <1>12, <1>13, <1>14
        DEF Next, Operator, Customer

\* renderDispenser(), handleChooseTRK() and handleRandomDispenserStatus() read
\* inside m_selected_dispensers as long as an accepted list names two dispensers or
\* more, whichever start page is shown, since handleAcceptSelectedTRK() and
\* handleAmountTRK() set the index back and handlePaginationDispenser() keeps it inside.
THEOREM AcceptedListsRead == Spec => []AcceptedListRead
<1>1. Init => StrayInv BY DEF Init, StrayInv, PageInv, AcceptedListRead
<1>2. StrayInv => AcceptedListRead BY DEF StrayInv
<1> QED BY <1>1, <1>2, InitIInv, StepIInv, StepStray, PTL DEF Spec
=============================================================================
