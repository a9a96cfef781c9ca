--------------------------- MODULE ArkaimLogicProofs ---------------------------
(***************************************************************************)
(* Proofs about ArkaimLogic, for any orders, cards and numbers of          *)
(* requests, with and without a PIN pad.  Three invariants, one for each   *)
(* piece of state that both threads write: the card, the charges and what  *)
(* is settled of them, and the payment that is pending.                    *)
(***************************************************************************)
EXTENDS ArkaimLogic, FiniteSetTheorems, TLAPS

-----------------------------------------------------------------------------
(* The card.                                                               *)

CardTypes ==
  /\ at \in [Threads -> Steps] /\ at["core"] \notin {"named", "flagged"}
  /\ read \in [Threads -> CardOrNone]
  /\ card \in CardOrNone

\* The flag is up for as long as the terminal owes the answer to a RESOLVE, and
\* no card is resolved meanwhile: an answer never takes a resolved card away
\* from under its PIN.
ResolveFlagged ==
  /\ \A r \in itp : r.cmd = "RESOLVE" => card_resolve_in_progress /\ r.card \in Cards
  /\ \A r, s \in itp : r.cmd = "RESOLVE" /\ s.cmd = "RESOLVE" => r = s
  /\ card_resolve_in_progress => ~card_resolved /\ at["poll"] \notin {"named", "flagged"}

NoPinpadNoRequest == ~has_pinpad => \A r \in itp : r.cmd # "PIN_GET"

\* A card that is not resolved is only there while onCardResolve() runs.
CardOfResolved == ~card_resolved => card = NoCard \/ at["poll"] = "named"

\* A PIN that is not the card's is about to be cleared: by a thread that has
\* cleared the card, even if onCardResolve() has stored the next one meanwhile.
PinKept ==
  pin \in Cards /\ pin # card =>
    \/ card = NoCard /\ \E t \in Threads : at[t] = "reset"
    \/ at["core"] = "reset" /\ at["poll"] \in {"named", "flagged"}

\* What sendTransaction() has read is the PIN's card or none, and stays so until
\* it reads the PIN: the core thread never brings a card in.
FrameOK ==
  /\ \A t \in Threads : at[t] = "pin" /\ pin \in Cards => read[t] \in {pin, NoCard}
  /\ at["poll"] = "pin" => card \in {read["poll"], NoCard}

Regular == ~has_pinpad /\ ~misread

CardInv ==
  /\ CardTypes
  /\ ResolveFlagged
  /\ NoPinpadNoRequest
  /\ Regular => CardOfResolved /\ PinKept /\ FrameOK
  /\ PinOfItsCard

\* No card, no request.
LEMMA InitCard == Init => CardInv
  BY NoCardAssumption
     DEF Init, CardInv, CardTypes, Threads, Steps, CardOrNone, ResolveFlagged,
         NoPinpadNoRequest, CardOfResolved, PinKept, FrameOK, PinOfItsCard

\* Requests that were there before, and one of none of the three kinds the
\* invariant speaks of.
OtherRequests == \A r \in itp' : r \in itp \/ r.cmd \notin {"RESOLVE", "PIN_GET", "TRANSACTION"}

\* Neither card nor PIN changes, and no thread leaves or enters a step in which
\* one of them does.
LEMMA CardKept ==
  ASSUME CardInv, UNCHANGED <<has_pinpad, card_resolve_in_progress, misread>>, OtherRequests,
         UNCHANGED <<card_resolved, card, pin, read>>,
         \/ UNCHANGED at
         \/ \E t \in Threads, step \in {"idle", "try", "card", "clear"} :
              GoTo(t, step) /\ at[t] \in {"idle", "try"}
  PROVE  CardInv'
<1> USE DEF CardInv, OtherRequests, Regular
<1>1. /\ CardTypes'
      /\ at'["poll"] \in {"named", "flagged"} <=> at["poll"] \in {"named", "flagged"}
      /\ at'["poll"] = "named" <=> at["poll"] = "named"
      /\ \A t \in Threads : at'[t] = "reset" <=> at[t] = "reset"
      /\ \A t \in Threads : at'[t] = "pin" <=> at[t] = "pin"
  BY DEF CardTypes, GoTo, Threads, Steps
<1>2. ResolveFlagged' BY <1>1 DEF ResolveFlagged
<1>3. NoPinpadNoRequest' BY DEF NoPinpadNoRequest
<1>4. Regular' => CardOfResolved' /\ PinKept' /\ FrameOK'
  BY <1>1 DEF CardOfResolved, PinKept, FrameOK, Threads
<1>5. PinOfItsCard' BY DEF PinOfItsCard
<1> QED BY <1>1, <1>2, <1>3, <1>4, <1>5

\* resetCardState() on a thread that is not in onCardResolve().
LEMMA CardReset ==
  ASSUME CardInv, UNCHANGED <<has_pinpad, card_resolve_in_progress, misread>>, OtherRequests,
         NEW t \in Threads, at[t] \notin {"named", "flagged"}, resetCardState(t),
         read' = read \/ read' = [read EXCEPT ![t] = NoCard]
  PROVE  CardInv'
<1> USE DEF CardInv, OtherRequests, Regular
<1>1. /\ at \in [Threads -> Steps] /\ at' = [at EXCEPT ![t] = "reset"]
      /\ card' = NoCard /\ card_resolved' = FALSE /\ pin' = pin
  BY DEF resetCardState, GoTo, CardTypes
<1>2. CardTypes' BY <1>1 DEF CardTypes, CardOrNone, Steps, Threads
<1>3. /\ at'[t] = "reset"
      /\ \A u \in Threads : at'[u] = "pin" => u # t /\ at[u] = "pin"
      /\ \A u \in Threads : u # t => read'[u] = read[u]
      /\ at'["poll"] \in {"named", "flagged"} => at["poll"] \in {"named", "flagged"}
  BY <1>1 DEF CardTypes, Threads
<1>4. ResolveFlagged' BY <1>1, <1>3 DEF ResolveFlagged
<1>5. NoPinpadNoRequest' BY DEF NoPinpadNoRequest
<1>6. Regular' => CardOfResolved' /\ PinKept' /\ FrameOK'
  BY <1>1, <1>3 DEF CardOfResolved, PinKept, FrameOK, Threads
<1>7. PinOfItsCard' BY DEF PinOfItsCard
<1> QED BY <1>2, <1>4, <1>5, <1>6, <1>7

\* resetCardState(), the PIN.
LEMMA CardForgotten ==
  ASSUME CardInv, UNCHANGED has_pinpad, NEW t \in Threads, FinishReset(t)
  PROVE  CardInv'
<1> USE DEF CardInv, Regular
<1>1. /\ at[t] = "reset" /\ at' = [at EXCEPT ![t] = "idle"] /\ pin' = NoPin
      /\ UNCHANGED <<card_resolved, card_resolve_in_progress, card, read, itp, misread>>
  BY DEF FinishReset, GoTo, itpVars
<1>2. CardTypes' BY <1>1 DEF CardTypes, Steps, Threads
<1>3. /\ at["poll"] = "named" => at'["poll"] = "named"
      /\ \A u \in Threads : at'[u] = "pin" => at[u] = "pin"
      /\ at'["poll"] \in {"named", "flagged"} => at["poll"] \in {"named", "flagged"}
  BY <1>1 DEF CardTypes, Threads
<1>4. ResolveFlagged' BY <1>1, <1>3 DEF ResolveFlagged
<1>5. NoPinpadNoRequest' BY <1>1 DEF NoPinpadNoRequest
<1>6. Regular' => CardOfResolved' /\ PinKept' /\ FrameOK'
  BY <1>1, <1>3, NoCardAssumption DEF CardOfResolved, PinKept, FrameOK, Threads
<1>7. PinOfItsCard' BY <1>1 DEF PinOfItsCard
<1> QED BY <1>2, <1>4, <1>5, <1>6, <1>7

\* sendTransaction(), the card.
LEMMA CardFramed ==
  ASSUME CardInv, UNCHANGED has_pinpad, NEW t \in Threads, FrameCard(t)
  PROVE  CardInv'
<1> USE DEF CardInv, Regular
<1>1. /\ at[t] = "card" /\ at' = [at EXCEPT ![t] = "pin"] /\ read' = [read EXCEPT ![t] = card]
      /\ UNCHANGED <<card_resolved, card_resolve_in_progress, card, pin, itp, misread>>
  BY DEF FrameCard, GoTo, itpVars, cardVars
<1>2. CardTypes' BY <1>1 DEF CardTypes, Steps, Threads
<1>3. /\ at'["poll"] \in {"named", "flagged"} <=> at["poll"] \in {"named", "flagged"}
      /\ at'["poll"] = "named" <=> at["poll"] = "named"
      /\ \A u \in Threads : at'[u] = "reset" <=> at[u] = "reset"
      /\ \A u \in Threads : u # t => read'[u] = read[u] /\ at'[u] = at[u]
      /\ read'[t] = card
  BY <1>1 DEF CardTypes, Threads
<1>4. ResolveFlagged' BY <1>1, <1>3 DEF ResolveFlagged
<1>5. NoPinpadNoRequest' BY <1>1 DEF NoPinpadNoRequest
<1>6. Regular' => CardOfResolved' /\ PinKept'
  BY <1>1, <1>3 DEF CardOfResolved, PinKept, Threads
<1>7. Regular /\ pin \in Cards => card \in {pin, NoCard}
  BY <1>1 DEF PinKept, Threads
<1>8. Regular' => FrameOK'
  BY <1>1, <1>3, <1>7 DEF FrameOK, Threads
<1>9. PinOfItsCard' BY <1>1 DEF PinOfItsCard
<1> QED BY <1>2, <1>4, <1>5, <1>6, <1>8, <1>9

\* sendTransaction(), the PIN and the push.
LEMMA CardSent ==
  ASSUME CardInv, UNCHANGED has_pinpad, NEW t \in Threads, NEW pushed \in BOOLEAN,
         sendTransaction(t, pushed)
  PROVE  CardInv'
<1> USE DEF CardInv, Regular
<1>1. CASE ~pushed
  <2>1. resetCardState(t) /\ at[t] = "pin" /\ read' = [read EXCEPT ![t] = NoCard]
    BY <1>1 DEF sendTransaction
  <2>2. UNCHANGED <<misread, itp, card_resolve_in_progress>>
    BY <1>1 DEF sendTransaction, resetCardState, itpVars
  <2> QED BY <2>1, <2>2, CardReset DEF OtherRequests
<1>2. CASE pushed
  <2> DEFINE q == [id |-> NextId, cmd |-> "TRANSACTION",
                   order |-> pending_payment.order_id, card |-> read[t], pin |-> pin]
  <2>1. /\ at[t] = "pin" /\ at' = [at EXCEPT ![t] = "idle"]
        /\ read' = [read EXCEPT ![t] = NoCard]
        /\ itp' = itp \cup {q}
        /\ UNCHANGED <<card_resolved, card_resolve_in_progress, card, pin, misread>>
    BY <1>2 DEF sendTransaction, Push, GoTo, cardVars
  <2>2. q.cmd = "TRANSACTION" /\ q.card = read[t] /\ q.pin = pin OBVIOUS
  <2> HIDE DEF q
  <2>3. CardTypes' BY <2>1 DEF CardTypes, Steps, Threads, CardOrNone
  <2>4. /\ at'["poll"] \in {"named", "flagged"} <=> at["poll"] \in {"named", "flagged"}
        /\ at'["poll"] = "named" <=> at["poll"] = "named"
        /\ \A u \in Threads : at'[u] = "reset" <=> at[u] = "reset"
        /\ \A u \in Threads : at'[u] = "pin" => at[u] = "pin" /\ read'[u] = read[u]
    BY <2>1 DEF CardTypes, Threads
  <2>5. ResolveFlagged' BY <2>1, <2>2, <2>4 DEF ResolveFlagged
  <2>6. NoPinpadNoRequest' BY <2>1, <2>2 DEF NoPinpadNoRequest
  <2>7. Regular' => CardOfResolved' /\ PinKept' /\ FrameOK'
    BY <2>1, <2>4 DEF CardOfResolved, PinKept, FrameOK, Threads
  <2>8. Regular /\ pin \in Cards => read[t] \in {pin, NoCard} BY <2>1 DEF FrameOK
  <2>9. PinOfItsCard' BY <2>1, <2>2, <2>8, NoCardAssumption DEF PinOfItsCard
  <2> QED BY <2>3, <2>5, <2>6, <2>7, <2>9
<1> QED BY <1>1, <1>2

\* The PIN typed on the display, for whatever card there is.
LEMMA CardPin ==
  ASSUME CardInv, UNCHANGED has_pinpad, NEW pushed \in BOOLEAN, HandlePinEntered(pushed)
  PROVE  CardInv'
<1> USE DEF CardInv, Regular
<1>1. /\ at["core"] = "idle" /\ pin' = card
      /\ at' = at \/ at' = [at EXCEPT !["core"] = "try"]
      /\ UNCHANGED <<card_resolved, card_resolve_in_progress, card, read, misread>>
  BY DEF HandlePinEntered, GoTo, CoreThread, tryVars
<1>2. \A r \in itp' : r \in itp \/ r.cmd = "GET_INFO"
  BY DEF HandlePinEntered, Push, itpVars
<1>3. CardTypes' BY <1>1 DEF CardTypes, Steps, Threads
<1>4. at'["poll"] = at["poll"] /\ at'["core"] \in {"idle", "try"}
  BY <1>1 DEF CardTypes, Threads
<1>5. ResolveFlagged' BY <1>1, <1>2, <1>4 DEF ResolveFlagged
<1>6. NoPinpadNoRequest' BY <1>2 DEF NoPinpadNoRequest
<1>7. Regular' => CardOfResolved' /\ PinKept' BY <1>1, <1>4 DEF CardOfResolved, PinKept
<1>8. Regular' => FrameOK' BY <1>1, <1>4, NoCardAssumption DEF FrameOK, Threads
<1>9. PinOfItsCard' BY <1>1, <1>2 DEF PinOfItsCard
<1> QED BY <1>3, <1>5, <1>6, <1>7, <1>8, <1>9

\* A card is tapped.
LEMMA CardTapped ==
  ASSUME CardInv, UNCHANGED has_pinpad, NEW c \in Cards, NEW selected \in BOOLEAN,
         NEW sent \in BOOLEAN, OnCardDetected(c, selected, sent)
  PROVE  CardInv'
<1> USE DEF CardInv, Regular
<1> DEFINE q == [id |-> NextId, cmd |-> "RESOLVE", card |-> c, selected |-> selected]
<1>1. /\ at["poll"] = "idle" /\ ~card_resolved /\ ~card_resolve_in_progress
      /\ card_resolve_in_progress' = TRUE
      /\ at' = at \/ at' = [at EXCEPT !["poll"] = "reset"]
      /\ UNCHANGED <<card_resolved, card, pin, read, misread>>
  BY DEF OnCardDetected, GoTo, PollThread, tryVars
<1>2. itp' = itp \/ itp' = itp \cup {q} BY DEF OnCardDetected, Push, itpVars
<1>3. q.cmd = "RESOLVE" /\ q.card \in Cards OBVIOUS
<1> HIDE DEF q
<1>4. CardTypes' BY <1>1 DEF CardTypes, Steps, Threads
<1>5. at'["core"] = at["core"] /\ at'["poll"] \in {"idle", "reset"}
  BY <1>1 DEF CardTypes, Threads
<1>6. ResolveFlagged' BY <1>1, <1>2, <1>3, <1>5 DEF ResolveFlagged
<1>7. NoPinpadNoRequest' BY <1>2, <1>3 DEF NoPinpadNoRequest
<1>8. Regular' => CardOfResolved' /\ PinKept' /\ FrameOK'
  BY <1>1, <1>5 DEF CardOfResolved, PinKept, FrameOK, Threads
<1>9. PinOfItsCard' BY <1>1, <1>2, <1>3 DEF PinOfItsCard
<1> QED BY <1>4, <1>6, <1>7, <1>8, <1>9

\* onCardResolve(): the card is stored, where there was none.
LEMMA CardNamed ==
  ASSUME CardInv, UNCHANGED has_pinpad, NEW r \in itp, OnCardResolve(r)
  PROVE  CardInv'
<1> USE DEF CardInv, Regular
<1>1. /\ at["poll"] = "idle" /\ at' = [at EXCEPT !["poll"] = "named"]
      /\ r.cmd = "RESOLVE" /\ itp' = itp \ {r} /\ card' = r.card
      /\ card_resolve_in_progress' = FALSE
      /\ UNCHANGED <<card_resolved, pin, read, misread>>
  BY DEF OnCardResolve, GoTo, PollThread, tryVars
<1>2. r.card \in Cards /\ ~card_resolved BY <1>1 DEF ResolveFlagged
<1>3. CardTypes' BY <1>1, <1>2 DEF CardTypes, Steps, Threads, CardOrNone
<1>4. at'["core"] = at["core"] /\ at'["poll"] = "named" BY <1>1 DEF CardTypes, Threads
<1>5. ResolveFlagged' BY <1>1, <1>4 DEF ResolveFlagged
<1>6. NoPinpadNoRequest' BY <1>1 DEF NoPinpadNoRequest
<1>7. Regular => card = NoCard BY <1>1, <1>2 DEF CardOfResolved
<1>8. Regular' => CardOfResolved' /\ PinKept' /\ FrameOK'
  BY <1>1, <1>4, <1>7, NoCardAssumption DEF CardOfResolved, PinKept, FrameOK, Threads
<1>9. PinOfItsCard' BY <1>1 DEF PinOfItsCard
<1> QED BY <1>3, <1>5, <1>6, <1>8, <1>9

\* onCardResolve(): the flag.
LEMMA CardIsFlagged ==
  ASSUME CardInv, UNCHANGED has_pinpad, CardFlagged
  PROVE  CardInv'
<1> USE DEF CardInv, Regular
<1>1. /\ at["poll"] = "named" /\ at' = [at EXCEPT !["poll"] = "flagged"]
      /\ card_resolved' = TRUE
      /\ UNCHANGED <<card_resolve_in_progress, card, itp, pin, read, misread>>
  BY DEF CardFlagged, GoTo, tryVars, itpVars
<1>2. CardTypes' BY <1>1 DEF CardTypes, Steps, Threads
<1>3. at'["core"] = at["core"] /\ at'["poll"] = "flagged" BY <1>1 DEF CardTypes, Threads
<1>4. ResolveFlagged' BY <1>1, <1>3 DEF ResolveFlagged
<1>5. NoPinpadNoRequest' BY <1>1 DEF NoPinpadNoRequest
<1>6. Regular' => CardOfResolved' /\ PinKept' /\ FrameOK'
  BY <1>1, <1>3 DEF CardOfResolved, PinKept, FrameOK, Threads
<1>7. PinOfItsCard' BY <1>1 DEF PinOfItsCard
<1> QED BY <1>2, <1>4, <1>5, <1>6, <1>7

\* onCardResolve(): the PIN of an earlier card is forgotten.
LEMMA CardIsAnnounced ==
  ASSUME CardInv, UNCHANGED has_pinpad, NEW pushed \in BOOLEAN, CardAnnounced(pushed)
  PROVE  CardInv'
<1> USE DEF CardInv, Regular
<1>1. /\ at["poll"] = "flagged" /\ at' = [at EXCEPT !["poll"] = "try"]
      /\ pin' = NoPin
      /\ UNCHANGED <<card_resolve_in_progress, card_resolved, card, read, misread>>
  BY DEF CardAnnounced, GoTo, tryVars
<1>2. \A r \in itp' : r \in itp \/ r.cmd = "GET_INFO"
  BY DEF CardAnnounced, Push, itpVars
<1>3. CardTypes' BY <1>1 DEF CardTypes, Steps, Threads
<1>4. at'["core"] = at["core"] /\ at'["poll"] = "try" BY <1>1 DEF CardTypes, Threads
<1>5. ResolveFlagged' BY <1>1, <1>2, <1>4 DEF ResolveFlagged
<1>6. NoPinpadNoRequest' BY <1>2 DEF NoPinpadNoRequest
<1>7. Regular' => CardOfResolved' /\ PinKept' /\ FrameOK'
  BY <1>1, <1>4, NoCardAssumption DEF CardOfResolved, PinKept, FrameOK, Threads
<1>8. PinOfItsCard' BY <1>1, <1>2 DEF PinOfItsCard
<1> QED BY <1>3, <1>5, <1>6, <1>7, <1>8

\* A card that could not be resolved is cleared; after an answer that could not
\* be parsed the invariant promises nothing of card and PIN.
LEMMA CardUnresolved ==
  ASSUME CardInv, UNCHANGED has_pinpad, NEW r \in itp, NEW parse \in BOOLEAN,
         OnCardResolveFailed(r, parse)
  PROVE  CardInv'
<1> USE DEF CardInv, Regular
<1>1. /\ at["poll"] = "idle" /\ r.cmd = "RESOLVE" /\ itp' = itp \ {r}
      /\ card_resolve_in_progress' = FALSE
      /\ UNCHANGED <<pin, read>>
      /\ \/ misread' = TRUE /\ card' \in {card, r.card} /\ UNCHANGED <<card_resolved, at>>
         \/ /\ misread' = misread /\ card_resolved' = FALSE /\ card' = NoCard
            /\ at' = [at EXCEPT !["poll"] = "reset"]
  BY DEF OnCardResolveFailed, GoTo, PollThread, tryVars
<1>2. r.card \in Cards BY <1>1 DEF ResolveFlagged
<1>3. CardTypes' BY <1>1, <1>2 DEF CardTypes, Steps, Threads, CardOrNone
<1>4. ResolveFlagged' BY <1>1 DEF ResolveFlagged
<1>5. NoPinpadNoRequest' BY <1>1 DEF NoPinpadNoRequest
<1>6. Regular' => CardOfResolved' /\ PinKept' /\ FrameOK'
  <2> SUFFICES ASSUME Regular' PROVE CardOfResolved' /\ PinKept' /\ FrameOK' OBVIOUS
  <2>1. /\ Regular /\ card_resolved' = FALSE /\ card' = NoCard
        /\ at' = [at EXCEPT !["poll"] = "reset"]
    BY <1>1
  <2>2. at'["core"] = at["core"] /\ at'["poll"] = "reset" BY <2>1 DEF CardTypes, Threads
  <2> QED BY <1>1, <2>1, <2>2 DEF CardOfResolved, PinKept, FrameOK, Threads
<1>7. PinOfItsCard' BY <1>1 DEF PinOfItsCard
<1> QED BY <1>3, <1>4, <1>5, <1>6, <1>7

\* The PIN pad's PIN; without one there is no such request.
LEMMA CardPinReady ==
  ASSUME CardInv, UNCHANGED has_pinpad, NEW r \in itp, NEW ok \in BOOLEAN, OnPinReady(r, ok)
  PROVE  CardInv'
<1> USE DEF CardInv, Regular
<1>1. has_pinpad BY DEF OnPinReady, NoPinpadNoRequest
<1>2. /\ at["poll"] = "idle" /\ itp' = itp \ {r}
      /\ at' = at \/ at' = [at EXCEPT !["poll"] = "card"] \/ at' = [at EXCEPT !["poll"] = "clear"]
      /\ UNCHANGED <<card_resolved, card_resolve_in_progress, card, read, misread>>
  BY DEF OnPinReady, GoTo, PollThread, tryVars
<1>3. CardTypes' BY <1>2 DEF CardTypes, Steps, Threads
<1>4. at'["poll"] \notin {"named", "flagged"} BY <1>2 DEF CardTypes, Threads
<1>5. ResolveFlagged' BY <1>2, <1>4 DEF ResolveFlagged
<1>6. NoPinpadNoRequest' /\ PinOfItsCard' /\ ~Regular'
  BY <1>1, <1>2 DEF NoPinpadNoRequest, PinOfItsCard
<1> QED BY <1>3, <1>5, <1>6

\* Each step keeps the card, its PIN and the requests together.
LEMMA StepCard == CardInv /\ [Next]_vars => CardInv'
<1> SUFFICES ASSUME CardInv, [Next]_vars PROVE CardInv' OBVIOUS
<1>0. UNCHANGED has_pinpad BY DEF Next, vars
<1> DEFINE Still == UNCHANGED <<card_resolve_in_progress, misread, card_resolved, card, pin, read>>
<1>1. CASE UNCHANGED vars
  BY <1>0, <1>1, CardKept DEF vars, cardVars, itpVars, tryVars, OtherRequests
<1>2. ASSUME HandleClear \/ \E t \in Threads : ClearCard(t) PROVE CardInv'
  <2>1. PICK t \in Threads : /\ resetCardState(t) /\ at[t] \in {"idle", "clear"}
                             /\ UNCHANGED <<misread, itp, read>>
    BY <1>2 DEF HandleClear, ClearCard, Threads, CoreThread, itpVars, tryVars
  <2> QED BY <1>0, <2>1, CardReset DEF OtherRequests, resetCardState
<1>3. ASSUME NEW o \in Orders, HandlePayTransaction(o) PROVE CardInv'
  <2>1. Still /\ OtherRequests /\ GoTo("core", "try") /\ at["core"] = "idle"
    BY <1>3 DEF HandlePayTransaction, cardVars, itpVars, tryVars, OtherRequests, CoreThread
  <2> QED BY <1>0, <2>1, CardKept DEF Threads
<1>4. ASSUME NEW o \in Orders, NEW pushed \in BOOLEAN, HandleConfirm(o, pushed) PROVE CardInv'
  <2>1. Still /\ OtherRequests /\ UNCHANGED at
    BY <1>4 DEF HandleConfirm, SettleRequest, Push, cardVars, itpVars, tryVars, OtherRequests
  <2> QED BY <1>0, <2>1, CardKept
<1>5. ASSUME NEW t \in Threads, tryProcessPendingPayment(t) PROVE CardInv'
  <2>1. /\ Still /\ OtherRequests /\ at[t] = "try"
        /\ \E step \in {"idle", "card"} : GoTo(t, step)
    BY <1>5 DEF tryProcessPendingPayment, cardVars, itpVars, OtherRequests
  <2> QED BY <1>0, <2>1, CardKept
<1>6. ASSUME NEW pushed \in BOOLEAN, HandleCancel(pushed) PROVE CardInv'
  <2>1. Still /\ GoTo("core", "clear") /\ at["core"] = "idle"
    BY <1>6 DEF HandleCancel, cardVars, tryVars, CoreThread
  <2>2. OtherRequests BY <1>6 DEF HandleCancel, SettleRequest, Push, itpVars, OtherRequests
  <2> QED BY <1>0, <2>1, <2>2, CardKept DEF Threads
<1>7. ASSUME NEW r \in itp, NEW b \in BOOLEAN,
             \/ OnTransactionPaid(r) \/ OnPinRequestFailed(r)
             \/ OnConfirmResponse(r, b) \/ OnCancelResponse(r, b)
      PROVE  CardInv'
  <2>1. Still /\ OtherRequests /\ UNCHANGED at
    BY <1>7 DEF OnTransactionPaid, OnPinRequestFailed, OnConfirmResponse, OnCancelResponse,
                cardVars, tryVars, OtherRequests
  <2> QED BY <1>0, <2>1, CardKept
<1>8. ASSUME NEW r \in itp, NEW b \in BOOLEAN,
             \/ OnTransactionDeclined(r, b) \/ OnTransactionFailed(r, b)
             \/ \E result \in {"error", "wrong pin", "shown"} : OnBalanceResponse(r, result)
      PROVE  CardInv'
  <2>1. /\ OtherRequests /\ UNCHANGED <<misread, read>> /\ at["poll"] = "idle"
        /\ resetCardState("poll") \/ UNCHANGED <<cardVars, at>>
    BY <1>8 DEF OnTransactionDeclined, OnTransactionFailed, OnBalanceResponse, tryVars,
                OtherRequests, PollThread
  <2>2. CASE resetCardState("poll")
    BY <1>0, <2>1, <2>2, CardReset DEF resetCardState, Threads
  <2>3. CASE UNCHANGED <<cardVars, at>>
    BY <1>0, <2>1, <2>3, CardKept DEF cardVars
  <2> QED BY <2>1, <2>2, <2>3
<1>9. ASSUME NEW r \in itp, NEW pushed \in BOOLEAN, OnPinRequired(r, pushed) PROVE CardInv'
  <2>0. UNCHANGED <<misread, read>> /\ at["poll"] = "idle"
    BY <1>9 DEF OnPinRequired, tryVars, PollThread
  <2>1. CASE has_pinpad /\ pushed
    <3> DEFINE q == [id |-> NextId, cmd |-> "PIN_GET"]
    <3>1. itp' = (itp \ {r}) \cup {q} /\ UNCHANGED <<cardVars, at>>
      BY <1>9, <2>1 DEF OnPinRequired, Push
    <3>2. q.cmd = "PIN_GET" OBVIOUS
    <3> HIDE DEF q
    <3>3. CardTypes' BY <2>0, <3>1 DEF cardVars, CardInv, CardTypes
    <3>4. ResolveFlagged' BY <3>1, <3>2 DEF cardVars, CardInv, ResolveFlagged
    <3> QED BY <1>0, <2>1, <3>1, <3>3, <3>4
            DEF CardInv, Regular, NoPinpadNoRequest, PinOfItsCard
  <2>2. CASE ~(has_pinpad /\ pushed)
    <3>1. itp' = itp \ {r} /\ (resetCardState("poll") \/ UNCHANGED <<cardVars, at>>)
      BY <1>9, <2>2 DEF OnPinRequired
    <3>2. CASE resetCardState("poll")
      BY <1>0, <2>0, <3>1, <3>2, CardReset DEF resetCardState, Threads, OtherRequests
    <3>3. CASE UNCHANGED <<cardVars, at>>
      BY <1>0, <2>0, <3>1, <3>3, CardKept DEF cardVars, OtherRequests
    <3> QED BY <3>1, <3>2, <3>3
  <2> QED BY <2>1, <2>2
<1> QED BY <1>0, <1>1, <1>2, <1>3, <1>4, <1>5, <1>6, <1>7, <1>8, <1>9, CardForgotten, CardFramed,
           CardSent, CardPin, CardTapped, CardNamed, CardIsFlagged, CardIsAnnounced,
           CardUnresolved, CardPinReady
        DEF Next, CoreNext, PollNext, ThreadNext

\* However taps, answers and resets interleave, the terminal resolves one card
\* at a time.
THEOREM OneCardResolved == Spec => []OneResolveInFlight
<1>1. CardInv => OneResolveInFlight
  <2> SUFFICES ASSUME CardInv PROVE OneResolveInFlight OBVIOUS
  <2> DEFINE R == {r \in itp : r.cmd = "RESOLVE"}
  <2>1. CASE R = {} BY <2>1, FS_EmptySet DEF OneResolveInFlight
  <2>2. CASE R # {}
    <3>1. PICK r : r \in R BY <2>2
    <3>2. R = {r} BY <3>1 DEF CardInv, ResolveFlagged
    <3>3. Cardinality(R) = 1 BY <3>2, FS_Singleton
    <3> QED BY <3>3 DEF OneResolveInFlight
  <2> QED BY <2>1, <2>2
<1> QED BY <1>1, InitCard, StepCard, PTL DEF Spec

\* Without a PIN pad and as long as every answer to RESOLVE can be parsed, a
\* transaction carries no PIN of another card, however the two threads
\* interleave inside sendTransaction(), resetCardState() and onCardResolve().
THEOREM PinsStayWithCards == Spec => []PinOfItsCard
<1>1. CardInv => PinOfItsCard BY DEF CardInv
<1> QED BY <1>1, InitCard, StepCard, PTL DEF Spec

-----------------------------------------------------------------------------
(* The charges and their settlement.                                       *)

\* No id is given twice: neither to two waiting requests nor to a waiting request
\* and a transaction that was charged.
IdsApart ==
  /\ last_id \in Nat
  /\ \A r \in itp : r.id \in 1..last_id
  /\ \A r, s \in itp : r.id = s.id => r = s
  /\ \A c \in charged : c.transaction_id \in 1..last_id
  /\ \A c \in charged, r \in itp : c.transaction_id # r.id
  /\ \A c, d \in charged : c.transaction_id = d.transaction_id => c = d

\* The map holds, under each order, a transaction that was charged for it and
\* that the terminal has not settled; what was settled of the order before is
\* this charge or an earlier one.
EntriesAreCharges ==
  \A o \in DOMAIN order_transactions :
    /\ \E c \in charged :
         /\ c.transaction_id = order_transactions[o].transaction_id /\ c.order = o
         /\ \A s \in settles :
              s.order = o => s.entry.transaction_id \in {c.transaction_id} \cup c.earlier
    /\ order_transactions[o].transaction_id \notin answered

\* A settlement that waits was recorded, and a settled transaction was charged.
SettlesRecorded ==
  /\ \A r \in itp : r.cmd \in {"CONFIRM", "CANCEL"} => r \in settles
  /\ \A t \in answered : \E s \in settles : s.entry.transaction_id = t

ChargeInv ==
  /\ IdsApart
  /\ EntriesAreCharges
  /\ SettlesRecorded
  /\ SettlesOwnTransaction
  /\ ChargeKeptForSettling

\* Nothing is charged.
LEMMA InitCharge == Init => ChargeInv
  BY DEF Init, ChargeInv, IdsApart, EntriesAreCharges, SettlesRecorded,
         SettlesOwnTransaction, ChargeKeptForSettling

\* A request is pushed under the next id, or none is.
Pushes(r) == last_id' = last_id + 1 /\ r.id = last_id + 1 /\ itp' \subseteq itp \cup {r}
PushesNone == last_id' = last_id /\ itp' \subseteq itp

\* Ids stay apart when a request is pushed and when one is answered.
LEMMA IdsKept ==
  ASSUME IdsApart, charged' = charged, (\E r : Pushes(r)) \/ PushesNone
  PROVE  IdsApart'
<1>1. CASE PushesNone BY <1>1 DEF PushesNone, IdsApart
<1>2. ASSUME NEW q, Pushes(q) PROVE IdsApart'
  <2>1. /\ last_id \in Nat /\ last_id' = last_id + 1 /\ q.id = last_id + 1
        /\ \A r \in itp' : r \in itp \/ r = q
    BY <1>2 DEF Pushes, IdsApart
  <2>2. \A r \in itp : r.id \in 1..last_id' /\ r.id # q.id BY <2>1 DEF IdsApart
  <2>3. \A c \in charged : c.transaction_id \in 1..last_id' /\ c.transaction_id # q.id
    BY <2>1 DEF IdsApart
  <2>4. q.id \in 1..last_id' BY <2>1
  <2> QED BY <2>1, <2>2, <2>3, <2>4 DEF IdsApart
<1> QED BY <1>1, <1>2

\* A step that neither charges nor settles.
LEMMA ChargeKept ==
  ASSUME ChargeInv, UNCHANGED <<order_transactions, history>>,
         \/ PushesNone
         \/ \E r : Pushes(r) /\ r.cmd \notin {"CONFIRM", "CANCEL"}
  PROVE  ChargeInv'
<1> USE DEF ChargeInv, history
<1>1. IdsApart' BY IdsKept
<1>2. EntriesAreCharges' BY DEF EntriesAreCharges
<1>3. SettlesRecorded' BY DEF SettlesRecorded, PushesNone, Pushes
<1>4. SettlesOwnTransaction' BY DEF SettlesOwnTransaction
<1>5. ChargeKeptForSettling' BY DEF ChargeKeptForSettling
<1> QED BY <1>1, <1>2, <1>3, <1>4, <1>5

\* A confirm or a cancel of an order in the map.
LEMMA ChargeSettling ==
  ASSUME ChargeInv, NEW cmd \in {"CONFIRM", "CANCEL"}, NEW o \in DOMAIN order_transactions,
         Push(itp, SettleRequest(cmd, o)), settles' = settles \cup {SettleRequest(cmd, o)},
         UNCHANGED <<order_transactions, charged, answered>>
  PROVE  ChargeInv'
<1> USE DEF ChargeInv
<1> DEFINE q == SettleRequest(cmd, o)
<1>1. /\ q.id = last_id + 1 /\ q.cmd = cmd /\ q.order = o
      /\ q.entry = order_transactions[o]
  BY DEF SettleRequest, NextId
<1>2. itp' = itp \cup {q} /\ settles' = settles \cup {q} /\ last_id' = last_id + 1
  BY DEF Push
<1> HIDE DEF q
<1>3. IdsApart' BY <1>1, <1>2, IdsKept DEF Pushes
<1>4. EntriesAreCharges' BY <1>1, <1>2 DEF EntriesAreCharges
<1>5. SettlesRecorded' BY <1>2 DEF SettlesRecorded
<1>6. SettlesOwnTransaction'
  BY <1>1, <1>2 DEF SettlesOwnTransaction, EntriesAreCharges
<1>7. ChargeKeptForSettling' BY <1>2 DEF ChargeKeptForSettling
<1> QED BY <1>3, <1>4, <1>5, <1>6, <1>7

\* The terminal reports a transaction as paid: it takes the place of an earlier
\* charge for the same order.
LEMMA ChargePaid ==
  ASSUME ChargeInv, NEW r \in itp, OnTransactionPaid(r)
  PROVE  ChargeInv'
<1> USE DEF ChargeInv
<1> DEFINE c == NewCharge(r)
           f == order_transactions
<1>1. /\ itp' = itp \ {r} /\ last_id' = last_id /\ charged' = charged \cup {c}
      /\ UNCHANGED <<settles, answered>>
  BY DEF OnTransactionPaid
<1>2. /\ DOMAIN f' = DOMAIN f \cup {r.order}
      /\ \A o \in DOMAIN f' : o # r.order => f'[o] = f[o]
      /\ f'[r.order].transaction_id = r.id
  BY DEF OnTransactionPaid, With
<1>3. /\ c.transaction_id = r.id /\ c.order = r.order
      /\ \A d \in charged : d.order = r.order => d.transaction_id \in c.earlier
  BY DEF NewCharge
<1>4. \A d \in charged : d.transaction_id # r.id BY DEF IdsApart
<1> HIDE DEF c, f
<1>5. IdsApart' BY <1>1, <1>3, <1>4 DEF IdsApart
<1>6. r.id \notin answered BY <1>4 DEF SettlesRecorded, SettlesOwnTransaction
<1>7. \A s \in settles : s.order = r.order => s.entry.transaction_id \in c.earlier
  BY <1>3 DEF SettlesOwnTransaction
<1>8. EntriesAreCharges'
  BY <1>1, <1>2, <1>3, <1>6, <1>7 DEF EntriesAreCharges, f
<1>9. SettlesRecorded' /\ SettlesOwnTransaction'
  BY <1>1 DEF SettlesRecorded, SettlesOwnTransaction
<1>10. ChargeKeptForSettling'
  <2> SUFFICES ASSUME NEW d \in charged'
               PROVE  \/ \E o \in DOMAIN f' : f'[o].transaction_id = d.transaction_id
                      \/ \E s \in settles' :
                           s.entry.transaction_id \in {d.transaction_id} \cup d.earlier
                      \/ \E e \in charged' : d.transaction_id \in e.earlier
    BY DEF ChargeKeptForSettling, f
  <2>1. CASE d = c BY <1>2, <1>3, <2>1
  <2>2. CASE d # c /\ \E o \in DOMAIN f : f[o].transaction_id = d.transaction_id
    <3>1. PICK o \in DOMAIN f : f[o].transaction_id = d.transaction_id BY <2>2
    <3>2. CASE o # r.order BY <1>2, <3>1, <3>2
    <3>3. CASE o = r.order
      <4>1. d \in charged BY <1>1, <2>2
      <4>2. PICK e \in charged : e.transaction_id = f[o].transaction_id /\ e.order = o
        BY DEF EntriesAreCharges, f
      <4>3. e = d BY <3>1, <4>1, <4>2 DEF IdsApart
      <4> QED BY <1>1, <1>3, <3>3, <4>1, <4>2, <4>3
    <3> QED BY <3>2, <3>3
  <2>3. CASE d # c /\ ~\E o \in DOMAIN f : f[o].transaction_id = d.transaction_id
    <3>1. d \in charged BY <1>1, <2>3
    <3> QED BY <1>1, <2>3, <3>1 DEF ChargeKeptForSettling, f
  <2> QED BY <2>1, <2>2, <2>3
<1> QED BY <1>5, <1>8, <1>9, <1>10

\* The terminal answers a settlement, and its order is forgotten.
LEMMA ChargeSettled ==
  ASSUME ChargeInv, NEW r \in itp, r.cmd \in {"CONFIRM", "CANCEL"}, PushesNone,
         UNCHANGED <<charged, settles>>,
         order_transactions' = Without(order_transactions, r.order),
         answered' \subseteq answered \cup {r.entry.transaction_id},
         answered \subseteq answered'
  PROVE  ChargeInv'
<1> USE DEF ChargeInv
<1> DEFINE f == order_transactions
<1>1. /\ DOMAIN f' = DOMAIN f \ {r.order}
      /\ \A o \in DOMAIN f' : o # r.order /\ f'[o] = f[o]
  BY DEF Without
<1> HIDE DEF f
<1>2. r \in settles BY DEF SettlesRecorded
<1>3. PICK c \in charged : c.transaction_id = r.entry.transaction_id /\ c.order = r.order
  BY <1>2 DEF SettlesOwnTransaction
<1>4. IdsApart' BY IdsKept
<1>5. EntriesAreCharges'
  <2> SUFFICES ASSUME NEW o \in DOMAIN f'
               PROVE  /\ \E d \in charged' :
                           /\ d.transaction_id = f'[o].transaction_id /\ d.order = o
                           /\ \A s \in settles' : s.order = o =>
                                s.entry.transaction_id \in {d.transaction_id} \cup d.earlier
                      /\ f'[o].transaction_id \notin answered'
    BY DEF EntriesAreCharges, f
  <2>1. o # r.order /\ f'[o] = f[o] /\ o \in DOMAIN f BY <1>1
  <2>2. PICK d \in charged :
          /\ d.transaction_id = f[o].transaction_id /\ d.order = o
          /\ \A s \in settles :
               s.order = o => s.entry.transaction_id \in {d.transaction_id} \cup d.earlier
    BY <2>1 DEF EntriesAreCharges, f
  <2>3. d.transaction_id # c.transaction_id BY <1>3, <2>1, <2>2 DEF IdsApart
  <2>4. f[o].transaction_id \notin answered BY <2>1 DEF EntriesAreCharges, f
  <2> QED BY <1>3, <2>1, <2>2, <2>3, <2>4
<1>6. SettlesRecorded' BY <1>2 DEF SettlesRecorded, PushesNone
<1>7. SettlesOwnTransaction' BY DEF SettlesOwnTransaction
<1>8. ChargeKeptForSettling'
  <2> SUFFICES ASSUME NEW d \in charged
               PROVE  \/ \E o \in DOMAIN f' : f'[o].transaction_id = d.transaction_id
                      \/ \E s \in settles :
                           s.entry.transaction_id \in {d.transaction_id} \cup d.earlier
                      \/ \E e \in charged : d.transaction_id \in e.earlier
    BY DEF ChargeKeptForSettling, f
  <2>1. CASE r.order \in DOMAIN f /\ f[r.order].transaction_id = d.transaction_id
    <3>1. PICK e \in charged :
            /\ e.transaction_id = d.transaction_id
            /\ r.entry.transaction_id \in {e.transaction_id} \cup e.earlier
      BY <1>2, <2>1 DEF EntriesAreCharges, f
    <3>2. e = d BY <3>1 DEF IdsApart
    <3> QED BY <1>2, <3>1, <3>2
  <2>2. CASE ~(r.order \in DOMAIN f /\ f[r.order].transaction_id = d.transaction_id)
    BY <1>1, <2>2 DEF ChargeKeptForSettling, f
  <2> QED BY <2>1, <2>2
<1> QED BY <1>4, <1>5, <1>6, <1>7, <1>8

\* A push, and sendTransaction().
LEMMA PushPushes ==
  ASSUME NEW rest \in SUBSET itp, NEW r, Push(rest, r), r.id = NextId
  PROVE  Pushes(r)
  BY DEF Push, Pushes, NextId

LEMMA SendPushes ==
  ASSUME NEW t, NEW pushed, sendTransaction(t, pushed)
  PROVE  PushesNone \/ \E r : Pushes(r) /\ r.cmd \notin {"CONFIRM", "CANCEL"}
<1> DEFINE q == [id |-> NextId, cmd |-> "TRANSACTION",
                 order |-> pending_payment.order_id, card |-> read[t], pin |-> pin]
<1>1. q.id = NextId /\ q.cmd = "TRANSACTION" OBVIOUS
<1>2. Push(itp, q) \/ UNCHANGED itpVars BY DEF sendTransaction
<1> HIDE DEF q
<1> QED BY <1>1, <1>2, PushPushes DEF PushesNone, itpVars

\* Each step keeps the account of charges and settlements.
LEMMA StepCharge == ChargeInv /\ [Next]_vars => ChargeInv'
<1> SUFFICES ASSUME ChargeInv, [Next]_vars PROVE ChargeInv' OBVIOUS
<1> DEFINE Other == PushesNone \/ \E r : Pushes(r) /\ r.cmd \notin {"CONFIRM", "CANCEL"}
<1>1. CASE \/ UNCHANGED vars \/ HandleClear \/ CardFlagged
           \/ \E o \in Orders : HandlePayTransaction(o)
           \/ \E t \in Threads : \/ tryProcessPendingPayment(t) \/ FrameCard(t) \/ ClearCard(t)
                               \/ FinishReset(t)
  <2>1. PushesNone /\ UNCHANGED <<order_transactions, history>>
    BY <1>1 DEF vars, HandleClear, CardFlagged, HandlePayTransaction, tryProcessPendingPayment,
                FrameCard, ClearCard, FinishReset, itpVars, history, PushesNone
  <2> QED BY <2>1, ChargeKept
<1>2. ASSUME NEW o \in Orders, NEW pushed \in BOOLEAN, HandleConfirm(o, pushed)
      PROVE  ChargeInv'
  <2>1. CASE o \in DOMAIN order_transactions /\ pushed
    BY <1>2, <2>1, ChargeSettling DEF HandleConfirm
  <2>2. CASE ~(o \in DOMAIN order_transactions /\ pushed)
    BY <1>2, <2>2, ChargeKept DEF HandleConfirm, itpVars, history, PushesNone
  <2> QED BY <2>1, <2>2
<1>3. ASSUME NEW t \in Threads, NEW pushed \in BOOLEAN, sendTransaction(t, pushed)
      PROVE  ChargeInv'
  <2>1. Other BY <1>3, SendPushes
  <2> QED BY <1>3, <2>1, ChargeKept DEF sendTransaction
<1>4. ASSUME NEW pushed \in BOOLEAN, HandleCancel(pushed) PROVE ChargeInv'
  <2> DEFINE o == pending_payment.order_id
             sent == pending_payment.active /\ o \in DOMAIN order_transactions /\ pushed
  <2>1. CASE sent BY <1>4, <2>1, ChargeSettling DEF HandleCancel
  <2>2. CASE ~sent BY <1>4, <2>2, ChargeKept DEF HandleCancel, itpVars, history, PushesNone
  <2> QED BY <2>1, <2>2
<1>5. ASSUME NEW pushed \in BOOLEAN, HandlePinEntered(pushed) PROVE ChargeInv'
  <2> DEFINE q == [id |-> NextId, cmd |-> "GET_INFO", card |-> card, pin |-> card]
  <2>1. q.id = NextId /\ q.cmd = "GET_INFO" OBVIOUS
  <2>2. Push(itp, q) \/ UNCHANGED itpVars BY <1>5 DEF HandlePinEntered
  <2> HIDE DEF q
  <2>3. Other BY <2>1, <2>2, PushPushes DEF itpVars, PushesNone
  <2> QED BY <1>5, <2>3, ChargeKept DEF HandlePinEntered
<1>6. ASSUME NEW c \in Cards, NEW selected \in BOOLEAN, NEW sent \in BOOLEAN,
             OnCardDetected(c, selected, sent)
      PROVE  ChargeInv'
  <2> DEFINE q == [id |-> NextId, cmd |-> "RESOLVE", card |-> c, selected |-> selected]
  <2>1. q.id = NextId /\ q.cmd = "RESOLVE" OBVIOUS
  <2>2. Push(itp, q) \/ UNCHANGED itpVars BY <1>6 DEF OnCardDetected
  <2> HIDE DEF q
  <2>3. Other BY <2>1, <2>2, PushPushes DEF itpVars, PushesNone
  <2> QED BY <1>6, <2>3, ChargeKept DEF OnCardDetected
<1>7. ASSUME NEW pushed \in BOOLEAN, CardAnnounced(pushed) PROVE ChargeInv'
  <2> DEFINE q == [id |-> NextId, cmd |-> "GET_INFO", card |-> card, pin |-> NoPin]
  <2>1. q.id = NextId /\ q.cmd = "GET_INFO" OBVIOUS
  <2>2. Push(itp, q) \/ UNCHANGED itpVars BY <1>7 DEF CardAnnounced
  <2> HIDE DEF q
  <2>3. Other BY <2>1, <2>2, PushPushes DEF itpVars, PushesNone
  <2> QED BY <1>7, <2>3, ChargeKept DEF CardAnnounced
<1>8. ASSUME NEW r \in itp, OnTransactionPaid(r) PROVE ChargeInv'
  BY <1>8, ChargePaid
<1>9. ASSUME NEW r \in itp, NEW b \in BOOLEAN,
             \/ OnPinRequestFailed(r) \/ OnCardResolve(r) \/ OnCardResolveFailed(r, b)
             \/ OnTransactionDeclined(r, b) \/ OnTransactionFailed(r, b) \/ OnPinReady(r, b)
             \/ \E result \in {"error", "wrong pin", "shown"} : OnBalanceResponse(r, result)
      PROVE  ChargeInv'
  <2>1. PushesNone /\ UNCHANGED <<order_transactions, history>>
    BY <1>9 DEF OnPinRequestFailed, OnCardResolve, OnCardResolveFailed, OnTransactionDeclined,
                OnTransactionFailed, OnPinReady, OnBalanceResponse, PushesNone
  <2> QED BY <2>1, ChargeKept
<1>10. ASSUME NEW r \in itp, NEW pushed \in BOOLEAN, OnPinRequired(r, pushed) PROVE ChargeInv'
  <2> DEFINE q == [id |-> NextId, cmd |-> "PIN_GET"]
  <2>1. q.id = NextId /\ q.cmd = "PIN_GET" OBVIOUS
  <2>2. Push(itp \ {r}, q) \/ (itp' = itp \ {r} /\ UNCHANGED last_id)
    BY <1>10 DEF OnPinRequired
  <2> HIDE DEF q
  <2>3. Other BY <2>1, <2>2, PushPushes DEF PushesNone
  <2> QED BY <1>10, <2>3, ChargeKept DEF OnPinRequired
<1>11. ASSUME NEW r \in itp, NEW ok \in BOOLEAN, OnConfirmResponse(r, ok) PROVE ChargeInv'
  <2>1. /\ r.cmd = "CONFIRM" /\ itp' = itp \ {r} /\ UNCHANGED <<last_id, charged, settles>>
        /\ order_transactions' = Without(order_transactions, r.order)
        /\ answered' = IF ok THEN answered \cup {r.entry.transaction_id} ELSE answered
    BY <1>11 DEF OnConfirmResponse
  <2> QED BY <2>1, ChargeSettled DEF PushesNone
<1>12. ASSUME NEW r \in itp, NEW ok \in BOOLEAN, OnCancelResponse(r, ok) PROVE ChargeInv'
  <2>1. r.cmd = "CANCEL" /\ itp' = itp \ {r} /\ UNCHANGED <<last_id, charged, settles>>
    BY <1>12 DEF OnCancelResponse
  <2>2. CASE ok
    BY <1>12, <2>1, <2>2, ChargeSettled DEF OnCancelResponse, PushesNone
  <2>3. CASE ~ok
    BY <1>12, <2>1, <2>3, ChargeKept DEF OnCancelResponse, PushesNone, history
  <2> QED BY <2>2, <2>3
<1> QED BY <1>1, <1>2, <1>3, <1>4, <1>5, <1>6, <1>7, <1>8, <1>9, <1>10, <1>11, <1>12
        DEF Next, CoreNext, PollNext, ThreadNext

LEMMA Charges == Spec => []ChargeInv
  BY InitCharge, StepCharge, PTL DEF Spec

\* A confirm or cancel names a transaction charged for its own order, for any
\* number of orders and however their answers interleave.
THEOREM OwnTransactionSettled == Spec => []SettlesOwnTransaction
<1>1. ChargeInv => SettlesOwnTransaction BY DEF ChargeInv
<1> QED BY <1>1, Charges, PTL

\* No charge is lost before a confirm or a cancel names it, except where an order
\* was charged twice: then a later charge displaces an earlier one, or goes when
\* the earlier one is settled.
THEOREM ChargesKept == Spec => []ChargeKeptForSettling
<1>1. ChargeInv => ChargeKeptForSettling BY DEF ChargeInv
<1> QED BY <1>1, Charges, PTL

\* A transaction whose settlement the terminal accepted is not settled again.
THEOREM SettledIsFinal == Spec => NoSettleAfterAnswer
<1> DEFINE A == \A s \in settles' \ settles : s.entry.transaction_id \notin answered
<1>1. ChargeInv /\ [Next]_vars => [A]_vars
  <2> SUFFICES ASSUME ChargeInv, Next, NEW s \in settles', s \notin settles
               PROVE  s.entry.transaction_id \notin answered
    OBVIOUS
  <2>1. CASE UNCHANGED settles BY <2>1
  <2>2. ASSUME NEW o \in Orders, NEW pushed \in BOOLEAN, HandleConfirm(o, pushed)
        PROVE  \/ UNCHANGED settles
               \/ o \in DOMAIN order_transactions /\ s = SettleRequest("CONFIRM", o)
    BY <2>2 DEF HandleConfirm
  <2>3. ASSUME NEW pushed \in BOOLEAN, HandleCancel(pushed)
        PROVE  \/ UNCHANGED settles
               \/ \E o \in DOMAIN order_transactions : s = SettleRequest("CANCEL", o)
    BY <2>3 DEF HandleCancel
  <2>4. \/ UNCHANGED settles
        \/ \E o \in Orders, pushed \in BOOLEAN : HandleConfirm(o, pushed)
        \/ \E pushed \in BOOLEAN : HandleCancel(pushed)
    BY ZenonT(60)
       DEF Next, CoreNext, PollNext, ThreadNext, HandleClear, HandlePayTransaction,
           tryProcessPendingPayment, FrameCard, ClearCard, FinishReset, sendTransaction,
           HandlePinEntered, OnCardDetected, OnCardResolve, CardFlagged, CardAnnounced,
           OnCardResolveFailed,
           OnTransactionPaid, OnPinRequestFailed, OnTransactionDeclined, OnTransactionFailed,
           OnPinRequired, OnConfirmResponse, OnCancelResponse, OnBalanceResponse, OnPinReady,
           history
  <2>5. \/ UNCHANGED settles
        \/ \E o \in DOMAIN order_transactions, cmd \in {"CONFIRM", "CANCEL"} :
             s = SettleRequest(cmd, o)
    BY <2>2, <2>3, <2>4
  <2>6. ASSUME NEW o \in DOMAIN order_transactions, NEW cmd, s = SettleRequest(cmd, o)
        PROVE  s.entry.transaction_id \notin answered
    BY <2>6 DEF SettleRequest, ChargeInv, EntriesAreCharges
  <2> QED BY <2>1, <2>5, <2>6
<1> QED BY <1>1, Charges, PTL DEF Spec, NoSettleAfterAnswer

-----------------------------------------------------------------------------
(* The pending payment.                                                    *)

\* A payment is pending only for an order that was asked for, and no longer for
\* one that was cancelled, once the handler of the cancel has cleared the card:
\* since PrimeLogic asks once per order, it cannot become pending again.
PendingInv ==
  /\ at \in [Threads -> Steps]
  /\ pending_payment.active => pending_payment.order_id \in requested
  /\ \A s \in settles : s.cmd = "CANCEL" =>
       /\ s.order \in requested
       /\ \/ pending_payment.active => pending_payment.order_id # s.order
          \/ at["core"] \in {"clear", "reset"}
  /\ CancelledAtMostOnce

\* Nothing is pending.
LEMMA InitPending == Init => PendingInv
  BY DEF Init, PendingInv, CancelledAtMostOnce, Threads, Steps

\* The payment stays or is switched off, nothing is cancelled, and the core thread
\* does not leave the handler of a cancel.
LEMMA PendingKept ==
  ASSUME PendingInv, requested' = requested, at' \in [Threads -> Steps],
         \A s \in settles' : s \in settles \/ s.cmd # "CANCEL",
         \/ ~pending_payment'.active
         \/ /\ pending_payment' = pending_payment
            /\ at["core"] \in {"clear", "reset"} => at'["core"] \in {"clear", "reset"}
  PROVE  PendingInv'
<1>1. CancelledAtMostOnce' BY DEF PendingInv, CancelledAtMostOnce
<1> QED BY <1>1 DEF PendingInv

\* The record can be switched off.
Payment == pending_payment = [active |-> pending_payment.active,
                              order_id |-> pending_payment.order_id]

LEMMA Off == Payment /\ Deactivated => ~pending_payment'.active /\ Payment'
  BY DEF Payment, Deactivated

\* Each step but the cancel keeps or switches off the payment, or begins one for
\* an order that is new.
LEMMA StepPending ==
  Payment /\ PendingInv /\ CardTypes' /\ [Next]_vars => Payment' /\ PendingInv'
<1> SUFFICES ASSUME Payment, PendingInv, CardTypes', [Next]_vars PROVE Payment' /\ PendingInv'
  OBVIOUS
<1> DEFINE Kept == \/ Deactivated
                   \/ /\ pending_payment' = pending_payment
                      /\ at["core"] \in {"clear", "reset"} => at'["core"] \in {"clear", "reset"}
<1>0. at \in [Threads -> Steps] /\ at' \in [Threads -> Steps] BY DEF PendingInv, CardTypes
<1>a. Kept => /\ Payment'
              /\ \/ ~pending_payment'.active
                 \/ /\ pending_payment' = pending_payment
                    /\ at["core"] \in {"clear", "reset"} => at'["core"] \in {"clear", "reset"}
  BY Off DEF Payment
<1>1. ASSUME NEW o \in Orders, HandlePayTransaction(o) PROVE Payment' /\ PendingInv'
  <2>1. /\ o \notin requested /\ requested' = requested \cup {o} /\ UNCHANGED settles
        /\ pending_payment' = [active |-> TRUE, order_id |-> o]
    BY <1>1 DEF HandlePayTransaction, history
  <2>2. CancelledAtMostOnce' BY <2>1 DEF PendingInv, CancelledAtMostOnce
  <2> QED BY <1>0, <2>1, <2>2 DEF PendingInv, Payment
<1>2. ASSUME NEW pushed \in BOOLEAN, HandleCancel(pushed) PROVE Payment' /\ PendingInv'
  <2> DEFINE o == pending_payment.order_id
             q == SettleRequest("CANCEL", o)
  <2>1. /\ UNCHANGED <<requested, pending_payment>>
        /\ at["core"] = "idle" /\ at' = [at EXCEPT !["core"] = "clear"]
    BY <1>2 DEF HandleCancel, GoTo, CoreThread
  <2>2. at'["core"] = "clear" BY <1>0, <2>1 DEF Threads
  <2>3. CASE settles' = settles BY <1>0, <1>a, <2>1, <2>2, <2>3, PendingKept
  <2>4. CASE settles' = settles \cup {q} /\ pending_payment.active
    <3>1. q.cmd = "CANCEL" /\ q.order = o BY DEF SettleRequest
    <3> HIDE DEF q
    <3>2. \A s \in settles : s.cmd = "CANCEL" => s.order # o BY <2>1, <2>4 DEF PendingInv
    <3>3. CancelledAtMostOnce' BY <2>4, <3>1, <3>2 DEF PendingInv, CancelledAtMostOnce
    <3>4. o \in requested BY <2>4 DEF PendingInv
    <3> QED BY <1>0, <2>1, <2>2, <2>4, <3>1, <3>3, <3>4 DEF PendingInv, Payment
  <2> QED BY <1>2, <2>3, <2>4 DEF HandleCancel
<1>3. ASSUME NEW o \in Orders, NEW pushed \in BOOLEAN, HandleConfirm(o, pushed)
      PROVE  Payment' /\ PendingInv'
  <2>1. \A s \in settles' : s \in settles \/ s.cmd = "CONFIRM"
    BY <1>3 DEF HandleConfirm, SettleRequest
  <2> QED BY <1>0, <1>a, <1>3, <2>1, PendingKept DEF HandleConfirm
<1>4. ASSUME NEW t \in Threads, NEW pushed \in BOOLEAN,
             \/ tryProcessPendingPayment(t) \/ FrameCard(t) \/ ClearCard(t) \/ FinishReset(t)
             \/ sendTransaction(t, pushed)
      PROVE  Kept /\ UNCHANGED <<requested, settles>>
  <2>1. CASE FinishReset(t) BY <2>1 DEF FinishReset, history
  <2>2. CASE tryProcessPendingPayment(t)
    <3>1. /\ at[t] = "try" /\ \E step \in {"idle", "card"} : at' = [at EXCEPT ![t] = step]
          /\ UNCHANGED <<pending_payment, requested, settles>>
      BY <2>2 DEF tryProcessPendingPayment, GoTo, history
    <3> QED BY <1>0, <3>1 DEF Threads
  <2>3. CASE FrameCard(t)
    <3>1. /\ at[t] = "card" /\ at' = [at EXCEPT ![t] = "pin"]
          /\ UNCHANGED <<pending_payment, requested, settles>>
      BY <2>3 DEF FrameCard, GoTo, history
    <3> QED BY <1>0, <3>1 DEF Threads
  <2>4. CASE ClearCard(t)
    <3>1. /\ at[t] = "clear" /\ at' = [at EXCEPT ![t] = "reset"]
          /\ UNCHANGED <<pending_payment, requested, settles>>
      BY <2>4 DEF ClearCard, resetCardState, GoTo, history
    <3> QED BY <1>0, <3>1 DEF Threads
  <2>5. CASE sendTransaction(t, pushed)
    <3>1. /\ at[t] = "pin" /\ \E step \in {"idle", "reset"} : at' = [at EXCEPT ![t] = step]
          /\ UNCHANGED <<pending_payment, requested, settles>>
      BY <2>5 DEF sendTransaction, resetCardState, GoTo, history
    <3> QED BY <1>0, <3>1 DEF Threads
  <2> QED BY <1>4, <2>1, <2>2, <2>3, <2>4, <2>5
<1>5. ASSUME \/ UNCHANGED vars \/ HandleClear \/ \E pushed \in BOOLEAN : HandlePinEntered(pushed)
      PROVE  Kept /\ UNCHANGED <<requested, settles>>
  BY <1>0, <1>5 DEF vars, HandleClear, HandlePinEntered, resetCardState, CoreThread, history
<1>6. ASSUME \/ \E c \in Cards, selected, sent \in BOOLEAN : OnCardDetected(c, selected, sent)
             \/ CardFlagged \/ \E pushed \in BOOLEAN : CardAnnounced(pushed)
      PROVE  Kept /\ UNCHANGED <<requested, settles>>
  <2>1. /\ at' = at \/ \E step \in Steps : at' = [at EXCEPT !["poll"] = step]
        /\ UNCHANGED <<pending_payment, requested, settles>>
    BY <1>6 DEF OnCardDetected, CardFlagged, CardAnnounced, GoTo, Steps, history
  <2> QED BY <1>0, <2>1 DEF Threads
<1>7. ASSUME NEW r \in itp, NEW b \in BOOLEAN,
             \/ OnTransactionPaid(r) \/ OnPinRequestFailed(r) \/ OnPinReady(r, b)
             \/ OnCardResolve(r) \/ OnCardResolveFailed(r, b)
             \/ OnTransactionDeclined(r, b) \/ OnTransactionFailed(r, b) \/ OnPinRequired(r, b)
             \/ OnConfirmResponse(r, b) \/ OnCancelResponse(r, b)
             \/ \E result \in {"error", "wrong pin", "shown"} : OnBalanceResponse(r, result)
      PROVE  Kept /\ UNCHANGED <<requested, settles>>
  <2>1. at' = at \/ \E step \in Steps : at' = [at EXCEPT !["poll"] = step]
    BY <1>7 DEF OnTransactionPaid, OnPinRequestFailed, OnPinReady, OnCardResolve,
                OnCardResolveFailed, OnTransactionDeclined, OnTransactionFailed, OnPinRequired,
                OnConfirmResponse, OnCancelResponse, OnBalanceResponse, resetCardState, GoTo,
                Steps
  <2>2. at'["core"] = at["core"] BY <1>0, <2>1 DEF Threads
  <2>3. /\ pending_payment' = pending_payment \/ Deactivated
        /\ UNCHANGED <<requested, settles>>
    BY <1>7 DEF OnTransactionPaid, OnPinRequestFailed, OnPinReady, OnCardResolve,
                OnCardResolveFailed, OnTransactionDeclined, OnTransactionFailed, OnPinRequired,
                OnConfirmResponse, OnCancelResponse, OnBalanceResponse, resetCardState, history
  <2> QED BY <2>2, <2>3
<1>8. CASE Kept /\ UNCHANGED <<requested, settles>>
  BY <1>0, <1>a, <1>8, PendingKept
<1> QED BY <1>1, <1>2, <1>3, <1>4, <1>5, <1>6, <1>7, <1>8
        DEF Next, CoreNext, PollNext, ThreadNext

\* The money of an order is returned at most once, for any number of touches of
\* the cancel button.
THEOREM CancelledOnce == Spec => []CancelledAtMostOnce
<1>1. Init => Payment BY DEF Init, Payment
<1>2. PendingInv => CancelledAtMostOnce BY DEF PendingInv
<1>3. CardInv => CardTypes BY DEF CardInv
<1> QED BY <1>1, <1>2, <1>3, InitCard, StepCard, InitPending, StepPending, PTL DEF Spec
=============================================================================
