----------------------------- MODULE ArkaimLogic -----------------------------
(***************************************************************************)
(* The payment side of the terminal (src/logic/ArkaimLogic): cards are     *)
(* tapped, resolved and asked for their balance, an order is charged       *)
(* (PAY_TRANSACTION), and the charge is later confirmed with the delivered *)
(* volume (PAY_CONFIRM) or returned (PAY_CANCEL).                          *)
(*                                                                         *)
(* Two threads run this class: the core thread, through handle(), and the  *)
(* poll thread, through the callbacks of the ITP library.  One action is   *)
(* one call of handle() or one callback, up to the places where the other  *)
(* thread's writes to card, PIN and payment make a difference: the mutex   *)
(* covers only the payment's test and what follows it, never the card, so  *)
(* tryProcessPendingPayment(), sendTransaction(), resetCardState() and     *)
(* onCardResolve() take several steps each.  `at' says where a thread is.  *)
(*                                                                         *)
(* What PrimeLogic does synchronously inside a callback is part of the     *)
(* callback's action.  What PrimeLogic promises as a caller, one payment   *)
(* per order, is in the variable `requested'.  It does not promise one     *)
(* confirmation per order (ConfirmedOnce in PrimeLogic): PAY_CONFIRM may   *)
(* come at any time, and again.                                            *)
(***************************************************************************)
EXTENDS Naturals, FiniteSets

CONSTANTS
  Orders,       \* order ids of the forecourt controller
  Cards,        \* fuel cards
  NoCard,       \* card_number and card_data empty
  NoPin,        \* pin_data empty
  NoOrder,      \* pending_payment.order_id before the first order
  MaxRequests,  \* bound: ITP requests pushed in a behaviour
  MaxWithPinpad \* the same where there is a PIN pad

ASSUME NoCardAssumption == NoCard \notin Cards /\ NoPin \notin Cards \cup {NoCard}
ASSUME NoOrderAssumption == NoOrder \notin Orders
ASSUME MaxRequestsAssumption ==
  MaxRequests \in Nat /\ MaxWithPinpad \in 0..MaxRequests

VARIABLES
  has_pinpad,               \* did the terminal's API list name a PIN pad
  card_resolved,
  card_resolve_in_progress,
  card,                     \* card_number, card_data and the reader fields
  pin,                      \* whose PIN pin_data holds: the card it was typed for
  waiting_pin_for_balance,
  pending_payment,          \* active and order_id (transaction_time goes with it)
  order_transactions,       \* ActiveOrder of each order in the map
  at,                       \* where each thread is (see Steps)
  read,                     \* the card that sendTransaction() wrote into its frame
  mutex,                    \* the thread that holds the mutex, or NoThread
  itp,                      \* requests waiting for the terminal's answer
  last_id,                  \* how many requests were pushed (bounded by MaxRequests)
  requested,                \* orders PrimeLogic asked payment for (createPayment)
  charged,                  \* history: transactions the terminal reported as paid
  settles,                  \* history: confirm and cancel requests pushed
  answered,                 \* history: transactions with a successful settlement
  tap_selected,             \* was a dispenser chosen when this card was tapped
  misread                   \* history: an answer to RESOLVE could not be parsed

cardVars == <<card_resolved, card_resolve_in_progress, card, pin, tap_selected>>
tryVars  == <<read, mutex>>
itpVars  == <<itp, last_id>>
history  == <<charged, settles, answered>>
vars == <<has_pinpad, cardVars, waiting_pin_for_balance, pending_payment, order_transactions,
          at, tryVars, itpVars, requested, history, misread>>

CardOrNone == Cards \cup {NoCard}
PinOrNone  == CardOrNone \cup {NoPin}
OrderOrNone == Orders \cup {NoOrder}
Ids == 1..MaxRequests

\* struct ActiveOrder; `paid_for' is the order whose transaction_time it holds.
ActiveOrder == [transaction_id : Ids, card : CardOrNone, paid_for : OrderOrNone]

Resolve     == [id : Ids, cmd : {"RESOLVE"}, card : Cards, selected : BOOLEAN]
Transaction == [id : Ids, cmd : {"TRANSACTION"}, order : Orders, card : CardOrNone, pin : PinOrNone]
Balance     == [id : Ids, cmd : {"GET_INFO"}, card : CardOrNone, pin : PinOrNone]
PinGet      == [id : Ids, cmd : {"PIN_GET"}]
Settle      == [id : Ids, cmd : {"CONFIRM", "CANCEL"}, order : Orders, entry : ActiveOrder]
\* A charge, and the transactions charged for the order before it.
Charge      == [transaction_id : Ids, order : Orders, card : CardOrNone, earlier : SUBSET Ids]

Threads == {"core", "poll"}
NoThread == "none"
Steps == {"idle",      \* between two calls
          "try",       \* about to call tryProcessPendingPayment()
          "card",      \* sendTransaction() is about to read the card
          "pin",       \* sendTransaction() has read the card, the PIN is next
          "clear",     \* about to call resetCardState()
          "reset",     \* resetCardState() has still to clear PIN and payment
          "named",     \* onCardResolve() has stored the card, not yet the flag
          "flagged"}   \* onCardResolve() has still to clear the PIN

TypeOK ==
  /\ has_pinpad \in BOOLEAN
  /\ card_resolved \in BOOLEAN
  /\ card_resolve_in_progress \in BOOLEAN
  /\ card \in CardOrNone
  /\ pin \in PinOrNone
  /\ waiting_pin_for_balance \in BOOLEAN
  /\ pending_payment \in [active : BOOLEAN, order_id : OrderOrNone]
  /\ DOMAIN order_transactions \subseteq Orders
  /\ \A o \in DOMAIN order_transactions : order_transactions[o] \in ActiveOrder
  /\ at \in [Threads -> Steps] /\ read \in [Threads -> CardOrNone]
  /\ mutex \in Threads \cup {NoThread}
  /\ itp \subseteq (Resolve \cup Transaction \cup Balance \cup PinGet \cup Settle)
  /\ last_id \in 0..MaxRequests
  /\ requested \subseteq Orders
  /\ charged \subseteq Charge
  /\ settles \subseteq Settle
  /\ answered \subseteq Ids
  /\ tap_selected \in BOOLEAN /\ misread \in BOOLEAN

\* The API list was read: onGetApiList() sets has_pinpad before any card comes.
Init ==
  /\ has_pinpad \in BOOLEAN
  /\ card_resolved = FALSE
  /\ card_resolve_in_progress = FALSE
  /\ card = NoCard
  /\ pin = NoPin
  /\ waiting_pin_for_balance = FALSE
  /\ pending_payment = [active |-> FALSE, order_id |-> NoOrder]
  /\ order_transactions = [o \in {} |-> NoCard]
  /\ at = [t \in Threads |-> "idle"]
  /\ read = [t \in Threads |-> NoCard]
  /\ mutex = NoThread
  /\ itp = {}
  /\ last_id = 0
  /\ requested = {}
  /\ charged = {}
  /\ settles = {}
  /\ answered = {}
  /\ tap_selected = TRUE
  /\ misread = FALSE

-----------------------------------------------------------------------------
(* Helpers.                                                                *)

CoreThread == at["core"] = "idle"
PollThread == at["poll"] = "idle"
GoTo(t, step) == at' = [at EXCEPT ![t] = step]

\* node_.push_request(): r gets the next id and waits for its answer; a
\* request that answers another one replaces it.
Push(rest, r) ==
  /\ last_id < (IF has_pinpad THEN MaxWithPinpad ELSE MaxRequests)
  /\ last_id' = last_id + 1
  /\ itp' = rest \cup {r}

NextId == last_id + 1

Deactivated == pending_payment' = [pending_payment EXCEPT !.active = FALSE]

\* Mutant: the reset also forgets that a card is being resolved.
resetCardState_Forgets(t) ==
  /\ card_resolved' = FALSE
  /\ card' = NoCard
  /\ card_resolve_in_progress' = FALSE
  /\ GoTo(t, "reset")
  /\ UNCHANGED <<pin, tap_selected, pending_payment>>

\* resetCardState(), which takes no mutex, on thread t: first the card ...
resetCardState(t) ==
  /\ card_resolved' = FALSE
  /\ card' = NoCard
  /\ GoTo(t, "reset")
  /\ UNCHANGED <<card_resolve_in_progress, pin, tap_selected, pending_payment>>

\* A lock_guard is left.
Unlocked(t) == mutex' = IF mutex = t THEN NoThread ELSE mutex

\* Mutant: the PIN outlives the card.
FinishReset_KeepsPin(t) ==
  /\ at[t] = "reset"
  /\ Deactivated
  /\ GoTo(t, "idle")
  /\ Unlocked(t)
  /\ UNCHANGED <<cardVars, read, waiting_pin_for_balance, order_transactions, itpVars,
                 requested, history, misread>>

\* ... then PIN and payment.
FinishReset(t) ==
  /\ at[t] = "reset"
  /\ pin' = NoPin
  /\ Deactivated
  /\ GoTo(t, "idle")
  /\ Unlocked(t)
  /\ UNCHANGED <<card_resolved, card_resolve_in_progress, card, tap_selected, read,
                 waiting_pin_for_balance, order_transactions, itpVars, requested, history,
                 misread>>

\* tryProcessPendingPayment() on thread t, up to the call of sendTransaction().
tryProcessPendingPayment(t) ==
  /\ at[t] = "try" /\ mutex = NoThread
  /\ \/ /\ pending_payment.active /\ card_resolved
        /\ mutex' = t
        /\ GoTo(t, "card")
     \/ /\ ~(pending_payment.active /\ card_resolved)
        /\ GoTo(t, "idle")
        /\ UNCHANGED mutex
  /\ UNCHANGED <<cardVars, read, pending_payment, waiting_pin_for_balance, order_transactions,
                 itpVars, requested, history, misread>>

\* sendTransaction() writes card_number and card_data into the frame ...
FrameCard(t) ==
  /\ at[t] = "card"
  /\ read' = [read EXCEPT ![t] = card]
  /\ GoTo(t, "pin")
  /\ UNCHANGED <<cardVars, mutex, pending_payment, waiting_pin_for_balance, order_transactions,
                 itpVars, requested, history, misread>>

\* ... then pin_data, and pushes it for the pending order.  When it cannot be
\* pushed, PrimeLogic is told that the payment failed and clears the card.
sendTransaction(t, pushed) ==
  /\ at[t] = "pin"
  /\ \/ /\ pushed
        /\ Push(itp, [id |-> NextId, cmd |-> "TRANSACTION",
                      order |-> pending_payment.order_id, card |-> read[t], pin |-> pin])
        /\ GoTo(t, "idle")
        /\ Unlocked(t)
        /\ UNCHANGED <<cardVars, pending_payment>>
     \/ /\ ~pushed
        /\ resetCardState(t)
        /\ UNCHANGED <<mutex, itpVars>>
  /\ read' = [read EXCEPT ![t] = NoCard]
  /\ UNCHANGED <<waiting_pin_for_balance, order_transactions, requested, history, misread>>

\* The request that confirms or cancels order o.
SettleRequest(cmd, o) ==
  [id |-> NextId, cmd |-> cmd, order |-> o, entry |-> order_transactions[o]]

Without(f, o) == [x \in DOMAIN f \ {o} |-> f[x]]
With(f, o, v) == [x \in DOMAIN f \cup {o} |-> IF x = o THEN v ELSE f[x]]

-----------------------------------------------------------------------------
(* handle(): messages from PrimeLogic, on the core thread.                 *)

\* CLEAR_CARD_DATA_REQUEST.
HandleClear ==
  /\ CoreThread
  /\ resetCardState("core")
  /\ UNCHANGED <<waiting_pin_for_balance, order_transactions, tryVars, itpVars,
                 requested, history, misread>>

\* PAY_TRANSACTION up to the end of the locked block.  createPayment() sends
\* it once per order.
HandlePayTransaction(o) ==
  /\ CoreThread /\ mutex = NoThread
  /\ o \notin requested
  /\ requested' = requested \cup {o}
  /\ pending_payment' = [active |-> TRUE, order_id |-> o]
  /\ GoTo("core", "try")
  /\ UNCHANGED <<cardVars, waiting_pin_for_balance, order_transactions, tryVars,
                 itpVars, history, misread>>

\* PAY_CONFIRM of processOrderFinalization().
HandleConfirm(o, pushed) ==
  /\ CoreThread
  /\ \/ /\ o \in DOMAIN order_transactions /\ pushed
        /\ Push(itp, SettleRequest("CONFIRM", o))
        /\ settles' = settles \cup {SettleRequest("CONFIRM", o)}
     \/ /\ o \notin DOMAIN order_transactions \/ ~pushed
        /\ UNCHANGED <<itpVars, settles>>
  /\ UNCHANGED <<cardVars, waiting_pin_for_balance, pending_payment, order_transactions,
                 at, tryVars, requested, charged, answered, misread>>

\* Mutant: the payment is left pending.
HandleCancel_KeepsPending(pushed) ==
  LET o == pending_payment.order_id
      sent == pending_payment.active /\ o \in DOMAIN order_transactions /\ pushed
  IN  /\ CoreThread /\ mutex = NoThread
      /\ \/ /\ sent
            /\ Push(itp, SettleRequest("CANCEL", o))
            /\ settles' = settles \cup {SettleRequest("CANCEL", o)}
         \/ /\ ~sent
            /\ UNCHANGED <<itpVars, settles>>
      /\ UNCHANGED <<cardVars, pending_payment, waiting_pin_for_balance, order_transactions, at,
                     tryVars, requested, charged, answered, misread>>

\* The customer's cancel button.  PrimeLogic sends no payload, so the order
\* is taken from pending_payment, under the mutex; in the same handler,
\* afterwards, PrimeLogic clears the card.
HandleCancel(pushed) ==
  LET o == pending_payment.order_id
      sent == pending_payment.active /\ o \in DOMAIN order_transactions /\ pushed
  IN  /\ CoreThread /\ mutex = NoThread
      /\ \/ /\ sent
            /\ Push(itp, SettleRequest("CANCEL", o))
            /\ settles' = settles \cup {SettleRequest("CANCEL", o)}
         \/ /\ ~sent
            /\ UNCHANGED <<itpVars, settles>>
      /\ GoTo("core", "clear")
      /\ UNCHANGED <<cardVars, pending_payment, waiting_pin_for_balance, order_transactions,
                     tryVars, requested, charged, answered, misread>>

\* PrimeLogic, told of a cancel or of a PIN that cannot be read, clears the card.
ClearCard(t) ==
  /\ at[t] = "clear"
  /\ resetCardState(t)
  /\ UNCHANGED <<waiting_pin_for_balance, order_transactions, tryVars, itpVars, requested,
                 history, misread>>

\* PAY_PIN_ENTERED: the PIN was typed on the display for the current card.
HandlePinEntered(pushed) ==
  /\ CoreThread
  /\ waiting_pin_for_balance' = FALSE
  /\ pin' = card
  /\ \/ /\ waiting_pin_for_balance
        /\ \/ /\ pushed
              /\ Push(itp, [id |-> NextId, cmd |-> "GET_INFO", card |-> card, pin |-> card])
           \/ /\ ~pushed
              /\ UNCHANGED itpVars
        /\ UNCHANGED at
     \/ /\ ~waiting_pin_for_balance
        /\ pushed
        /\ GoTo("core", "try")
        /\ UNCHANGED itpVars
  /\ UNCHANGED <<card_resolved, card_resolve_in_progress, card, tap_selected, pending_payment,
                 order_transactions, tryVars, requested, history, misread>>

-----------------------------------------------------------------------------
(* Callbacks of the ITP library, on the poll thread.                       *)

\* onCardDetected().  PrimeLogic is told only if no card number is known; it
\* clears the card state if no dispenser is chosen.  The request is not sent
\* when the event cannot be read, no controller is known or the push fails.
OnCardDetected(c, selected, sent) ==
  /\ PollThread
  /\ ~card_resolved /\ ~card_resolve_in_progress /\ ~pending_payment.active
  /\ card_resolve_in_progress' = TRUE
  /\ \/ /\ card = NoCard /\ ~selected
        /\ GoTo("poll", "reset")
     \/ /\ card = NoCard /\ ~selected => ~sent
        /\ UNCHANGED at
  /\ \/ /\ sent
        /\ Push(itp, [id |-> NextId, cmd |-> "RESOLVE", card |-> c, selected |-> selected])
     \/ /\ ~sent
        /\ UNCHANGED itpVars
  /\ UNCHANGED <<card_resolved, card, pin, tap_selected, pending_payment,
                 waiting_pin_for_balance, order_transactions, tryVars, requested, history,
                 misread>>

\* onCardResolve() without error: the card ...
OnCardResolve(r) ==
  /\ PollThread
  /\ r \in itp /\ r.cmd = "RESOLVE"
  /\ itp' = itp \ {r}
  /\ card_resolve_in_progress' = FALSE
  /\ card' = r.card
  /\ tap_selected' = r.selected
  /\ GoTo("poll", "named")
  /\ UNCHANGED <<card_resolved, pin, waiting_pin_for_balance, pending_payment,
                 order_transactions, tryVars, last_id, requested, history, misread>>

\* ... then the flag ...
CardFlagged ==
  /\ at["poll"] = "named"
  /\ card_resolved' = TRUE
  /\ GoTo("poll", "flagged")
  /\ UNCHANGED <<card_resolve_in_progress, card, pin, tap_selected, waiting_pin_for_balance,
                 pending_payment, order_transactions, tryVars, itpVars, requested, history,
                 misread>>

\* ... and the rest, up to the call of tryProcessPendingPayment(): PrimeLogic
\* answers PAY_CARD_RESOLVED by asking for the balance at once, unless the card
\* has been reset meanwhile.
CardAnnounced(pushed) ==
  /\ at["poll"] = "flagged"
  /\ pin' = NoPin
  /\ \/ /\ pushed /\ card_resolved
        /\ Push(itp, [id |-> NextId, cmd |-> "GET_INFO", card |-> card, pin |-> NoPin])
     \/ /\ ~(pushed /\ card_resolved)
        /\ UNCHANGED itpVars
  /\ GoTo("poll", "try")
  /\ UNCHANGED <<card_resolved, card_resolve_in_progress, card, tap_selected,
                 waiting_pin_for_balance, pending_payment, order_transactions, tryVars,
                 requested, history, misread>>

\* onCardResolve() with an error code, or with an answer that cannot be
\* parsed: then card_number may or may not have been overwritten.
OnCardResolveFailed(r, parse) ==
  /\ PollThread
  /\ r \in itp /\ r.cmd = "RESOLVE"
  /\ itp' = itp \ {r}
  /\ card_resolve_in_progress' = FALSE
  /\ \/ /\ parse
        /\ card' \in {card, r.card}
        /\ misread' = TRUE
        /\ UNCHANGED <<card_resolved, at>>
     \/ /\ ~parse
        /\ card_resolved' = FALSE /\ card' = NoCard
        /\ GoTo("poll", "reset")
        /\ UNCHANGED misread
  /\ UNCHANGED <<pin, tap_selected, pending_payment, waiting_pin_for_balance,
                 order_transactions, tryVars, last_id, requested, history>>

NewCharge(r) ==
  [transaction_id |-> r.id, order |-> r.order, card |-> r.card,
   earlier |-> {c.transaction_id : c \in {d \in charged : d.order = r.order}}]

\* Mutant: the entry is filed under the pending order instead of the captured one.
OnTransactionPaid_UnderPending(r) ==
  /\ PollThread
  /\ r \in itp /\ r.cmd = "TRANSACTION"
  /\ itp' = itp \ {r}
  /\ order_transactions' =
       With(order_transactions, pending_payment.order_id,
            [transaction_id |-> r.id, card |-> card, paid_for |-> pending_payment.order_id])
  /\ charged' = charged \cup {NewCharge(r)}
  /\ UNCHANGED <<cardVars, waiting_pin_for_balance, pending_payment, at, tryVars, last_id,
                 requested, settles, answered, misread>>

\* onTransactionResponse(), CL2_PAY_ERR_NONE.
OnTransactionPaid(r) ==
  /\ PollThread
  /\ r \in itp /\ r.cmd = "TRANSACTION"
  /\ itp' = itp \ {r}
  /\ order_transactions' =
       With(order_transactions, r.order,
            [transaction_id |-> r.id, card |-> card, paid_for |-> pending_payment.order_id])
  /\ charged' = charged \cup {NewCharge(r)}
  /\ UNCHANGED <<cardVars, waiting_pin_for_balance, pending_payment, at, tryVars, last_id,
                 requested, settles, answered, misread>>

\* onTransactionResponse(), a wrong PIN or not enough money: the payment stays
\* pending.  PrimeLogic clears the card unless the terminal's text is the one
\* it knows as "wrong PIN".
OnTransactionDeclined(r, cleared) ==
  /\ PollThread
  /\ r \in itp /\ r.cmd = "TRANSACTION"
  /\ itp' = itp \ {r}
  /\ \/ cleared /\ resetCardState("poll")
     \/ ~cleared /\ UNCHANGED <<cardVars, pending_payment, at>>
  /\ UNCHANGED <<waiting_pin_for_balance, order_transactions, tryVars, last_id, requested, history, misread>>

\* onTransactionResponse(), any other error: the payment is dropped, and
\* PrimeLogic clears the card unless the text is "wrong PIN".
OnTransactionFailed(r, cleared) ==
  /\ PollThread
  /\ r \in itp /\ r.cmd = "TRANSACTION"
  /\ itp' = itp \ {r}
  /\ \/ cleared /\ resetCardState("poll")
     \/ ~cleared /\ Deactivated /\ UNCHANGED <<cardVars, at>>
  /\ UNCHANGED <<waiting_pin_for_balance, order_transactions, tryVars, last_id, requested, history, misread>>

\* processPinRequired(), for a payment or for a balance request: without a
\* PIN pad the display asks for the PIN.
OnPinRequired(r, pushed) ==
  /\ PollThread
  /\ r \in itp /\ r.cmd \in {"TRANSACTION", "GET_INFO"}
  /\ \/ /\ ~has_pinpad
        /\ pushed
        /\ waiting_pin_for_balance' = (waiting_pin_for_balance \/ r.cmd = "GET_INFO")
        /\ itp' = itp \ {r}
        /\ UNCHANGED <<cardVars, pending_payment, last_id, at>>
     \/ /\ has_pinpad /\ pushed
        /\ Push(itp \ {r}, [id |-> NextId, cmd |-> "PIN_GET"])
        /\ UNCHANGED <<cardVars, pending_payment, waiting_pin_for_balance, at>>
     \/ /\ has_pinpad /\ ~pushed /\ r.cmd = "TRANSACTION"
        /\ waiting_pin_for_balance' = FALSE
        /\ itp' = itp \ {r}
        /\ resetCardState("poll")
        /\ UNCHANGED last_id
  /\ UNCHANGED <<order_transactions, tryVars, requested, history, misread>>

\* onConfirmResponse(): the same end whether or not the terminal accepted.
OnConfirmResponse(r, ok) ==
  /\ PollThread
  /\ r \in itp /\ r.cmd = "CONFIRM"
  /\ itp' = itp \ {r}
  /\ Deactivated
  /\ order_transactions' = Without(order_transactions, r.order)
  /\ answered' = IF ok THEN answered \cup {r.entry.transaction_id} ELSE answered
  /\ UNCHANGED <<cardVars, waiting_pin_for_balance, at, tryVars, last_id, requested,
                 charged, settles, misread>>

\* Mutant: a cancelled order stays in the map.
OnCancelResponse_KeepsOrder(r, ok) ==
  /\ PollThread
  /\ r \in itp /\ r.cmd = "CANCEL"
  /\ itp' = itp \ {r}
  /\ answered' = IF ok THEN answered \cup {r.entry.transaction_id} ELSE answered
  /\ UNCHANGED <<cardVars, pending_payment, order_transactions, waiting_pin_for_balance,
                 at, tryVars, last_id, requested, charged, settles, misread>>

\* onCancelResponse(): an error changes nothing.
OnCancelResponse(r, ok) ==
  /\ PollThread
  /\ r \in itp /\ r.cmd = "CANCEL"
  /\ itp' = itp \ {r}
  /\ \/ /\ ok
        /\ Deactivated
        /\ order_transactions' = Without(order_transactions, r.order)
        /\ answered' = answered \cup {r.entry.transaction_id}
     \/ /\ ~ok
        /\ UNCHANGED <<pending_payment, order_transactions, answered>>
  /\ UNCHANGED <<cardVars, waiting_pin_for_balance, at, tryVars, last_id, requested,
                 charged, settles, misread>>

\* onGetBalanceResponse(): a transport error resets the card, a wrong PIN
\* asks for it again, everything else only changes the display.
OnBalanceResponse(r, result) ==
  /\ PollThread
  /\ r \in itp /\ r.cmd = "GET_INFO"
  /\ itp' = itp \ {r}
  /\ \/ /\ result = "error"
        /\ resetCardState("poll")
        /\ UNCHANGED waiting_pin_for_balance
     \/ /\ result = "wrong pin"
        /\ waiting_pin_for_balance' = TRUE
        /\ UNCHANGED <<cardVars, pending_payment, at>>
     \/ /\ result = "shown"
        /\ UNCHANGED <<cardVars, pending_payment, waiting_pin_for_balance, at>>
  /\ UNCHANGED <<order_transactions, tryVars, last_id, requested, history, misread>>

\* onPinRequest() with an error: no PIN event will come.
OnPinRequestFailed(r) ==
  /\ PollThread
  /\ r \in itp /\ r.cmd = "PIN_GET"
  /\ itp' = itp \ {r}
  /\ UNCHANGED <<cardVars, waiting_pin_for_balance, pending_payment, order_transactions,
                 at, tryVars, last_id, requested, history, misread>>

\* onPinReady(), only with a PIN pad: the PIN typed goes with the card that
\* is current when the event comes; the payment is tested without the mutex.
OnPinReady(r, ok) ==
  /\ PollThread
  /\ r \in itp /\ r.cmd = "PIN_GET"
  /\ itp' = itp \ {r}
  /\ \/ /\ ok
        /\ pin' = card
        /\ IF pending_payment.active THEN GoTo("poll", "card") ELSE UNCHANGED at
     \/ /\ ~ok
        /\ pin' \in {pin, card}
        /\ IF pending_payment.active THEN GoTo("poll", "clear") ELSE UNCHANGED at
  /\ UNCHANGED <<card_resolved, card_resolve_in_progress, card, tap_selected, pending_payment,
                 waiting_pin_for_balance, order_transactions, tryVars, last_id, requested,
                 history, misread>>

-----------------------------------------------------------------------------
\* The steps that both threads take.
ThreadNext(t) ==
  \/ tryProcessPendingPayment(t) \/ FrameCard(t) \/ ClearCard(t) \/ FinishReset(t)
  \/ \E pushed \in BOOLEAN : sendTransaction(t, pushed)

CoreNext ==
  \/ HandleClear
  \/ \E o \in Orders : HandlePayTransaction(o)
  \/ \E o \in Orders, pushed \in BOOLEAN : HandleConfirm(o, pushed)
  \/ \E pushed \in BOOLEAN : HandleCancel(pushed) \/ HandlePinEntered(pushed)

PollNext ==
  \/ \E c \in Cards, selected, sent \in BOOLEAN : OnCardDetected(c, selected, sent)
  \/ CardFlagged
  \/ \E pushed \in BOOLEAN : CardAnnounced(pushed)
  \/ \E r \in itp : OnCardResolve(r) \/ OnTransactionPaid(r) \/ OnPinRequestFailed(r)
  \/ \E r \in itp, b \in BOOLEAN :
       \/ OnCardResolveFailed(r, b) \/ OnPinReady(r, b)
       \/ OnTransactionDeclined(r, b) \/ OnTransactionFailed(r, b) \/ OnPinRequired(r, b)
       \/ OnConfirmResponse(r, b) \/ OnCancelResponse(r, b)
  \/ \E r \in itp, result \in {"error", "wrong pin", "shown"} : OnBalanceResponse(r, result)

Next == (CoreNext \/ PollNext \/ \E t \in Threads : ThreadNext(t)) /\ UNCHANGED has_pinpad

Spec == Init /\ [][Next]_vars

-----------------------------------------------------------------------------
(* Properties.                                                             *)

\* A confirmation or a return sent to the terminal names a transaction that
\* was charged for that very order, however the answers of several orders
\* and repeated transactions interleave (onTransactionResponse() captures
\* the order id when the transaction is sent).
SettlesOwnTransaction ==
  \A s \in settles : \E c \in charged :
    c.transaction_id = s.entry.transaction_id /\ c.order = s.order

\* Once the terminal accepted a settlement of a transaction, no further
\* confirm or cancel is pushed for it: onConfirmResponse() and
\* onCancelResponse() forget the order.
NoSettleAfterAnswer ==
  [][\A s \in settles' \ settles : s.entry.transaction_id \notin answered]_vars

\* The money of an order is returned at most once, whatever the customer
\* presses and whether or not the first return was accepted.
CancelledAtMostOnce ==
  \A s, t \in settles : s.cmd = "CANCEL" /\ t.cmd = "CANCEL" /\ s.order = t.order => s = t

\* At most one card is being resolved: card_resolve_in_progress is not lost
\* when the card state is reset while the terminal still owes its answer.
OneResolveInFlight ==
  Cardinality({r \in itp : r.cmd = "RESOLVE"}) <= 1

\* Without a PIN pad, no PIN goes to the terminal with another card than the
\* one it was typed for, although PIN, card and payment come from different
\* threads and sendTransaction() reads them while the card may be reset.  Only an
\* answer to RESOLVE that could not be parsed leaves a card behind that a later
\* one replaces while its PIN is still there.
PinOfItsCard ==
  ~has_pinpad /\ ~misread =>
    \A r \in itp : r.cmd = "TRANSACTION" /\ {r.card, r.pin} \subseteq Cards => r.pin = r.card

\* A charge can be settled: it is in order_transactions, or a confirm or cancel
\* was sent for it.  An order that is charged twice (the PIN typed twice, or core
\* and poll thread both finding card and payment) may lose one of its charges in
\* two ways only: the later one takes the place of the earlier one, or, when the
\* earlier one was being settled, its answer erases the later one with it.
ChargeKeptForSettling ==
  \A c \in charged :
    \/ \E o \in DOMAIN order_transactions :
         order_transactions[o].transaction_id = c.transaction_id
    \/ \E s \in settles : s.entry.transaction_id \in {c.transaction_id} \cup c.earlier
    \/ \E d \in charged : c.transaction_id \in d.earlier

-----------------------------------------------------------------------------
(* What comments of the code say; see the findings.                        *)

\* PrimeLogic::handleCardDetected(): a card tapped while no dispenser is
\* chosen is cleared, so that it does not block later cards.
TapWithoutDispenserCleared == card_resolved => tap_selected

\* onTransactionResponse(): the payment of a paid order stays pending, as
\* its data is needed to cancel or confirm; so the answer to the settlement
\* of another order leaves it alone.
PendingKeptForCancel ==
  [][\A r \in itp \ itp' :
       /\ r.cmd \in {"CONFIRM", "CANCEL"}
       /\ r.order # pending_payment.order_id
       /\ pending_payment.order_id \in DOMAIN order_transactions
       => pending_payment' = pending_payment]_vars

\* tryProcessPendingPayment(): no transaction without a card.  The card is tested
\* under the mutex, but resetCardState() does not take it.
TransactionHasCard == ~has_pinpad => \A r \in itp : r.cmd = "TRANSACTION" => r.card # NoCard

\* An order is charged once.
ChargedOnce == \A c \in charged : c.earlier = {}

\* The map holds the data of the card that paid the order.
PayingCardKept ==
  \A c \in charged : \A o \in DOMAIN order_transactions :
    order_transactions[o].transaction_id = c.transaction_id => order_transactions[o].card = c.card
=============================================================================
