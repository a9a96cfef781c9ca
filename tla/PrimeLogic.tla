------------------------------ MODULE PrimeLogic ------------------------------
(***************************************************************************)
(* The life of an order in src/logic/PrimeLogic: the customer chooses a    *)
(* dispenser and a volume, the forecourt controller creates the order, the *)
(* card terminal is asked to charge it, the Next button authorises the     *)
(* dispenser, and when the fuel is delivered the charge is confirmed and   *)
(* the sale, with the level gauge read before and after it, goes to BOS.   *)
(*                                                                         *)
(* Requests to the controller leave through one worker thread in FIFO      *)
(* order; its answers reach handle() in the same order.  The controller,   *)
(* the display and the card terminal are external.  handle() is one action *)
(* per message, except that the answer to GET_EVENTS is worked off one     *)
(* event per step, for payment callbacks and the worker run meanwhile.     *)
(***************************************************************************)
EXTENDS Naturals, Sequences, FiniteSets

CONSTANTS
  Dispensers,
  Orders,         \* ids the controller can give
  None,           \* m_current_dispenser_id empty
  NoOrder,        \* order id empty
  Gauges,
  NoGauge,        \* getLevelGaugeIdByProductId() of an unknown product
  GaugeOf,        \* the gauge of the tank behind each dispenser
  DoubleTap,      \* can a button be touched again before its page goes away
  MaxTouches,     \* bound: touches of the display in a behaviour
  MaxLifts,       \* bound: nozzles lifted in a behaviour
  MaxFailed,      \* bound: failed queries of a gauge, and other failed requests
  MaxResponses,   \* bound: answers waiting in the core queue
  MaxHttp         \* bound: requests outstanding when a touch or a poll comes

ASSUME PrimeNames ==
  /\ None \notin Dispensers
  /\ NoOrder \notin Orders
  /\ NoGauge \notin Gauges
  /\ GaugeOf \in [Dispensers -> Gauges]
ASSUME PrimeBounds ==
  /\ DoubleTap \in BOOLEAN
  /\ {MaxTouches, MaxLifts, MaxFailed, MaxResponses, MaxHttp} \subseteq Nat

VARIABLES
  current,      \* m_current_dispenser_id
  disp,         \* m_dispensers: status, order.order_id, whether product_id is known
  orders,       \* m_orders; an absent entry is the default-constructed one
  sales,        \* m_pending_info_sales
  gauge_queue,  \* m_pending_level_gauge_orders; an absent entry is <<>>
  asked,        \* m_payment_requested_order_ids
  ready,        \* m_is_server_ready_for_start_fuel
  next,         \* m_dwin_button_next_for_start_fuel
  last_event,   \* m_lastId
  waiting,      \* m_waitingResponse
  timer,        \* a page timer whose expiry clears m_current_dispenser_id runs
  batch,        \* events of the answer that processEvent() still has to visit
  requests, responses,   \* the HTTP worker's queue and the core queue
  page,         \* what the page shown lets the customer touch
  srv, log,     \* the controller: its dispensers, and its events
  pay,          \* the card terminal: what became of each order's charge
  settling,     \* settlements the card terminal has still to answer
  cancelled,    \* history: orders whose charge the terminal was told to return
  records,      \* history: records m_orders was given, per order
  confirms,     \* history: PAY_CONFIRM messages per order
  reports,      \* history: sales sent to BOS per order
  untimely,     \* history: orders authorized before they were paid for, or whose
                \* nozzle was hung up before they were authorized, or whose
                \* order_created event was not heeded or was visited again
  repeated,     \* history: orders whose end was visited again when their sale had
                \* been sent
  failed,       \* history: queries of a gauge that failed; under NoGauge other requests
  touches, lifts

logicVars == <<current, disp, orders, sales, gauge_queue, asked, ready, next>>
pollVars  == <<last_event, batch>>
srvVars   == <<srv, log, failed, lifts>>
payVars   == <<pay, settling, cancelled, confirms>>
tellVars  == <<records, reports, untimely, repeated>>
vars == <<logicVars, pollVars, waiting, timer, requests, responses, page, srvVars,
          payVars, tellVars, touches>>

OrderOrNone == Orders \cup {NoOrder}
Statuses == {"IDLE", "NOZZLE_UP", "FUELLING", "COMPLETE"}
Finished == {"DELIVERED", "INTERRUPTED"}
OrderStatuses == {"", "READY", "AUTHORIZED"} \cup Finished

Dispenser == [status : Statuses, order_id : OrderOrNone, product : BOOLEAN]
DatabaseOrder == [id : OrderOrNone, status : OrderStatuses, product : BOOLEAN,
                  finalized : BOOLEAN, closed : BOOLEAN]
SalesData == [type : {"", "Full", "Partial", "Revert"}, before : BOOLEAN]
PendingGaugeTask == [order : OrderOrNone, task : {"BEFORE", "AFTER"}]
Request ==
       [cmd : {"EVENTS"}, from : Nat]
  \cup [cmd : {"STATUS", "CREATE", "authorize", "close"}, dev : Dispensers]
  \cup [cmd : {"PARAMETERS"}, gauge : Gauges \cup {NoGauge}]
Event ==
       [id : Nat, dev : Dispensers, what : {"status"}, status : Statuses, order : {NoOrder}]
  \cup [id : Nat, dev : Dispensers, what : {"changed"}, status : {"AUTHORIZED"} \cup Finished,
        order : OrderOrNone]
  \cup [id : Nat, dev : Dispensers, what : {"created"}, status : {"READY"}, order : Orders]
Response ==
       [kind : {"events"}, events : Seq(Event)]
  \cup [kind : {"status"}, dev : Dispensers, status : Statuses, order : OrderOrNone,
        ostatus : OrderStatuses]
  \cup [kind : {"parameters"}, gauge : Gauges]
  \cup [kind : {"low_volume"}]

DefaultOrder == [id |-> NoOrder, status |-> "", product |-> FALSE,
                 finalized |-> FALSE, closed |-> FALSE]

TypeOK ==
  /\ current \in Dispensers \cup {None}
  /\ disp \in [Dispensers -> Dispenser]
  /\ orders \in [Dispensers -> DatabaseOrder]
  /\ DOMAIN sales \subseteq OrderOrNone
  /\ \A o \in DOMAIN sales : sales[o] \in SalesData
  /\ gauge_queue \in [Gauges \cup {NoGauge} -> Seq(PendingGaugeTask)]
  /\ asked \subseteq Orders
  /\ ready \in BOOLEAN /\ next \in BOOLEAN /\ waiting \in BOOLEAN /\ timer \in BOOLEAN
  /\ last_event \in Nat
  /\ batch \in Seq(Event)
  /\ requests \in Seq(Request)
  /\ responses \in Seq(Response)
  /\ page \in {"success", "ready", "other"}
  /\ srv \in [Dispensers -> [status : Statuses, order : OrderOrNone, ostatus : OrderStatuses]]
  /\ log \in Seq(Event)
  /\ pay \in [Orders -> {"none", "asked", "paid", "failed"}]
  /\ settling \subseteq {"confirm", "cancel"}
  /\ cancelled \subseteq OrderOrNone
  /\ records \in [Orders -> Nat]
  /\ confirms \in [OrderOrNone -> Nat]
  /\ reports \in [OrderOrNone -> Seq(SalesData)]
  /\ untimely \subseteq OrderOrNone
  /\ repeated \subseteq OrderOrNone
  /\ failed \in [Gauges \cup {NoGauge} -> 0..MaxFailed]
  /\ touches \in 0..MaxTouches
  /\ lifts \in 0..MaxLifts

Init ==
  /\ current = None
  /\ disp = [d \in Dispensers |-> [status |-> "IDLE", order_id |-> NoOrder, product |-> FALSE]]
  /\ orders = [d \in Dispensers |-> DefaultOrder]
  /\ sales = [o \in {} |-> 0]
  /\ gauge_queue = [g \in Gauges \cup {NoGauge} |-> <<>>]
  /\ asked = {}
  /\ ready = FALSE /\ next = FALSE /\ waiting = FALSE /\ timer = FALSE
  /\ last_event = 0
  /\ batch = <<>>
  /\ requests = <<>> /\ responses = <<>>
  /\ page = "other"
  /\ srv = [d \in Dispensers |-> [status |-> "IDLE", order |-> NoOrder, ostatus |-> ""]]
  /\ log = <<>>
  /\ pay = [o \in Orders |-> "none"]
  /\ settling = {}
  /\ cancelled = {}
  /\ records = [o \in Orders |-> 0]
  /\ confirms = [o \in OrderOrNone |-> 0]
  /\ reports = [o \in OrderOrNone |-> <<>>]
  /\ untimely = {} /\ repeated = {}
  /\ failed = [g \in Gauges \cup {NoGauge} |-> 0]
  /\ touches = 0 /\ lifts = 0

-----------------------------------------------------------------------------
(* Helpers.                                                                *)

Send(rs) == requests' = requests \o rs
Status(d) == IF d = None THEN <<>> ELSE <<[cmd |-> "STATUS", dev |-> d]>>
\* PrimeCommands::handleCommand(); without a dispenser the controller refuses it.
Command(c, d) == IF d = None THEN <<>> ELSE <<[cmd |-> c, dev |-> d]>>
Parameters(g) == <<[cmd |-> "PARAMETERS", gauge |-> g]>>

getLevelGaugeId(d, known) == IF known THEN GaugeOf[d] ELSE NoGauge

PushTask(q, g, o, t) == [q EXCEPT ![g] = Append(@, [order |-> o, task |-> t])]

With(f, o, v) == [x \in DOMAIN f \cup {o} |-> IF x = o THEN v ELSE f[x]]
Without(f, o) == [x \in DOMAIN f \ {o} |-> f[x]]

\* m_pending_info_sales[o] with the fields a writer sets: created when absent.
FreshSale == [type |-> "", before |-> FALSE]
Touched(s, o) == IF o \in DOMAIN s THEN s ELSE With(s, o, FreshSale)

\* The core thread is between two messages.
CoreIdle == batch = <<>>
Handling(k) == CoreIdle /\ responses # <<>> /\ Head(responses).kind = k
\* What handle() does first, whatever the message.
Taken == waiting' = FALSE /\ responses' = Tail(responses)
Called == waiting' = FALSE /\ UNCHANGED responses

\* authorizeOnServer() with the flags r and n.
authorizeOnServer(r, n, after) ==
  /\ ready' = (r /\ ~n)
  /\ next' = (n /\ ~r)
  /\ Send((IF r /\ n THEN Command("authorize", current) ELSE <<>>) \o after)

-----------------------------------------------------------------------------
(* The display: touches of the customer.                                   *)

Touch ==
  /\ CoreIdle
  /\ touches < MaxTouches
  /\ Len(requests) < MaxHttp
  /\ touches' = touches + 1
  /\ Called

\* A button of the page p was touched: the display goes to q, at once or only
\* after another touch.
Leave(q) == page' \in IF DoubleTap THEN {page, q} ELSE {q}

\* handleChooseTRK().  FUELLING and COMPLETE only fill a page.
handleChooseTRK(d) ==
  /\ Touch
  /\ current' = d
  /\ timer' = CASE disp[d].status \in {"IDLE", "COMPLETE"} -> TRUE
                [] disp[d].status = "NOZZLE_UP" -> FALSE
                [] OTHER -> timer
  /\ page' = "other"
  /\ UNCHANGED <<disp, orders, sales, gauge_queue, asked, ready, next, pollVars,
                 requests, srvVars, payVars, tellVars>>

\* Buttons that only forget the chosen dispenser: create a new order, back
\* from the card page, accept the selected dispensers.
ForgetDispenser ==
  /\ current # None
  /\ Touch
  /\ current' = None
  /\ page' = "other"
  /\ UNCHANGED <<disp, orders, sales, gauge_queue, asked, ready, next, pollVars, timer,
                 requests, srvVars, payVars, tellVars>>

\* handleEnterFuelVolumeOrderPinPad(), handleCreateOrder(), createOrder().  The
\* pin pad page is reached with a chosen dispenser whose nozzle is up.
createOrder ==
  /\ current # None
  /\ disp[current].status = "NOZZLE_UP"
  /\ Touch
  /\ Send(Command("CREATE", current))
  /\ page' = "other"
  /\ UNCHANGED <<logicVars, pollVars, timer, srvVars, payVars, tellVars>>

\* handleBasicTouch(), the Back button.
handleBasicTouch ==
  /\ current # None
  /\ Touch
  /\ Send(Status(current))
  /\ UNCHANGED <<logicVars, pollVars, timer, page, srvVars, payVars, tellVars>>

\* USER_TOUCH_CLOSE_ORDER_BUTTON; handleCancelEnterPin() closes without the query.
CloseOrderButton ==
  /\ current # None
  /\ Touch
  /\ \E q \in {Status(current), <<>>} : Send(Command("close", current) \o q)
  /\ UNCHANGED <<logicVars, pollVars, timer, page, srvVars, payVars, tellVars>>

\* printDebetReceipt(): only the pending sale it creates matters.
printDebetReceipt ==
  sales' = IF current # None /\ orders[current].product
             THEN Touched(sales, orders[current].id)
             ELSE sales

\* USER_TOUCH_BASIC_TOUCH_BEGIN_FUELLING_BUTTON, Next after the payment.
BeginFuelling ==
  /\ page = "success"
  /\ Touch
  /\ authorizeOnServer(ready, TRUE, <<>>)
  /\ printDebetReceipt
  /\ Leave("ready")
  /\ UNCHANGED <<current, disp, orders, gauge_queue, asked, pollVars, timer, srvVars,
                 payVars, tellVars>>

\* handleImmediatelyCancelTransaction() for the chosen dispenser.
ImmediatelyCancelTransaction ==
  IF current = None \/ ~orders[current].product
    THEN UNCHANGED <<sales, gauge_queue, requests, settling, cancelled>>
    ELSE LET o == orders[current].id
             g == GaugeOf[current]
             close == Command("close", current)
         IN  /\ settling' = settling \cup {"cancel"}
             /\ cancelled' = cancelled \cup {o}
             /\ IF o \in DOMAIN sales
                  THEN /\ sales' = [sales EXCEPT ![o].type = "Revert"]
                       /\ gauge_queue' = PushTask(gauge_queue, g, o, "AFTER")
                       /\ Send(Parameters(g) \o close)
                  ELSE /\ Send(close)
                       /\ UNCHANGED <<sales, gauge_queue>>

CancelTransactionButton ==
  /\ page \in {"success", "ready"}
  /\ Touch
  /\ ImmediatelyCancelTransaction
  /\ Leave("other")
  /\ UNCHANGED <<current, disp, orders, asked, ready, next, pollVars, timer, srvVars,
                 pay, confirms, tellVars>>

-----------------------------------------------------------------------------
(* The tick of the io thread.                                              *)

\* onTimerExpired(): poll when no answer is awaited.
Poll ==
  /\ ~waiting
  /\ Len(requests) < MaxHttp
  /\ Send(<<[cmd |-> "EVENTS", from |-> last_event]>>)
  /\ waiting' = TRUE
  /\ UNCHANGED <<logicVars, pollVars, timer, responses, page, srvVars, payVars, tellVars,
                 touches>>

\* checkTimers(): a page timer expires.
checkTimers ==
  /\ timer
  /\ timer' = FALSE
  /\ current' = None
  /\ page' = "other"
  /\ UNCHANGED <<disp, orders, sales, gauge_queue, asked, ready, next, pollVars, waiting,
                 requests, responses, srvVars, payVars, tellVars, touches>>

-----------------------------------------------------------------------------
(* processEvent().                                                         *)

\* The answer to GET_EVENTS reaches handle().
EventsAnswer ==
  /\ Handling("events")
  /\ Taken
  /\ batch' = Head(responses).events
  /\ UNCHANGED <<logicVars, last_event, timer, requests, page, srvVars, payVars, tellVars,
                 touches>>

\* The loop visits its next event, of kind w.
Visit(w) ==
  /\ batch # <<>>
  /\ Head(batch).what = w
  /\ batch' = Tail(batch)
  /\ last_event' = Head(batch).id

\* Mutant: the end of an order is sent before it is finalized.
SendsEnd_Always(d, back) == back

\* The nozzle of d came back after the fuelling of a finalized order.
SendsEnd(d, back) == back /\ orders[d].finalized

\* handleDispenserStatus(), for the chosen dispenser, runs after
\* handleRandomDispenserStatus() has stored s: it finds the previous status equal
\* to s, so of its IDLE branches only the page timer of the first IDLE is reached.
handleDispenserStatus(d, s) ==
  /\ timer' = CASE d = current /\ s = "IDLE" -> TRUE
                [] d = current /\ s = "NOZZLE_UP" -> FALSE
                [] OTHER -> timer
  /\ page' = IF d = current /\ s # "COMPLETE" THEN "other" ELSE page

\* handleRandomDispenserStatus(), for every dispenser.
StatusEvent ==
  /\ Visit("status")
  /\ LET e == Head(batch)
         d == e.dev
         product == disp[d].product \/ e.status # "IDLE"
         g == getLevelGaugeId(d, product)
         back == e.status = "IDLE" /\ disp[d].status \in {"COMPLETE", "FUELLING"}
         report == SendsEnd(d, back)
     IN  /\ disp' = [disp EXCEPT ![d].status = e.status, ![d].product = product]
         /\ orders' = IF back THEN [orders EXCEPT ![d].closed = TRUE] ELSE orders
         /\ gauge_queue' = IF report THEN PushTask(gauge_queue, g, disp[d].order_id, "AFTER")
                                     ELSE gauge_queue
         /\ Send((IF back THEN Command("close", d) ELSE <<>>)
                 \o (IF report THEN Parameters(g) ELSE <<>>))
         /\ handleDispenserStatus(d, e.status)
         /\ repeated' = repeated \cup {o \in {disp[d].order_id} : report /\ reports[o] # <<>>}
  /\ UNCHANGED <<current, sales, asked, ready, next, waiting, responses, srvVars, payVars,
                 records, reports, untimely, touches>>

\* Mutant: the task waits, but the gauge is not asked.
QueryBefore_Forgotten(g) == <<>>

QueryBefore(g) == Parameters(g)

\* handleDispenserOrderStatus().
OrderChangedEvent ==
  /\ Visit("changed")
  /\ LET e == Head(batch)
         d == e.dev
         o == orders[d].id
         g == getLevelGaugeId(d, orders[d].product)
     IN  /\ orders' = [orders EXCEPT ![d].status = e.status]
         /\ \/ /\ e.status \in Finished
               /\ Send(Status(d))
               /\ UNCHANGED <<sales, gauge_queue>>
            \/ /\ e.status = "AUTHORIZED"
               /\ sales' = Touched(sales, o)
               /\ gauge_queue' = PushTask(gauge_queue, g, o, "BEFORE")
               /\ Send(QueryBefore(g))
  /\ UNCHANGED <<current, disp, asked, ready, next, waiting, timer, responses, page,
                 srvVars, payVars, tellVars, touches>>

\* handleDispenserOrderCreated(), only for the chosen dispenser.
OrderCreatedEvent ==
  /\ Visit("created")
  /\ LET e == Head(batch)
     IN  \/ /\ e.dev = current
            /\ authorizeOnServer(TRUE, next, Status(e.dev))
            /\ orders' = [orders EXCEPT ![e.dev] = [DefaultOrder EXCEPT !.id = e.order]]
            /\ records' = [records EXCEPT ![e.order] = @ + 1]
         \/ /\ e.dev # current
            /\ UNCHANGED <<orders, records, ready, next, requests>>
  /\ untimely' = untimely \cup {o \in {Head(batch).order} :
                                  Head(batch).dev # current \/ records[o] > 0}
  /\ UNCHANGED <<current, disp, sales, gauge_queue, asked, waiting, timer, responses, page,
                 srvVars, payVars, reports, repeated, touches>>

-----------------------------------------------------------------------------
(* The other answers.                                                      *)

\* processDispenserStatus(): what the answer says of the dispenser itself.
Observed(r) == [orders[r.dev] EXCEPT !.product = @ \/ r.status # "IDLE"]
ObserveStatus(r, o) ==
  disp' = [disp EXCEPT ![r.dev] = [status |-> r.status, order_id |-> o,
                                   product |-> @.product \/ r.status # "IDLE"]]

StatusWithoutOrder ==
  /\ Handling("status")
  /\ Taken
  /\ LET r == Head(responses)
     IN  /\ r.order = NoOrder
         /\ ObserveStatus(r, disp[r.dev].order_id)
         /\ orders' = [orders EXCEPT ![r.dev] = Observed(r)]
  /\ UNCHANGED <<current, sales, gauge_queue, asked, ready, next, pollVars, timer, requests,
                 page, srvVars, payVars, tellVars, touches>>

\* The controller has an order that is not the one in m_orders: close it.
StatusOfDeadOrder ==
  /\ Handling("status")
  /\ Taken
  /\ LET r == Head(responses)
     IN  /\ r.order # NoOrder
         /\ orders[r.dev].id # r.order
         /\ ObserveStatus(r, disp[r.dev].order_id)
         /\ orders' = [orders EXCEPT ![r.dev] = Observed(r)]
         /\ Send(Command("close", r.dev))
  /\ UNCHANGED <<current, sales, gauge_queue, asked, ready, next, pollVars, timer,
                 page, srvVars, payVars, tellVars, touches>>

\* Mutant: a finalized order is finalized again.
Finalizes_Again(e) == e.status \in Finished

Finalizes(e) == e.status \in Finished /\ ~e.finalized

TypeSale(e) == IF e.status = "INTERRUPTED" /\ e.product THEN "Partial" ELSE "Full"

\* processOrderFinalization() of the order e of dispenser d: the sale gets its
\* type, the gauge is read when the nozzle is already back, PAY_CONFIRM leaves.
processOrderFinalization(d, e) ==
  LET g == getLevelGaugeId(d, e.product)
  IN  IF Finalizes(e)
        THEN /\ orders' = [orders EXCEPT ![d] = [e EXCEPT !.finalized = TRUE]]
             /\ sales' = IF e.id \in DOMAIN sales THEN [sales EXCEPT ![e.id].type = TypeSale(e)]
                                                  ELSE Touched(sales, e.id)
             /\ gauge_queue' = IF e.closed THEN PushTask(gauge_queue, g, e.id, "AFTER")
                                           ELSE gauge_queue
             /\ Send(IF e.closed THEN Parameters(g) ELSE <<>>)
             /\ confirms' = [confirms EXCEPT ![e.id] = @ + 1]
             /\ settling' = settling \cup {"confirm"}
             /\ page' = IF d = current /\ e.status = "INTERRUPTED" THEN "other" ELSE page
        ELSE /\ orders' = [orders EXCEPT ![d] = e]
             /\ sales' = Touched(sales, e.id)
             /\ UNCHANGED <<gauge_queue, requests, confirms, settling, page>>

\* createPayment().
createPayment(o) ==
  /\ asked' = asked \cup {o}
  /\ pay' = IF o \in asked THEN pay ELSE [pay EXCEPT ![o] = "asked"]

StatusOfOrder ==
  /\ Handling("status")
  /\ Taken
  /\ LET r == Head(responses)
     IN  /\ r.order # NoOrder
         /\ orders[r.dev].id = r.order
         /\ ObserveStatus(r, r.order)
         /\ processOrderFinalization(r.dev, [Observed(r) EXCEPT !.status = r.ostatus])
         /\ createPayment(r.order)
  /\ UNCHANGED <<current, ready, next, pollVars, timer, srvVars, cancelled, tellVars, touches>>

\* processParameters(): the first task of the gauge gets the reading.
ParametersWithoutTask ==
  /\ Handling("parameters")
  /\ Taken
  /\ gauge_queue[Head(responses).gauge] = <<>>
  /\ UNCHANGED <<logicVars, pollVars, timer, requests, page, srvVars, payVars, tellVars,
                 touches>>

ParametersBefore ==
  /\ Handling("parameters")
  /\ Taken
  /\ LET g == Head(responses).gauge
         q == gauge_queue[g]
     IN  /\ q # <<>>
         /\ Head(q).task = "BEFORE"
         /\ gauge_queue' = [gauge_queue EXCEPT ![g] = Tail(q)]
         /\ sales' = IF Head(q).order \in DOMAIN sales
                       THEN [sales EXCEPT ![Head(q).order].before = TRUE]
                       ELSE sales
  /\ UNCHANGED <<current, disp, orders, asked, ready, next, pollVars, timer, requests, page,
                 srvVars, payVars, tellVars, touches>>

\* The sale goes to BOS, and the gauge's whole queue with it.
ParametersAfter ==
  /\ Handling("parameters")
  /\ Taken
  /\ LET g == Head(responses).gauge
         q == gauge_queue[g]
         o == Head(q).order
         s == sales[o]
     IN  /\ q # <<>>
         /\ Head(q).task = "AFTER"
         /\ \/ /\ o \in DOMAIN sales
               /\ reports' = [reports EXCEPT ![o] =
                                Append(@, [s EXCEPT !.before = @ \/ s.type = "Revert"])]
               /\ sales' = Without(sales, o)
               /\ gauge_queue' = [gauge_queue EXCEPT ![g] = <<>>]
            \/ /\ o \notin DOMAIN sales
               /\ gauge_queue' = [gauge_queue EXCEPT ![g] = Tail(q)]
               /\ UNCHANGED <<sales, reports>>
  /\ UNCHANGED <<current, disp, orders, asked, ready, next, pollVars, timer, requests, page,
                 srvVars, payVars, records, untimely, repeated, touches>>

\* dispatchError(): the controller refuses an order, the level is too low.
LowVolumeAnswer ==
  /\ Handling("low_volume")
  /\ Taken
  /\ ImmediatelyCancelTransaction
  /\ page' = "other"
  /\ UNCHANGED <<current, disp, orders, asked, ready, next, pollVars, timer, srvVars,
                 pay, confirms, tellVars, touches>>

-----------------------------------------------------------------------------
(* Answers of the card terminal, on its poll thread.                       *)

PaymentSuccess(o) ==
  /\ pay[o] = "asked"
  /\ pay' = [pay EXCEPT ![o] = "paid"]
  /\ page' = "success"
  /\ Called
  /\ UNCHANGED <<logicVars, pollVars, timer, requests, srvVars, settling, cancelled, confirms,
                 tellVars, touches>>

\* handlePaymentResponse() of a failed charge: the order of the chosen
\* dispenser is closed and the sale forgotten.
PaymentFailure(o) ==
  /\ pay[o] = "asked"
  /\ pay' = [pay EXCEPT ![o] = "failed"]
  /\ Send(Command("close", current))
  /\ sales' = Without(sales, o)
  /\ page' = "other"
  /\ Called
  /\ UNCHANGED <<current, disp, orders, gauge_queue, asked, ready, next, pollVars, timer,
                 srvVars, settling, cancelled, confirms, tellVars, touches>>

\* handlePayConfirmOrder().
ConfirmAnswer ==
  /\ "confirm" \in settling
  /\ settling' = settling \ {"confirm"}
  /\ timer' = (timer \/ (current # None /\ orders[current].status = "INTERRUPTED"))
  /\ page' = IF current # None THEN "other" ELSE page
  /\ Called
  /\ UNCHANGED <<logicVars, pollVars, requests, srvVars, pay, cancelled, confirms, tellVars,
                 touches>>

\* PAY_CANCEL_RESPONSE_SUCCESS.
CancelAnswer ==
  /\ "cancel" \in settling
  /\ settling' = settling \ {"cancel"}
  /\ timer' = TRUE
  /\ page' = "other"
  /\ Called
  /\ UNCHANGED <<logicVars, pollVars, requests, srvVars, pay, cancelled, confirms, tellVars,
                 touches>>

-----------------------------------------------------------------------------
(* The HTTP worker and the controller (external).                          *)

StatusChanged(d, s) == [dev |-> d, what |-> "status", status |-> s, order |-> NoOrder]
OrderChanged(d, s) ==
  [dev |-> d, what |-> "changed", status |-> s, order |-> srv[d].order]
Logged(es) ==
  log' = log \o [i \in 1..Len(es) |->
                   [id |-> Len(log) + i, dev |-> es[i].dev, what |-> es[i].what,
                    status |-> es[i].status, order |-> es[i].order]]

Answer(r) ==
  /\ Len(responses) < MaxResponses
  /\ requests' = Tail(requests)
  /\ responses' = Append(responses, r)
  /\ UNCHANGED <<logicVars, pollVars, waiting, timer, page, lifts, payVars, tellVars, touches>>

\* An answer with a task number, or an error: handle() only clears the flag.
Acknowledge ==
  /\ requests' = Tail(requests)
  /\ waiting' = FALSE
  /\ UNCHANGED <<logicVars, pollVars, timer, responses, page, lifts, payVars, records,
                 reports, repeated, touches>>

Served(c) == requests # <<>> /\ Head(requests).cmd = c

ServeEvents ==
  /\ Served("EVENTS")
  /\ Answer([kind |-> "events", events |-> SubSeq(log, Head(requests).from + 1, Len(log))])
  /\ UNCHANGED <<srv, log, failed>>

ServeStatus ==
  /\ Served("STATUS")
  /\ LET d == Head(requests).dev
     IN  Answer([kind |-> "status", dev |-> d, status |-> srv[d].status,
                 order |-> srv[d].order, ostatus |-> srv[d].ostatus])
  /\ UNCHANGED <<srv, log, failed>>

ServeParameters ==
  /\ Served("PARAMETERS")
  /\ LET g == Head(requests).gauge
     IN  \/ g = NoGauge /\ Acknowledge /\ UNCHANGED untimely
         \/ g # NoGauge /\ Answer([kind |-> "parameters", gauge |-> g])
  /\ UNCHANGED <<srv, log, failed>>

Used == {log[i].order : i \in 1..Len(log)}
CanCreate(d) == srv[d].status = "NOZZLE_UP" /\ srv[d].order = NoOrder

ServeCreate ==
  /\ Served("CREATE")
  /\ LET d == Head(requests).dev
     IN  \/ \E o \in Orders \ Used :
              /\ CanCreate(d)
              /\ srv' = [srv EXCEPT ![d].order = o, ![d].ostatus = "READY"]
              /\ Logged(<<[dev |-> d, what |-> "created", status |-> "READY", order |-> o]>>)
              /\ Acknowledge
              /\ UNCHANGED <<untimely, failed>>
         \/ /\ CanCreate(d)
            /\ Answer([kind |-> "low_volume"])
            /\ UNCHANGED <<srv, log, failed>>
         \/ /\ ~CanCreate(d)
            /\ Acknowledge
            /\ UNCHANGED <<srv, log, untimely, failed>>

ServeAuthorize ==
  /\ Served("authorize")
  /\ LET d == Head(requests).dev
     IN  \/ /\ srv[d].ostatus = "READY"
            /\ srv' = [srv EXCEPT ![d].ostatus = "AUTHORIZED"]
            /\ Logged(<<OrderChanged(d, "AUTHORIZED")>>)
            /\ untimely' = untimely \cup {o \in {srv[d].order} : pay[o] # "paid"}
         \/ /\ srv[d].ostatus # "READY"
            /\ UNCHANGED <<srv, log, untimely>>
  /\ Acknowledge
  /\ UNCHANGED failed

\* An order is closed unless fuel flows.
ServeClose ==
  /\ Served("close")
  /\ LET d == Head(requests).dev
     IN  srv' = IF srv[d].status = "FUELLING" THEN srv
                ELSE [srv EXCEPT ![d].order = NoOrder, ![d].ostatus = ""]
  /\ Acknowledge
  /\ UNCHANGED <<log, untimely, failed>>

\* processHandleHttpError(), dispatchError(): the connection is lost or the answer
\* is an error.  Nothing is asked again, and a gauge's task stays in its queue.
RequestFails ==
  /\ requests # <<>>
  /\ LET g == IF Head(requests).cmd = "PARAMETERS" THEN Head(requests).gauge ELSE NoGauge
     IN  /\ \A h \in DOMAIN failed : failed[h] < MaxFailed
         /\ failed' = [failed EXCEPT ![g] = @ + 1]
  /\ Acknowledge
  /\ UNCHANGED <<srv, log, untimely>>

Forecourt == UNCHANGED <<logicVars, pollVars, waiting, timer, requests, responses, page,
                         payVars, records, reports, repeated, failed, touches>>

LiftNozzle(d) ==
  /\ srv[d].status = "IDLE"
  /\ lifts < MaxLifts
  /\ lifts' = lifts + 1
  /\ srv' = [srv EXCEPT ![d].status = "NOZZLE_UP"]
  /\ Logged(<<StatusChanged(d, "NOZZLE_UP")>>)
  /\ Forecourt
  /\ UNCHANGED untimely

HangNozzle(d) ==
  /\ srv[d].status \in {"NOZZLE_UP", "COMPLETE"}
  /\ srv' = [srv EXCEPT ![d].status = "IDLE"]
  /\ Logged(<<StatusChanged(d, "IDLE")>>)
  /\ untimely' = untimely \cup {o \in {srv[d].order} : srv[d].ostatus = "READY"}
  /\ Forecourt
  /\ UNCHANGED lifts

StartFuelling(d) ==
  /\ srv[d].status = "NOZZLE_UP"
  /\ srv[d].ostatus = "AUTHORIZED"
  /\ srv' = [srv EXCEPT ![d].status = "FUELLING"]
  /\ Logged(<<StatusChanged(d, "FUELLING")>>)
  /\ Forecourt
  /\ UNCHANGED <<lifts, untimely>>

Deliver(d) ==
  /\ srv[d].status = "FUELLING"
  /\ srv' = [srv EXCEPT ![d].status = "COMPLETE", ![d].ostatus = "DELIVERED"]
  /\ Logged(<<OrderChanged(d, "DELIVERED"), StatusChanged(d, "COMPLETE")>>)
  /\ Forecourt
  /\ UNCHANGED <<lifts, untimely>>

\* The nozzle is hung up before the volume is reached.
Interrupt(d) ==
  /\ srv[d].status = "FUELLING"
  /\ srv' = [srv EXCEPT ![d].status = "IDLE", ![d].ostatus = "INTERRUPTED"]
  /\ LET o == OrderChanged(d, "INTERRUPTED")
         s == StatusChanged(d, "IDLE")
     IN  \E es \in {<<o, s>>, <<s, o>>} : Logged(es)
  /\ Forecourt
  /\ UNCHANGED <<lifts, untimely>>

-----------------------------------------------------------------------------
Display ==
  \/ \E d \in Dispensers : handleChooseTRK(d)
  \/ ForgetDispenser
  \/ createOrder
  \/ handleBasicTouch
  \/ CloseOrderButton
  \/ BeginFuelling
  \/ CancelTransactionButton

Core ==
  \/ EventsAnswer \/ StatusEvent \/ OrderChangedEvent \/ OrderCreatedEvent
  \/ StatusWithoutOrder \/ StatusOfDeadOrder \/ StatusOfOrder
  \/ ParametersWithoutTask \/ ParametersBefore \/ ParametersAfter
  \/ LowVolumeAnswer

CardTerminal ==
  \/ \E o \in Orders : PaymentSuccess(o) \/ PaymentFailure(o)
  \/ ConfirmAnswer \/ CancelAnswer

Controller ==
  \/ ServeEvents \/ ServeStatus \/ ServeParameters
  \/ ServeCreate \/ ServeAuthorize \/ ServeClose \/ RequestFails
  \/ \E d \in Dispensers :
       LiftNozzle(d) \/ HangNozzle(d) \/ StartFuelling(d) \/ Deliver(d) \/ Interrupt(d)

Next == Display \/ Poll \/ checkTimers \/ Core \/ CardTerminal \/ Controller

Spec == Init /\ [][Next]_vars

-----------------------------------------------------------------------------
(* Properties.                                                             *)

\* processOrderFinalization() sends PAY_CONFIRM at most once for each record
\* of the order that handleDispenserOrderCreated() put into m_orders, where its
\* flag order_finalized lives: answers of STATUS that are stale, repeated or
\* asked for by several touches add none, and no other dispenser has a record
\* of the same order.
ConfirmedPerRecord == \A o \in Orders : confirms[o] <= records[o]

\* An order is confirmed once ("so that the same order is not recorded twice",
\* order_finalized).  Not so when two polls carry the whole order: its
\* order_created event is visited again, and the new record is not finalized.
ConfirmedOnce == \A o \in Orders : confirms[o] <= 1

\* An order that was never cancelled is reported to BOS at most once for each
\* confirmation of its charge, and after it: however often its AFTER task is
\* queued and its pending sale created again, by whatever dispensers share its
\* tank, processParameters() sends one.  Not so for an order whose end is visited
\* again after its report: any STATUS answer that still names it creates the
\* pending sale again, and the new task sends it.
DeliveryReportedOnce ==
  \A o \in Orders \ (cancelled \cup repeated) : Len(reports[o]) <= confirms[o]

\* How often m occurs in s.
CountOf(s, m) == Cardinality({i \in 1..Len(s) : s[i] = m})

\* Every task waiting for a gauge will be given a reading, but for one of each query
\* that failed: as many answers of GET_IO_PARAMETERS are still to come as tasks wait,
\* although all tasks of a gauge share one queue and an answer may find it emptied by
\* another one.
EveryTaskIsAsked ==
  \A g \in Gauges :
    Len(gauge_queue[g]) <=
        CountOf(requests, [cmd |-> "PARAMETERS", gauge |-> g])
      + CountOf(responses, [kind |-> "parameters", gauge |-> g])
      + failed[g]

\* Refuted: every task will be given a reading (a query that fails is not repeated).
EveryTaskIsRead ==
  \A g \in Gauges :
    gauge_queue[g] # <<>> =>
      \/ CountOf(requests, [cmd |-> "PARAMETERS", gauge |-> g]) > 0
      \/ CountOf(responses, [kind |-> "parameters", gauge |-> g]) > 0

\* Each tank was used by one dispenser.
OneOnTank ==
  \A i, j \in 1..Len(log) :
    log[i].what = "created" /\ log[j].what = "created"
      /\ GaugeOf[log[i].dev] = GaugeOf[log[j].dev] => log[i].dev = log[j].dev

\* Orders on a tank of which a query of the gauge has failed.
Unread ==
  {o \in Orders : \E i \in 1..Len(log) :
     log[i].what = "created" /\ log[i].order = o /\ failed[GaugeOf[log[i].dev]] > 0}

\* The sale of an order that was never cancelled reaches BOS with its type and
\* with the gauge reading from before the fuelling, whatever other requests fail.  Not
\* so when a query of its gauge failed: the answer to a later one is taken for it, and
\* the report erases what is left.  Not so for two dispensers on
\* one tank, or when Cancel is touched without an order: processParameters()
\* erases the queue in which the order of the other waits.  Nor for an order that
\* a left-over start flag authorizes unpaid, whose product may not be known or
\* whose payment may fail later, nor for one whose nozzle was hung up before it was
\* authorized: an answer of STATUS that comes before that IDLE event is visited
\* makes it the end of the order.
SaleIsComplete ==
  OneOnTank /\ NoOrder \notin cancelled =>
    \A o \in Orders \ (cancelled \cup untimely \cup repeated \cup Unread) :
      \A i \in 1..Len(reports[o]) : reports[o][i].type # "" /\ reports[o][i].before

\* An order is recorded once, be it as delivery or as return ("so that the
\* same order is not recorded twice", order_finalized).  The code can report a
\* return and then the delivery.
ReportedOnce == \A o \in Orders : Len(reports[o]) <= 1

\* Everything the controller said was handled and every nozzle is back.
Quiet ==
  /\ batch = <<>> /\ requests = <<>> /\ responses = <<>>
  /\ last_event = Len(log)
  /\ \A d \in Dispensers : srv[d].status = "IDLE"

\* Once the nozzle is back, a confirmed order has been reported: the IDLE event
\* sends the end of the order, whether the dispenser is chosen or not.  The
\* code misses it when an answer to GET_DISPENSER_STATUS said IDLE first.
ConfirmedIsReported ==
  \A o \in Orders : Quiet /\ confirms[o] = 1 => reports[o] # <<>>

\* Fuel is only released for an order whose charge succeeded: the Next button
\* is the one "after the payment".  authorizeOnServer() does not know the order.
AuthorizedIsPaid ==
  \A d \in Dispensers : srv[d].ostatus = "AUTHORIZED" => pay[srv[d].order] = "paid"

\* Only dead orders are closed as dead: not one whose order_created event has
\* still to be visited.  The status query can be answered before the poll.
DeadOrdersOnly ==
  [][StatusOfDeadOrder =>
       \A i \in last_event + 1..Len(log) : log[i].order # Head(responses).order]_vars
=============================================================================
