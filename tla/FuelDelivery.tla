----------------------------- MODULE FuelDelivery -----------------------------
(***************************************************************************)
(* What src/logic/PrimeLogic knows of the fuel that flows: the amount it   *)
(* records for an order and confirms to the card terminal, and the         *)
(* supervision of a fuelling that stands still.                            *)
(*                                                                         *)
(* The handlers are those of PrimeLogic.tla, seen from the amounts: what   *)
(* they do to sales, gauges, pages and payments is there.  Amounts come    *)
(* with on_dsp_display_changed (heeded for the chosen dispenser only) and  *)
(* with on_dsp_order_changed; an answer of GET_DISPENSER_STATUS carries    *)
(* none, but it is what finalizes an order.  Time is counted in ticks of   *)
(* the io thread, as ages that stop growing at Timeout.                    *)
(***************************************************************************)
EXTENDS Naturals, Sequences, FiniteSets

CONSTANTS
  Dispensers,
  Orders,       \* ids the controller can give
  None,         \* m_current_dispenser_id empty
  NoOrder,      \* order id empty
  MaxAmount,    \* bound: the amount an order is delivered in full with
  Timeout,      \* waiting_dispenser_fuelling, in ticks
  MaxTouches,   \* bound: touches of the display in a behaviour
  MaxLifts,     \* bound: nozzles lifted in a behaviour
  MaxHttp,      \* bound: requests outstanding when a touch or a poll comes
  MaxResponses  \* bound: answers waiting in the core queue

ASSUME DeliveryNames == None \notin Dispensers /\ NoOrder \notin Orders
ASSUME DeliveryBounds ==
  /\ MaxAmount \in Nat \ {0} /\ Timeout \in Nat \ {0}
  /\ {MaxTouches, MaxLifts, MaxHttp, MaxResponses} \subseteq Nat

VARIABLES
  current,     \* m_current_dispenser_id
  orders,      \* m_orders; an absent entry is the default-constructed one
  status,      \* m_dispensers: status
  age,         \* m_dispensers: ticks since m_last_volume_change_time
  paused,      \* m_dispensers: is_fuelling_paused
  last_event,  \* m_lastId
  waiting,     \* m_waitingResponse
  batch,       \* events of the answer that processEvent() still has to visit
  requests, responses,   \* the HTTP worker's queue and the core queue
  srv, log,    \* the controller: its dispensers, and its events
  poured,      \* history: what was delivered for each order
  still,       \* history: ticks since the display of a dispenser last changed
  dropped,     \* history: display events visited when their dispenser was not chosen
  overwritten, \* history: orders whose record an event from before their creation changed
  confirmed,   \* history: what each PAY_CONFIRM of an order said, and whether the
               \* end of the order had been visited
  touches

progVars == <<current, orders, status, age, paused, last_event, waiting>>
netVars  == <<requests, responses>>
srvVars  == <<srv, log, poured>>
pastVars == <<dropped, overwritten>>
vars == <<progVars, batch, netVars, srvVars, still, pastVars, confirmed, touches>>

OrderOrNone == Orders \cup {NoOrder}
Amounts == 0..MaxAmount
Finished == {"DELIVERED", "INTERRUPTED"}
Statuses == {"IDLE", "NOZZLE_UP", "FUELLING", "COMPLETE"}
OrderStatuses == {"", "READY", "AUTHORIZED"} \cup Finished

DatabaseOrder == [id : OrderOrNone, status : OrderStatuses, amount : Amounts,
                  fact : Amounts, finalized : BOOLEAN]
DefaultOrder == [id |-> NoOrder, status |-> "", amount |-> 0, fact |-> 0,
                 finalized |-> FALSE]
Request == [cmd : {"EVENTS"}, from : Nat]
      \cup [cmd : {"STATUS", "CREATE", "authorize", "close"}, dev : Dispensers]
\* amount is what the event carries: of a created or authorized order nothing yet.
Event == [id : Nat, dev : Dispensers, what : {"status", "display", "changed", "created"},
          status : Statuses \cup OrderStatuses, order : OrderOrNone, amount : Amounts]
Response == [kind : {"events"}, events : Seq(Event)]
       \cup [kind : {"status"}, dev : Dispensers, status : Statuses, order : OrderOrNone,
             ostatus : OrderStatuses]

TypeOK ==
  /\ current \in Dispensers \cup {None}
  /\ orders \in [Dispensers -> DatabaseOrder]
  /\ status \in [Dispensers -> Statuses]
  /\ age \in [Dispensers -> 0..Timeout] /\ still \in [Dispensers -> 0..Timeout]
  /\ paused \in [Dispensers -> BOOLEAN]
  /\ last_event \in Nat /\ waiting \in BOOLEAN
  /\ batch \in Seq(Event)
  /\ requests \in Seq(Request) /\ responses \in Seq(Response)
  /\ srv \in [Dispensers -> [status : Statuses, order : OrderOrNone, ostatus : OrderStatuses]]
  /\ log \in Seq(Event)
  /\ poured \in [Orders -> Amounts]
  /\ dropped \subseteq 1..Len(log) /\ overwritten \subseteq Orders
  /\ confirmed \in [Orders -> SUBSET [amount : Amounts, told : BOOLEAN]]
  /\ touches \in 0..MaxTouches

Init ==
  /\ current = None
  /\ orders = [d \in Dispensers |-> DefaultOrder]
  /\ status = [d \in Dispensers |-> "IDLE"]
  /\ age = [d \in Dispensers |-> Timeout] /\ still = age
  /\ paused = [d \in Dispensers |-> FALSE]
  /\ last_event = 0 /\ waiting = FALSE
  /\ batch = <<>> /\ requests = <<>> /\ responses = <<>>
  /\ srv = [d \in Dispensers |-> [status |-> "IDLE", order |-> NoOrder, ostatus |-> ""]]
  /\ log = <<>>
  /\ poured = [o \in Orders |-> 0]
  /\ dropped = {} /\ overwritten = {}
  /\ confirmed = [o \in Orders |-> {}]
  /\ touches = 0

-----------------------------------------------------------------------------
(* Touches of the customer, handled by the core between two messages.      *)

Send(rs) == requests' = requests \o rs
Command(c, d) == IF d = None THEN <<>> ELSE <<[cmd |-> c, dev |-> d]>>

Touch ==
  /\ batch = <<>>
  /\ touches < MaxTouches
  /\ Len(requests) < MaxHttp
  /\ touches' = touches + 1
  /\ waiting' = FALSE
  /\ UNCHANGED <<orders, status, age, paused, last_event, batch, responses,
                 srvVars, still, pastVars, confirmed>>

\* handleChooseTRK(): the time of the last volume change is left as it is.
handleChooseTRK(d) ==
  /\ current # d
  /\ Touch
  /\ current' = d
  /\ UNCHANGED requests

\* Volume typed on the pin pad: createOrder().
createOrder ==
  /\ current # None /\ status[current] = "NOZZLE_UP"
  /\ Touch
  /\ Send(Command("CREATE", current))
  /\ UNCHANGED current

\* Next after the payment, with the order known: authorizeOnServer().
BeginFuelling ==
  /\ current # None /\ orders[current].status = "READY"
  /\ Touch
  /\ Send(Command("authorize", current))
  /\ UNCHANGED current

\* The Back button.
handleBasicTouch ==
  /\ current # None
  /\ Touch
  /\ Send(Command("STATUS", current))
  /\ UNCHANGED current

\* A page timer expires, on the io thread, or a button forgets the dispenser.
ForgetDispenser ==
  /\ current # None
  /\ current' = None
  /\ UNCHANGED <<orders, status, age, paused, last_event, waiting, batch, netVars,
                 srvVars, still, pastVars, confirmed, touches>>

-----------------------------------------------------------------------------
(* The tick of the io thread.                                              *)

Older(n) == IF n < Timeout THEN n + 1 ELSE n

StandsStill ==
  /\ current # None
  /\ status[current] = "FUELLING"
  /\ age[current] >= Timeout

\* onTimerExpired(): poll when no answer is awaited, then supervise.
Tick ==
  /\ waiting \/ Len(requests) < MaxHttp
  /\ Send(IF waiting THEN <<>> ELSE <<[cmd |-> "EVENTS", from |-> last_event]>>)
  /\ waiting' = TRUE
  /\ age' = [d \in Dispensers |-> Older(age[d])]
  /\ still' = [d \in Dispensers |-> Older(still[d])]
  /\ paused' = [d \in Dispensers |-> paused[d] \/ (d = current /\ StandsStill)]
  /\ UNCHANGED <<current, orders, status, last_event, batch, responses, srvVars, pastVars,
                 confirmed, touches>>

-----------------------------------------------------------------------------
(* processEvent().                                                         *)

Handling(k) == batch = <<>> /\ responses # <<>> /\ Head(responses).kind = k
Taken == waiting' = FALSE /\ responses' = Tail(responses)

EventsAnswer ==
  /\ Handling("events")
  /\ Taken
  /\ batch' = Head(responses).events
  /\ UNCHANGED <<current, orders, status, age, paused, last_event, requests, srvVars,
                 still, pastVars, confirmed, touches>>

Visit(w) ==
  /\ batch # <<>>
  /\ Head(batch).what = w
  /\ batch' = Tail(batch)
  /\ last_event' = Head(batch).id
  /\ UNCHANGED <<current, waiting, responses, srvVars, still, confirmed, touches>>

\* The fuel of d flows: its supervision starts again.
Flows(d) ==
  /\ age' = [age EXCEPT ![d] = 0]
  /\ paused' = [paused EXCEPT ![d] = FALSE]

\* handleRandomDispenserStatus(), then handleDispenserStatus() if d is chosen.
StatusEvent ==
  /\ Visit("status")
  /\ LET e == Head(batch)
         d == e.dev
     IN  /\ status' = [status EXCEPT ![d] = e.status]
         /\ Send(IF e.status = "IDLE" /\ status[d] \in {"COMPLETE", "FUELLING"}
                   THEN Command("close", d) ELSE <<>>)
         /\ \/ /\ d = current /\ e.status = "FUELLING"
               /\ Flows(d)
            \/ /\ ~(d = current /\ e.status = "FUELLING")
               /\ UNCHANGED <<age, paused>>
  /\ UNCHANGED <<orders, pastVars>>

\* The event e changes a record made when e had already been visited: the same
\* events come in two answers of GET_EVENTS.
OverwrittenBy(e) ==
  LET o == orders[e.dev].id
  IN  IF \E i \in e.id..Len(log) : log[i].what = "created" /\ log[i].order = o
        THEN {o} ELSE {}

\* The display shows more than the order has recorded.
Records(o, a) == o.amount < a

\* Mutant: a change of the display does not restart the supervision.
DisplayFlows_Forgotten(d) == UNCHANGED <<age, paused>>

DisplayFlows(d) == Flows(d)

\* handleDispenserDisplay(), only for the chosen dispenser.
DisplayEvent ==
  /\ Visit("display")
  /\ LET e == Head(batch)
         d == e.dev
     IN  \/ /\ d = current
            /\ orders' = IF Records(orders[d], e.amount)
                           THEN [orders EXCEPT ![d].amount = e.amount, ![d].fact = e.amount]
                           ELSE orders
            /\ overwritten' = overwritten \cup OverwrittenBy(e)
            /\ DisplayFlows(d)
            /\ UNCHANGED dropped
         \/ /\ d # current
            /\ dropped' = dropped \cup {e.id}
            /\ UNCHANGED <<orders, age, paused, overwritten>>
  /\ UNCHANGED <<status, requests>>

\* Mutant: the amount of the finished order is left to the display.
ChangedFact_Ignored(o, e) == o.fact

\* What the event says the order came to: the end of an order carries its amount.
ChangedFact(o, e) == IF e.status \in Finished THEN e.amount ELSE o.fact

\* handleDispenserOrderStatus(), for every dispenser.
OrderChangedEvent ==
  /\ Visit("changed")
  /\ LET e == Head(batch)
         d == e.dev
     IN  /\ orders' = [orders EXCEPT ![d].status = e.status,
                                     ![d].fact = ChangedFact(orders[d], e)]
         /\ overwritten' = overwritten \cup OverwrittenBy(e)
         /\ Send(IF e.status \in Finished THEN Command("STATUS", d) ELSE <<>>)
  /\ UNCHANGED <<status, age, paused, dropped>>

\* Mutant: the record of the new order keeps the amounts of the last one.
NewOrder_Kept(d, o) == [orders[d] EXCEPT !.id = o, !.finalized = FALSE]

NewOrder(d, o) == [DefaultOrder EXCEPT !.id = o]

\* handleDispenserOrderCreated(), only for the chosen dispenser.
OrderCreatedEvent ==
  /\ Visit("created")
  /\ LET e == Head(batch)
     IN  \/ /\ e.dev = current
            /\ orders' = [orders EXCEPT ![e.dev] = NewOrder(e.dev, e.order)]
            /\ Send(Command("STATUS", e.dev))
         \/ /\ e.dev # current
            /\ UNCHANGED <<orders, requests>>
  /\ UNCHANGED <<status, age, paused, pastVars>>

-----------------------------------------------------------------------------
(* processDispenserStatus().                                               *)

\* The end of order o has been visited.
Told(o) == \E i \in 1..last_event :
             log[i].what = "changed" /\ log[i].order = o /\ log[i].status \in Finished

Confirms(o) == ~o.finalized

\* processOrderFinalization() of the order o: PAY_CONFIRM says what is recorded.
processOrderFinalization(d, o) ==
  \/ /\ o.status \in Finished /\ Confirms(o)
     /\ orders' = [orders EXCEPT ![d] = [o EXCEPT !.finalized = TRUE]]
     /\ confirmed' = [confirmed EXCEPT ![o.id] =
                        @ \cup {[amount |-> o.fact, told |-> Told(o.id)]}]
  \/ /\ ~(o.status \in Finished /\ Confirms(o))
     /\ orders' = [orders EXCEPT ![d] = o]
     /\ UNCHANGED confirmed

StatusAnswer ==
  /\ Handling("status")
  /\ Taken
  /\ LET r == Head(responses)
         d == r.dev
     IN  /\ status' = [status EXCEPT ![d] = r.status]
         /\ \/ r.status = "FUELLING" /\ Flows(d)
            \/ r.status # "FUELLING" /\ UNCHANGED <<age, paused>>
         /\ \/ /\ r.order = NoOrder
               /\ UNCHANGED <<orders, confirmed, requests>>
            \/ /\ r.order # NoOrder /\ r.order # orders[d].id
               /\ Send(Command("close", d))
               /\ UNCHANGED <<orders, confirmed>>
            \/ /\ r.order # NoOrder /\ r.order = orders[d].id
               /\ processOrderFinalization(d, [orders[d] EXCEPT !.status = r.ostatus])
               /\ UNCHANGED requests
  /\ UNCHANGED <<current, last_event, batch, srvVars, still, pastVars, touches>>

-----------------------------------------------------------------------------
(* The HTTP worker and the controller (external).                          *)

Logged(es) ==
  log' = log \o [i \in 1..Len(es) |->
                   [id |-> Len(log) + i, dev |-> es[i].dev, what |-> es[i].what,
                    status |-> es[i].status, order |-> es[i].order, amount |-> es[i].amount]]
Says(d, w, s, o, a) == [dev |-> d, what |-> w, status |-> s, order |-> o, amount |-> a]
StatusChanged(d, s) == Says(d, "status", s, NoOrder, 0)
OrderEnded(d, s) == Says(d, "changed", s, srv[d].order, poured[srv[d].order])

Served(c) ==
  /\ requests # <<>> /\ Head(requests).cmd = c
  /\ requests' = Tail(requests)
  /\ UNCHANGED <<current, orders, status, age, paused, last_event, batch, poured,
                 still, pastVars, confirmed, touches>>

Answer(r) ==
  /\ Len(responses) < MaxResponses
  /\ responses' = Append(responses, r)
  /\ UNCHANGED <<waiting, srv, log>>

\* A command's answer only clears the flag.
Acknowledge == waiting' = FALSE /\ UNCHANGED responses

ServeEvents ==
  /\ Served("EVENTS")
  /\ Answer([kind |-> "events", events |-> SubSeq(log, Head(requests).from + 1, Len(log))])

ServeStatus ==
  /\ Served("STATUS")
  /\ LET d == Head(requests).dev
     IN  Answer([kind |-> "status", dev |-> d, status |-> srv[d].status,
                 order |-> srv[d].order, ostatus |-> srv[d].ostatus])

ServeCreate ==
  /\ Served("CREATE")
  /\ Acknowledge
  /\ LET d == Head(requests).dev
         free == Orders \ {log[i].order : i \in 1..Len(log)}
         can == srv[d].status = "NOZZLE_UP" /\ srv[d].order = NoOrder /\ free # {}
     IN  \/ /\ can
            /\ \E o \in free :
                 /\ srv' = [srv EXCEPT ![d].order = o, ![d].ostatus = "READY"]
                 /\ Logged(<<Says(d, "created", "READY", o, 0)>>)
         \/ ~can /\ UNCHANGED <<srv, log>>

ServeAuthorize ==
  /\ Served("authorize")
  /\ Acknowledge
  /\ LET d == Head(requests).dev
     IN  \/ /\ srv[d].ostatus = "READY"
            /\ srv' = [srv EXCEPT ![d].ostatus = "AUTHORIZED"]
            /\ Logged(<<Says(d, "changed", "AUTHORIZED", srv[d].order, 0)>>)
         \/ srv[d].ostatus # "READY" /\ UNCHANGED <<srv, log>>

ServeClose ==
  /\ Served("close")
  /\ Acknowledge
  /\ LET d == Head(requests).dev
     IN  srv' = IF srv[d].status = "FUELLING" THEN srv
                ELSE [srv EXCEPT ![d].order = NoOrder, ![d].ostatus = ""]
  /\ UNCHANGED log

Forecourt == UNCHANGED <<progVars, batch, netVars, pastVars, confirmed, touches>>

LiftNozzle(d) ==
  /\ srv[d].status = "IDLE" /\ srv[d].order = NoOrder
  /\ Cardinality({i \in 1..Len(log) : log[i].status = "NOZZLE_UP"}) < MaxLifts
  /\ srv' = [srv EXCEPT ![d].status = "NOZZLE_UP"]
  /\ Logged(<<StatusChanged(d, "NOZZLE_UP")>>)
  /\ Forecourt /\ UNCHANGED <<poured, still>>

StartFuelling(d) ==
  /\ srv[d].status = "NOZZLE_UP" /\ srv[d].ostatus = "AUTHORIZED"
  /\ srv' = [srv EXCEPT ![d].status = "FUELLING"]
  /\ Logged(<<StatusChanged(d, "FUELLING")>>)
  /\ Forecourt /\ UNCHANGED <<poured, still>>

\* Fuel flows: the display of the dispenser shows more.
Pour(d) ==
  /\ srv[d].status = "FUELLING"
  /\ poured[srv[d].order] < MaxAmount
  /\ poured' = [poured EXCEPT ![srv[d].order] = @ + 1]
  /\ Logged(<<Says(d, "display", "", NoOrder, poured'[srv[d].order])>>)
  /\ still' = [still EXCEPT ![d] = 0]
  /\ Forecourt /\ UNCHANGED srv

Deliver(d) ==
  /\ srv[d].status = "FUELLING" /\ poured[srv[d].order] = MaxAmount
  /\ srv' = [srv EXCEPT ![d].status = "COMPLETE", ![d].ostatus = "DELIVERED"]
  /\ Logged(<<OrderEnded(d, "DELIVERED"), StatusChanged(d, "COMPLETE")>>)
  /\ Forecourt /\ UNCHANGED <<poured, still>>

\* The nozzle is hung up: before the fuelling, after it, or in the middle of it.
HangNozzle(d) ==
  /\ \/ /\ srv[d].status \in {"NOZZLE_UP", "COMPLETE"}
        /\ srv' = [srv EXCEPT ![d].status = "IDLE"]
        /\ Logged(<<StatusChanged(d, "IDLE")>>)
     \/ /\ srv[d].status = "FUELLING"
        /\ srv' = [srv EXCEPT ![d].status = "IDLE", ![d].ostatus = "INTERRUPTED"]
        /\ LET o == OrderEnded(d, "INTERRUPTED")
               s == StatusChanged(d, "IDLE")
           IN  \E es \in {<<o, s>>, <<s, o>>} : Logged(es)
  /\ Forecourt /\ UNCHANGED <<poured, still>>

-----------------------------------------------------------------------------
Core ==
  \/ EventsAnswer \/ StatusEvent \/ DisplayEvent \/ OrderChangedEvent \/ OrderCreatedEvent
  \/ StatusAnswer

Worker ==
  ServeEvents \/ ServeStatus \/ ServeCreate \/ ServeAuthorize \/ ServeClose

Next ==
  \/ \E d \in Dispensers : handleChooseTRK(d)
  \/ createOrder \/ BeginFuelling \/ handleBasicTouch \/ ForgetDispenser
  \/ Tick
  \/ Core
  \/ Worker
  \/ \E d \in Dispensers :
       LiftNozzle(d) \/ StartFuelling(d) \/ Pour(d) \/ Deliver(d) \/ HangNozzle(d)

Spec == Init /\ [][Next]_vars

-----------------------------------------------------------------------------
(* Properties.                                                             *)

\* The card terminal is told of more than was delivered for the order only if
\* its record was changed by an event of an earlier order, visited again: the
\* display guard (amount < new) and the record made anew by order_created keep
\* the amounts of the last order out, whichever touches, answers and timers
\* come in between.
ConfirmedWithinDelivered ==
  \A o \in Orders : \A c \in confirmed[o] : c.amount <= poured[o] \/ o \in overwritten

\* Refuted: the terminal is never told of more.  The end of the last order is
\* visited again when the record of the next one is there, and its order_created
\* is not heeded then, as a timer has cleared the chosen dispenser.
NeverOvercharged ==
  \A o \in Orders : \A c \in confirmed[o] : c.amount <= poured[o]

\* A confirmation that leaves after the end of the order was visited says what
\* was delivered: handleDispenserOrderStatus() records the amount whether or
\* not the dispenser is chosen, before it asks for the status that finalizes.
ToldIsExact ==
  \A o \in Orders : \A c \in confirmed[o] : c.told => c.amount = poured[o]

\* Refuted: PAY_CONFIRM carries the last data of the order.  An answer of STATUS that
\* was asked for by a button finalizes the order before its end is visited.
ConfirmedIsDelivered ==
  \A o \in Orders : \A c \in confirmed[o] : c.amount = poured[o]

\* The last display event of d in the log, 0 when there is none.
LastDisplay(d) ==
  LET ids == {i \in 1..Len(log) : log[i].what = "display" /\ log[i].dev = d}
  IN  IF ids = {} THEN 0 ELSE CHOOSE i \in ids : \A j \in ids : j <= i

\* The alarm of checkFuellingProcess() for a dispenser whose display did change
\* within Timeout sounds only if that change is still to be visited or was
\* dropped because the dispenser was not chosen.
FalseAlarmIsMissedEvent ==
  [][\A d \in Dispensers : paused'[d] /\ ~paused[d] /\ still[d] < Timeout
       => LastDisplay(d) > last_event \/ LastDisplay(d) \in dropped]_vars

\* Refuted: the alarm only sounds when the display has not changed for Timeout ("check
\* that the fuelling goes on").  Choosing a dispenser that delivers sounds it.
AlarmIsReal ==
  [][\A d \in Dispensers : paused'[d] /\ ~paused[d] => still[d] >= Timeout]_vars

=============================================================================
