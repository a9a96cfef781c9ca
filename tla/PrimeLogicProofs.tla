--------------------------- MODULE PrimeLogicProofs ---------------------------
(***************************************************************************)
(* Proofs about PrimeLogic, for any dispensers, orders and tanks and any   *)
(* number of touches, requests and answers.  A gauge task never waits in   *)
(* vain, because it is queued in the step that asks its gauge, and an      *)
(* order is confirmed once per record of it, because one event made all    *)
(* the records of the order.  A sale is sent once per confirmation,        *)
(* because it takes a gauge task of the order's end, and a sale still due  *)
(* or sent stands behind every such task.  A sale is complete, because the *)
(* task of the reading before the fuelling is queued ahead of the one that *)
(* sends it, and the events of an order reach processEvent() in the order  *)
(* of the controller's journal.                                            *)
(***************************************************************************)
EXTENDS PrimeLogic, FiniteSetTheorems, TLAPS

-----------------------------------------------------------------------------
(* Counting the occurrences of a message in a queue.                       *)

LEMMA CountIsNat ==
  ASSUME NEW S, NEW s \in Seq(S), NEW m
  PROVE  /\ IsFiniteSet({i \in 1..Len(s) : s[i] = m})
         /\ CountOf(s, m) \in Nat
<1>1. IsFiniteSet(1..Len(s)) BY FS_Interval
<1>2. {i \in 1..Len(s) : s[i] = m} \in SUBSET (1..Len(s)) OBVIOUS
<1>3. IsFiniteSet({i \in 1..Len(s) : s[i] = m}) BY <1>1, <1>2, FS_Subset
<1> QED BY <1>3, FS_CardinalityType DEF CountOf

\* Appending messages loses none and counts a new m.
LEMMA CountConcat ==
  ASSUME NEW S, NEW s \in Seq(S), NEW t \in Seq(S), NEW m
  PROVE  /\ CountOf(s \o t, m) >= CountOf(s, m)
         /\ \A j \in 1..Len(t) : t[j] = m => CountOf(s \o t, m) >= CountOf(s, m) + 1
<1> DEFINE I(q) == {i \in 1..Len(q) : q[i] = m}
<1>1. s \o t \in Seq(S) OBVIOUS
<1>2. IsFiniteSet(I(s)) /\ IsFiniteSet(I(s \o t)) BY <1>1, CountIsNat
<1>3. CountOf(s, m) \in Nat /\ CountOf(s \o t, m) \in Nat BY <1>1, CountIsNat
<1>4. I(s) \in SUBSET I(s \o t) OBVIOUS
<1>5. CountOf(s \o t, m) >= CountOf(s, m) BY <1>2, <1>3, <1>4, FS_Subset DEF CountOf
<1>6. ASSUME NEW j \in 1..Len(t), t[j] = m
      PROVE  CountOf(s \o t, m) >= CountOf(s, m) + 1
  <2>1. Len(s) + j \notin I(s) /\ I(s) \cup {Len(s) + j} \in SUBSET I(s \o t) BY <1>4, <1>6
  <2>2. /\ IsFiniteSet(I(s) \cup {Len(s) + j})
        /\ Cardinality(I(s) \cup {Len(s) + j}) = Cardinality(I(s)) + 1
    BY <1>2, <2>1, FS_AddElement
  <2>3. Cardinality(I(s) \cup {Len(s) + j}) <= Cardinality(I(s \o t))
    BY <1>2, <2>1, FS_Subset
  <2> QED BY <1>3, <2>2, <2>3 DEF CountOf
<1> QED BY <1>5, <1>6

\* Taking the first message loses that one only.
LEMMA CountTail ==
  ASSUME NEW S, NEW s \in Seq(S), s # <<>>, NEW m
  PROVE  /\ CountOf(Tail(s), m) + 1 >= CountOf(s, m)
         /\ Head(s) # m => CountOf(Tail(s), m) >= CountOf(s, m)
<1> DEFINE I(q) == {i \in 1..Len(q) : q[i] = m}
           J == I(s) \ {1}
           f == [i \in J |-> i - 1]
<1>1. Tail(s) \in Seq(S) /\ Len(Tail(s)) = Len(s) - 1 /\ Len(s) \in Nat OBVIOUS
<1>2. IsFiniteSet(I(s)) /\ IsFiniteSet(I(Tail(s))) BY <1>1, CountIsNat
<1>3. CountOf(s, m) \in Nat /\ CountOf(Tail(s), m) \in Nat BY <1>1, CountIsNat
<1>4. \A i \in J : i - 1 \in I(Tail(s)) BY <1>1
<1>5. f \in [J -> I(Tail(s))] BY <1>4
<1>6. \A i, k \in J : f[i] = f[k] => i = k BY <1>1
<1>7. f \in Injection(J, I(Tail(s))) BY <1>5, <1>6 DEF Injection, IsInjective
<1> HIDE DEF f
<1>8. Cardinality(J) <= Cardinality(I(Tail(s))) BY <1>2, <1>7, FS_Injection
<1>9. Cardinality(J) = IF 1 \in I(s) THEN Cardinality(I(s)) - 1 ELSE Cardinality(I(s))
  BY <1>2, FS_RemoveElement
<1>10. 1 \in I(s) => Head(s) = m OBVIOUS
<1>11. CountOf(s, m) = Cardinality(I(s)) /\ CountOf(Tail(s), m) = Cardinality(I(Tail(s)))
  BY DEF CountOf
<1> HIDE DEF I, J
<1> QED BY <1>3, <1>8, <1>9, <1>10, <1>11
-----------------------------------------------------------------------------
(* Types.                                                                  *)

\* What the arguments need of the types.
DataOK ==
  /\ current \in Dispensers \cup {None}
  /\ disp \in [Dispensers -> Dispenser]
  /\ orders \in [Dispensers -> DatabaseOrder]
  /\ gauge_queue \in [Gauges \cup {NoGauge} -> Seq(PendingGaugeTask)]
  /\ batch \in Seq(Event)
  /\ requests \in Seq(Request)
  /\ responses \in Seq(Response)
  /\ srv \in [Dispensers -> [status : Statuses, order : OrderOrNone, ostatus : OrderStatuses]]
  /\ last_event \in Nat
  /\ log \in Seq(Event)
  /\ records \in [Orders -> Nat]
  /\ confirms \in [OrderOrNone -> Nat]

LEMMA Requests ==
  /\ <<>> \in Seq(Request)
  /\ \A d \in Dispensers \cup {None} : Status(d) \in Seq(Request)
  /\ \A d \in Dispensers \cup {None}, c \in {"CREATE", "authorize", "close"} :
       Command(c, d) \in Seq(Request)
  /\ \A g \in Gauges \cup {NoGauge} : Parameters(g) \in Seq(Request)
  /\ \A n \in Nat : <<[cmd |-> "EVENTS", from |-> n]>> \in Seq(Request)
<1>1. \A r \in Request : <<r>> \in Seq(Request) OBVIOUS
<1>2. /\ \A d \in Dispensers, c \in {"STATUS", "CREATE", "authorize", "close"} :
           [cmd |-> c, dev |-> d] \in Request
      /\ \A g \in Gauges \cup {NoGauge} : [cmd |-> "PARAMETERS", gauge |-> g] \in Request
      /\ \A n \in Nat : [cmd |-> "EVENTS", from |-> n] \in Request
  BY DEF Request
<1>3. <<>> \in Seq(Request) OBVIOUS
<1> QED BY <1>1, <1>2, <1>3 DEF Status, Command, Parameters

LEMMA GaugeIds ==
  /\ \A d \in Dispensers : GaugeOf[d] \in Gauges
  /\ \A d \in Dispensers, known \in BOOLEAN : getLevelGaugeId(d, known) \in Gauges \cup {NoGauge}
  BY PrimeNames DEF getLevelGaugeId

LEMMA Concat ==
  ASSUME NEW S, NEW s \in Seq(S), NEW t \in Seq(S) PROVE s \o t \in Seq(S)
  OBVIOUS

LEMMA Replace ==
  ASSUME NEW S, NEW T, NEW f \in [S -> T], NEW a \in S, NEW v \in T
  PROVE  [f EXCEPT ![a] = v] \in [S -> T]
  OBVIOUS

LEMMA Pushed ==
  ASSUME NEW q \in [Gauges \cup {NoGauge} -> Seq(PendingGaugeTask)],
         NEW g \in Gauges \cup {NoGauge}, NEW o \in OrderOrNone, NEW t \in {"BEFORE", "AFTER"}
  PROVE  PushTask(q, g, o, t) \in [Gauges \cup {NoGauge} -> Seq(PendingGaugeTask)]
<1>1. [order |-> o, task |-> t] \in PendingGaugeTask BY DEF PendingGaugeTask
<1>2. Append(q[g], [order |-> o, task |-> t]) \in Seq(PendingGaugeTask) BY <1>1
<1> QED BY <1>2, Replace DEF PushTask

LEMMA Responses ==
  /\ \A r \in Response :
       /\ r.kind = "events" => r.events \in Seq(Event)
       /\ r.kind = "status" => /\ r.dev \in Dispensers /\ r.status \in Statuses
                               /\ r.order \in OrderOrNone /\ r.ostatus \in OrderStatuses
       /\ r.kind = "parameters" => /\ r.gauge \in Gauges
                                   /\ r = [kind |-> "parameters", gauge |-> r.gauge]
  /\ \A es \in Seq(Event) : [kind |-> "events", events |-> es] \in Response
  /\ \A g \in Gauges : [kind |-> "parameters", gauge |-> g] \in Response
  /\ [kind |-> "low_volume"] \in Response
  /\ \A d \in Dispensers, s \in Statuses, o \in OrderOrNone, t \in OrderStatuses :
       [kind |-> "status", dev |-> d, status |-> s, order |-> o, ostatus |-> t] \in Response
  BY DEF Response

LEMMA RequestFields ==
  \A r \in Request :
    /\ r.cmd = "EVENTS" => r.from \in Nat
    /\ r.cmd \in {"STATUS", "CREATE", "authorize", "close"} => r.dev \in Dispensers
    /\ r.cmd = "PARAMETERS" => /\ r.gauge \in Gauges \cup {NoGauge}
                               /\ r = [cmd |-> "PARAMETERS", gauge |-> r.gauge]
  BY DEF Request
\* A cancelled transaction queues a gauge task and sends requests.
LEMMA CancelTypes ==
  ASSUME DataOK, ImmediatelyCancelTransaction
  PROVE  /\ gauge_queue' \in [Gauges \cup {NoGauge} -> Seq(PendingGaugeTask)]
         /\ requests' \in Seq(Request)
<1>1. CASE current = None \/ ~orders[current].product
  BY <1>1 DEF ImmediatelyCancelTransaction, DataOK
<1>2. CASE ~(current = None \/ ~orders[current].product)
  <2> DEFINE o == orders[current].id
  <2>1. current \in Dispensers /\ GaugeOf[current] \in Gauges BY <1>2, GaugeIds DEF DataOK
  <2>2. o \in OrderOrNone BY <2>1 DEF DataOK, DatabaseOrder
  <2>3. Command("close", current) \in Seq(Request) /\ Parameters(GaugeOf[current]) \in Seq(Request)
    BY <2>1, Requests
  <2>4. PushTask(gauge_queue, GaugeOf[current], o, "AFTER")
          \in [Gauges \cup {NoGauge} -> Seq(PendingGaugeTask)]
    BY <2>1, <2>2, Pushed DEF DataOK
  <2>5. CASE o \in DOMAIN sales
    <3>1. /\ gauge_queue' = PushTask(gauge_queue, GaugeOf[current], o, "AFTER")
          /\ requests' = requests \o (Parameters(GaugeOf[current]) \o Command("close", current))
      BY <1>2, <2>5 DEF ImmediatelyCancelTransaction, Send
    <3>2. Parameters(GaugeOf[current]) \o Command("close", current) \in Seq(Request)
      BY <2>3, Concat
    <3> QED BY <2>4, <3>1, <3>2, Concat DEF DataOK
  <2>6. CASE o \notin DOMAIN sales
    <3>1. gauge_queue' = gauge_queue /\ requests' = requests \o Command("close", current)
      BY <1>2, <2>6 DEF ImmediatelyCancelTransaction, Send
    <3> QED BY <2>3, <3>1, Concat DEF DataOK
  <2> QED BY <2>5, <2>6
<1> QED BY <1>1, <1>2
\* What handle() does with a status answer of the dispenser.
LEMMA StatusTypes ==
  ASSUME DataOK, NEW r \in Response, r.kind = "status", NEW o \in OrderOrNone
  PROVE  /\ Observed(r) \in DatabaseOrder
         /\ [orders EXCEPT ![r.dev] = Observed(r)] \in [Dispensers -> DatabaseOrder]
         /\ ObserveStatus(r, o) => disp' \in [Dispensers -> Dispenser]
<1>1. r.dev \in Dispensers /\ r.status \in Statuses BY Responses
<1>2. orders[r.dev] \in DatabaseOrder /\ disp[r.dev] \in Dispenser BY <1>1 DEF DataOK
<1>3. Observed(r) \in DatabaseOrder BY <1>2 DEF Observed, DatabaseOrder
<1>4. [status |-> r.status, order_id |-> o,
       product |-> disp[r.dev].product \/ r.status # "IDLE"] \in Dispenser
  BY <1>1, <1>2 DEF Dispenser
<1>5. ObserveStatus(r, o) => disp' \in [Dispensers -> Dispenser]
  BY <1>1, <1>4, Replace DEF ObserveStatus, DataOK
<1>6. [orders EXCEPT ![r.dev] = Observed(r)] \in [Dispensers -> DatabaseOrder]
  BY <1>1, <1>3, Replace DEF DataOK
<1> QED BY <1>3, <1>5, <1>6

\* The touches and the tick change no record and send requests.
LEMMA TouchTypes ==
  ASSUME DataOK, Display \/ Poll \/ checkTimers
  PROVE  DataOK'
<1> USE DEF Touch, Called, Send, srvVars, payVars, tellVars, pollVars, logicVars
<1>1. ASSUME NEW d \in Dispensers, handleChooseTRK(d) PROVE DataOK'
  BY <1>1 DEF handleChooseTRK, DataOK
<1>2. CASE ForgetDispenser BY <1>2 DEF ForgetDispenser, DataOK
<1>3. CASE createOrder
  <2>1. Command("CREATE", current) \in Seq(Request) BY Requests DEF DataOK
  <2> QED BY <1>3, <2>1, Concat DEF createOrder, DataOK
<1>4. CASE handleBasicTouch
  <2>1. Status(current) \in Seq(Request) BY Requests DEF DataOK
  <2> QED BY <1>4, <2>1, Concat DEF handleBasicTouch, DataOK
<1>5. CASE CloseOrderButton
  <2>1. Command("close", current) \in Seq(Request) /\ Status(current) \in Seq(Request)
    BY Requests DEF DataOK
  <2>2. \A q \in {Status(current), <<>>} : Command("close", current) \o q \in Seq(Request)
    BY <2>1, Concat, Requests
  <2> HIDE DEF Send
  <2>3. PICK q \in {Status(current), <<>>} : Send(Command("close", current) \o q)
    BY <1>5 DEF CloseOrderButton
  <2>4. requests' \in Seq(Request) BY <2>2, <2>3, Concat DEF Send, DataOK
  <2> QED BY <1>5, <2>4 DEF CloseOrderButton, DataOK
<1>6. CASE BeginFuelling
  <2>1. Command("authorize", current) \in Seq(Request) BY Requests DEF DataOK
  <2>2. requests' \in Seq(Request)
    BY <1>6, <2>1, Concat, Requests DEF BeginFuelling, authorizeOnServer, DataOK
  <2> QED BY <1>6, <2>2 DEF BeginFuelling, DataOK
<1>7. CASE CancelTransactionButton
  BY <1>7, CancelTypes DEF CancelTransactionButton, DataOK
<1>8. CASE Poll
  <2>1. requests' \in Seq(Request) BY <1>8, Concat, Requests DEF Poll, DataOK
  <2> QED BY <1>8, <2>1 DEF Poll, DataOK
<1>9. CASE checkTimers BY <1>9 DEF checkTimers, DataOK
<1> QED BY <1>1, <1>2, <1>3, <1>4, <1>5, <1>6, <1>7, <1>8, <1>9 DEF Display
\* An event of the batch, and an answer in hand, are typed.
LEMMA FrontTypes ==
  ASSUME DataOK
  PROVE  /\ batch # <<>> => /\ Head(batch) \in Event /\ Tail(batch) \in Seq(Event)
                            /\ Head(batch).dev \in Dispensers /\ Head(batch).id \in Nat
                            /\ Head(batch).what = "status" => Head(batch).status \in Statuses
                            /\ Head(batch).what = "created" => Head(batch).order \in Orders
         /\ responses # <<>> => /\ Head(responses) \in Response
                                /\ Tail(responses) \in Seq(Response)
         /\ requests # <<>> => /\ Head(requests) \in Request
                               /\ Tail(requests) \in Seq(Request)
<1>1. batch # <<>> => Head(batch) \in Event /\ Tail(batch) \in Seq(Event) BY DEF DataOK
<1> QED BY <1>1 DEF DataOK, Event

\* Visiting an event.
LEMMA VisitTypes ==
  ASSUME DataOK, StatusEvent \/ OrderChangedEvent \/ OrderCreatedEvent
  PROVE  DataOK'
<1> USE DEF srvVars, payVars, tellVars
<1> DEFINE e == Head(batch)
           d == e.dev
<1>1. /\ batch # <<>> /\ batch' = Tail(batch) /\ last_event' = e.id
  BY DEF StatusEvent, OrderChangedEvent, OrderCreatedEvent, Visit
<1>2. /\ e \in Event /\ d \in Dispensers /\ e.id \in Nat
      /\ batch' \in Seq(Event) /\ last_event' \in Nat
  BY <1>1, FrontTypes
<1>3. orders[d] \in DatabaseOrder /\ disp[d] \in Dispenser BY <1>2 DEF DataOK
<1>4. Status(d) \in Seq(Request) /\ Command("close", d) \in Seq(Request) BY <1>2, Requests
<1>5. CASE StatusEvent
  <2> DEFINE product == disp[d].product \/ e.status # "IDLE"
             g == getLevelGaugeId(d, product)
             back == e.status = "IDLE" /\ disp[d].status \in {"COMPLETE", "FUELLING"}
             report == SendsEnd(d, back)
             sent == (IF back THEN Command("close", d) ELSE <<>>)
                     \o (IF report THEN Parameters(g) ELSE <<>>)
  <2>1. /\ disp' = [disp EXCEPT ![d].status = e.status, ![d].product = product]
        /\ orders' = IF back THEN [orders EXCEPT ![d].closed = TRUE] ELSE orders
        /\ gauge_queue' = IF report THEN PushTask(gauge_queue, g, disp[d].order_id, "AFTER")
                                    ELSE gauge_queue
        /\ requests' = requests \o sent
    BY <1>5 DEF StatusEvent, Send
  <2>2. e.status \in Statuses /\ g \in Gauges \cup {NoGauge} /\ disp[d].order_id \in OrderOrNone
    BY <1>1, <1>2, <1>3, <1>5, GaugeIds, FrontTypes DEF StatusEvent, Visit, Dispenser
  <2>3. disp' \in [Dispensers -> Dispenser] BY <1>2, <1>3, <2>1, <2>2 DEF DataOK, Dispenser
  <2>4. orders' \in [Dispensers -> DatabaseOrder]
    BY <1>2, <1>3, <2>1 DEF DataOK, DatabaseOrder
  <2>5. gauge_queue' \in [Gauges \cup {NoGauge} -> Seq(PendingGaugeTask)]
    BY <2>1, <2>2, Pushed DEF DataOK
  <2>6. sent \in Seq(Request) BY <1>4, <2>2, Requests, Concat
  <2>7. requests' \in Seq(Request) BY <2>1, <2>6, Concat DEF DataOK
  <2> QED BY <1>2, <1>5, <2>3, <2>4, <2>5, <2>7 DEF StatusEvent, DataOK
<1>6. CASE OrderChangedEvent
  <2> DEFINE o == orders[d].id
             g == getLevelGaugeId(d, orders[d].product)
  <2>1. o \in OrderOrNone /\ g \in Gauges \cup {NoGauge}
    BY <1>2, <1>3, GaugeIds DEF DatabaseOrder
  <2>2. e.status \in OrderStatuses /\ orders' = [orders EXCEPT ![d].status = e.status]
    BY <1>6 DEF OrderChangedEvent, OrderStatuses
  <2>3. orders' \in [Dispensers -> DatabaseOrder]
    BY <1>2, <1>3, <2>2 DEF DataOK, DatabaseOrder
  <2>4. /\ \/ requests' = requests \o Status(d) \/ requests' = requests \o Parameters(g)
        /\ gauge_queue' \in {gauge_queue, PushTask(gauge_queue, g, o, "BEFORE")}
    BY <1>6 DEF OrderChangedEvent, Send, QueryBefore
  <2> HIDE DEF o, g
  <2>5. Parameters(g) \in Seq(Request) BY <2>1, Requests
  <2>6. PushTask(gauge_queue, g, o, "BEFORE") \in [Gauges \cup {NoGauge} -> Seq(PendingGaugeTask)]
    BY <2>1, Pushed DEF DataOK
  <2>7. requests' \in Seq(Request)
    <3>1. requests \in Seq(Request) BY DEF DataOK
    <3>2. requests \o Status(d) \in Seq(Request) BY <1>4, <3>1, Concat
    <3>3. requests \o Parameters(g) \in Seq(Request) BY <2>5, <3>1, Concat
    <3> QED BY <2>4, <3>2, <3>3
  <2>8. gauge_queue' \in [Gauges \cup {NoGauge} -> Seq(PendingGaugeTask)]
    BY <2>4, <2>6 DEF DataOK
  <2> QED BY <1>2, <1>6, <2>3, <2>7, <2>8 DEF OrderChangedEvent, DataOK
<1>7. CASE OrderCreatedEvent
  <2>1. e.order \in Orders BY <1>1, <1>7, FrontTypes DEF OrderCreatedEvent, Visit
  <2>2. CASE e.dev = current /\ authorizeOnServer(TRUE, next, Status(e.dev))
             /\ orders' = [orders EXCEPT ![e.dev] = [DefaultOrder EXCEPT !.id = e.order]]
             /\ records' = [records EXCEPT ![e.order] = @ + 1]
    <3>1. [DefaultOrder EXCEPT !.id = e.order] \in DatabaseOrder
      BY <2>1 DEF OrderOrNone, DefaultOrder, DatabaseOrder, OrderStatuses
    <3>2. orders' \in [Dispensers -> DatabaseOrder] BY <1>2, <2>2, <3>1, Replace DEF DataOK
    <3>3. records' \in [Orders -> Nat] BY <2>1, <2>2 DEF DataOK
    <3>4. Command("authorize", current) \in Seq(Request) BY Requests DEF DataOK
    <3>5. \A b \in BOOLEAN : (IF b THEN Command("authorize", current) ELSE <<>>) \o Status(e.dev)
                               \in Seq(Request)
      BY <1>4, <3>4, Requests, Concat
    <3>6. requests' \in Seq(Request)
      BY <2>2, <3>5, Concat DEF authorizeOnServer, Send, DataOK
    <3> QED BY <1>2, <1>7, <3>2, <3>3, <3>6 DEF OrderCreatedEvent, DataOK
  <2>3. CASE UNCHANGED <<orders, records, ready, next, requests>>
    BY <1>2, <1>7, <2>3 DEF OrderCreatedEvent, DataOK
  <2> QED BY <1>7, <2>2, <2>3 DEF OrderCreatedEvent
<1> QED BY <1>5, <1>6, <1>7
\* Handling the other answers.
LEMMA AnswerTypes ==
  ASSUME DataOK,
         \/ EventsAnswer \/ StatusWithoutOrder \/ StatusOfDeadOrder \/ StatusOfOrder
         \/ ParametersWithoutTask \/ ParametersBefore \/ ParametersAfter \/ LowVolumeAnswer
  PROVE  DataOK'
<1> USE DEF Handling, Taken, srvVars, payVars, tellVars, pollVars, logicVars
<1> DEFINE r == Head(responses)
           Queue == Gauges \cup {NoGauge}
<1>1. responses # <<>> /\ responses' = Tail(responses)
  BY DEF EventsAnswer, StatusWithoutOrder, StatusOfDeadOrder, StatusOfOrder,
         ParametersWithoutTask, ParametersBefore, ParametersAfter, LowVolumeAnswer
<1>2. r \in Response /\ responses' \in Seq(Response) BY <1>1, FrontTypes
<1>3. CASE EventsAnswer
  <2>1. batch' \in Seq(Event) BY <1>2, <1>3, Responses DEF EventsAnswer
  <2> QED BY <1>2, <1>3, <2>1 DEF EventsAnswer, DataOK
<1>4. CASE StatusWithoutOrder
  <2>1. r.kind = "status" /\ r.dev \in Dispensers /\ disp[r.dev].order_id \in OrderOrNone
    BY <1>2, <1>4, Responses DEF StatusWithoutOrder, DataOK, Dispenser
  <2>2. disp' \in [Dispensers -> Dispenser] /\ orders' \in [Dispensers -> DatabaseOrder]
    BY <1>2, <1>4, <2>1, StatusTypes DEF StatusWithoutOrder
  <2> QED BY <1>2, <1>4, <2>2 DEF StatusWithoutOrder, DataOK
<1>5. CASE StatusOfDeadOrder
  <2>1. r.kind = "status" /\ r.dev \in Dispensers /\ disp[r.dev].order_id \in OrderOrNone
    BY <1>2, <1>5, Responses DEF StatusOfDeadOrder, DataOK, Dispenser
  <2>2. disp' \in [Dispensers -> Dispenser] /\ orders' \in [Dispensers -> DatabaseOrder]
    BY <1>2, <1>5, <2>1, StatusTypes DEF StatusOfDeadOrder
  <2>3. requests' = requests \o Command("close", r.dev) BY <1>5 DEF StatusOfDeadOrder, Send
  <2>4. requests' \in Seq(Request) BY <2>1, <2>3, Requests, Concat DEF DataOK
  <2> QED BY <1>2, <1>5, <2>2, <2>4 DEF StatusOfDeadOrder, DataOK
<1>6. CASE StatusOfOrder
  <2> DEFINE e == [Observed(r) EXCEPT !.status = r.ostatus]
             g == getLevelGaugeId(r.dev, e.product)
  <2>1. /\ r.kind = "status" /\ r.dev \in Dispensers /\ r.order \in OrderOrNone
        /\ r.ostatus \in OrderStatuses
    BY <1>2, <1>6, Responses DEF StatusOfOrder
  <2>2. disp' \in [Dispensers -> Dispenser] /\ Observed(r) \in DatabaseOrder
    BY <1>2, <1>6, <2>1, StatusTypes DEF StatusOfOrder
  <2>3. e \in DatabaseOrder BY <2>1, <2>2 DEF DatabaseOrder
  <2>4. e.id \in OrderOrNone /\ g \in Gauges \cup {NoGauge}
    BY <2>1, <2>3, GaugeIds DEF DatabaseOrder
  <2>5. [e EXCEPT !.finalized = TRUE] \in DatabaseOrder BY <2>3 DEF DatabaseOrder
  <2>6. processOrderFinalization(r.dev, e) BY <1>6 DEF StatusOfOrder
  <2> HIDE DEF e, g
  <2>7. Parameters(g) \in Seq(Request) /\ <<>> \in Seq(Request) BY <2>4, Requests
  <2>8. PushTask(gauge_queue, g, e.id, "AFTER") \in [Gauges \cup {NoGauge} -> Seq(PendingGaugeTask)]
    BY <2>4, Pushed DEF DataOK
  <2>9. /\ orders' \in [Dispensers -> DatabaseOrder]
        /\ gauge_queue' \in [Gauges \cup {NoGauge} -> Seq(PendingGaugeTask)]
        /\ requests' \in Seq(Request)
        /\ confirms' \in [OrderOrNone -> Nat]
    <3>1. CASE Finalizes(e)
      <4>1. /\ orders' = [orders EXCEPT ![r.dev] = [e EXCEPT !.finalized = TRUE]]
            /\ gauge_queue' = IF e.closed THEN PushTask(gauge_queue, g, e.id, "AFTER")
                                          ELSE gauge_queue
            /\ requests' = requests \o (IF e.closed THEN Parameters(g) ELSE <<>>)
            /\ confirms' = [confirms EXCEPT ![e.id] = @ + 1]
        BY <2>6, <3>1 DEF processOrderFinalization, Send, g
      <4>2. orders' \in [Dispensers -> DatabaseOrder] BY <2>1, <2>5, <4>1, Replace DEF DataOK
      <4>3. requests' \in Seq(Request) BY <2>7, <4>1, Concat DEF DataOK
      <4>4. confirms' \in [OrderOrNone -> Nat] BY <2>4, <4>1 DEF DataOK
      <4> QED BY <2>8, <4>1, <4>2, <4>3, <4>4 DEF DataOK
    <3>2. CASE ~Finalizes(e)
      <4>1. /\ orders' = [orders EXCEPT ![r.dev] = e]
            /\ UNCHANGED <<gauge_queue, requests, confirms>>
        BY <2>6, <3>2 DEF processOrderFinalization
      <4>2. orders' \in [Dispensers -> DatabaseOrder] BY <2>1, <2>3, <4>1, Replace DEF DataOK
      <4> QED BY <4>1, <4>2 DEF DataOK
    <3> QED BY <3>1, <3>2
  <2> QED BY <1>2, <1>6, <2>2, <2>9 DEF StatusOfOrder, DataOK
<1>7. CASE ParametersWithoutTask BY <1>2, <1>7 DEF ParametersWithoutTask, DataOK
<1>8. CASE ParametersBefore
  <2>1. r.gauge \in Gauges BY <1>2, <1>8, Responses DEF ParametersBefore
  <2>2. Tail(gauge_queue[r.gauge]) \in Seq(PendingGaugeTask)
    BY <1>8, <2>1 DEF ParametersBefore, DataOK
  <2>3. gauge_queue' \in [Gauges \cup {NoGauge} -> Seq(PendingGaugeTask)]
    BY <1>8, <2>1, <2>2, Replace DEF ParametersBefore, DataOK
  <2> QED BY <1>2, <1>8, <2>3 DEF ParametersBefore, DataOK
<1>9. CASE ParametersAfter
  <2>1. r.gauge \in Gauges BY <1>2, <1>9, Responses DEF ParametersAfter
  <2> DEFINE q == gauge_queue[r.gauge]
  <2>2. /\ q # <<>>
        /\ gauge_queue' \in {[gauge_queue EXCEPT ![r.gauge] = <<>>],
                             [gauge_queue EXCEPT ![r.gauge] = Tail(q)]}
    BY <1>9 DEF ParametersAfter
  <2>3. <<>> \in Seq(PendingGaugeTask) /\ q \in Seq(PendingGaugeTask) BY <2>1 DEF DataOK
  <2>4. Tail(q) \in Seq(PendingGaugeTask) BY <2>2, <2>3
  <2> HIDE DEF q
  <2>5. gauge_queue' \in [Gauges \cup {NoGauge} -> Seq(PendingGaugeTask)]
    BY ZenonT(60), <2>1, <2>2, <2>3, <2>4, Replace DEF DataOK
  <2> QED BY <1>2, <1>9, <2>5 DEF ParametersAfter, DataOK
<1>10. CASE LowVolumeAnswer
  BY <1>2, <1>10, CancelTypes DEF LowVolumeAnswer, DataOK
<1> QED BY <1>3, <1>4, <1>5, <1>6, <1>7, <1>8, <1>9, <1>10

\* The card terminal.
LEMMA CardTypes ==
  ASSUME DataOK, CardTerminal
  PROVE  DataOK'
<1> USE DEF Called, srvVars, tellVars, pollVars, logicVars
<1>1. ASSUME NEW o \in Orders, PaymentSuccess(o) PROVE DataOK'
  BY <1>1 DEF PaymentSuccess, DataOK
<1>2. ASSUME NEW o \in Orders, PaymentFailure(o) PROVE DataOK'
  <2>1. requests' = requests \o Command("close", current) BY <1>2 DEF PaymentFailure, Send
  <2>2. requests' \in Seq(Request) BY <2>1, Requests, Concat DEF DataOK
  <2> QED BY <1>2, <2>2 DEF PaymentFailure, DataOK
<1>3. CASE ConfirmAnswer BY <1>3 DEF ConfirmAnswer, DataOK
<1>4. CASE CancelAnswer BY <1>4 DEF CancelAnswer, DataOK
<1> QED BY <1>1, <1>2, <1>3, <1>4 DEF CardTerminal
\* An event as the controller tells it, before the journal numbers it.
News ==
       [dev : Dispensers, what : {"status"}, status : Statuses, order : {NoOrder}]
  \cup [dev : Dispensers, what : {"changed"}, status : {"AUTHORIZED"} \cup Finished,
        order : OrderOrNone]
  \cup [dev : Dispensers, what : {"created"}, status : {"READY"}, order : Orders]

\* What the controller writes into its journal are events.
LEMMA LoggedTypes ==
  ASSUME DataOK, NEW es \in Seq(News), Logged(es)
  PROVE  /\ log' \in Seq(Event) /\ Len(log') = Len(log) + Len(es)
         /\ \A i \in 1..Len(log) : log'[i] = log[i]
         /\ \A i \in 1..Len(es) : /\ log'[Len(log) + i].id = Len(log) + i
                                  /\ log'[Len(log) + i].dev = es[i].dev
                                  /\ log'[Len(log) + i].what = es[i].what
                                  /\ log'[Len(log) + i].status = es[i].status
                                  /\ log'[Len(log) + i].order = es[i].order
<1> DEFINE new(i) == [id |-> Len(log) + i, dev |-> es[i].dev, what |-> es[i].what,
                      status |-> es[i].status, order |-> es[i].order]
           news == [i \in 1..Len(es) |-> new(i)]
<1>1. Len(log) \in Nat /\ Len(es) \in Nat /\ log \in Seq(Event) BY DEF DataOK
<1>2. ASSUME NEW i \in 1..Len(es) PROVE new(i) \in Event
  <2>1. es[i] \in News /\ Len(log) + i \in Nat BY <1>1, <1>2
  <2> QED BY <2>1 DEF News, Event
<1>3. news \in Seq(Event) BY <1>1, <1>2
<1>4. log' = log \o news BY DEF Logged
<1>5. Len(news) = Len(es) /\ \A i \in 1..Len(es) : news[i] = new(i) BY <1>1
<1> HIDE DEF news
<1>6. log' \in Seq(Event) /\ Len(log') = Len(log) + Len(es)
  <2>1. log \o news \in Seq(Event) BY <1>1, <1>3, Concat
  <2>2. Len(log \o news) = Len(log) + Len(news) BY <1>1, <1>3
  <2> QED BY <1>4, <1>5, <2>1, <2>2
<1>7. \A i \in 1..Len(log) : log'[i] = log[i] BY <1>1, <1>3, <1>4
<1>8. \A i \in 1..Len(es) : log'[Len(log) + i] = new(i)
  <2>1. \A i \in 1..Len(news) : (log \o news)[Len(log) + i] = news[i] BY <1>1, <1>3
  <2> QED BY <1>4, <1>5, <2>1
<1>9. \A i \in 1..Len(es) : /\ new(i).id = Len(log) + i /\ new(i).dev = es[i].dev
                             /\ new(i).what = es[i].what /\ new(i).status = es[i].status
                             /\ new(i).order = es[i].order
  OBVIOUS
<1> HIDE DEF new
<1> QED BY <1>6, <1>7, <1>8, <1>9
LEMMA NewsTypes ==
  ASSUME NEW d \in Dispensers
  PROVE  /\ \A s \in Statuses : StatusChanged(d, s) \in News
         /\ DataOK => \A s \in {"AUTHORIZED"} \cup Finished : OrderChanged(d, s) \in News
         /\ \A o \in Orders : [dev |-> d, what |-> "created", status |-> "READY", order |-> o] \in News
<1>1. DataOK => srv[d].order \in OrderOrNone BY DEF DataOK
<1> QED BY <1>1 DEF News, StatusChanged, OrderChanged

LEMMA ServeTypes ==
  ASSUME DataOK,
         \/ ServeEvents \/ ServeStatus \/ ServeParameters
         \/ ServeCreate \/ ServeAuthorize \/ ServeClose \/ RequestFails
  PROVE  DataOK'
<1> USE DEF payVars, tellVars, pollVars, logicVars
<1> DEFINE q == Head(requests)
<1>1. requests # <<>> /\ requests' = Tail(requests)
  BY DEF ServeEvents, ServeStatus, ServeParameters, ServeCreate, ServeAuthorize, ServeClose,
         RequestFails, Served, Answer, Acknowledge
<1>2. q \in Request /\ requests' \in Seq(Request) BY <1>1, FrontTypes
<1>3. \A r \in Response : Append(responses, r) \in Seq(Response) BY DEF DataOK
<1>4. CASE ServeEvents
  <2>1. q.from \in Nat BY <1>2, <1>4, RequestFields DEF ServeEvents, Served
  <2>2. SubSeq(log, q.from + 1, Len(log)) \in Seq(Event) BY <2>1 DEF DataOK
  <2>3. responses' \in Seq(Response)
    BY <1>3, <1>4, <2>2, Responses DEF ServeEvents, Answer
  <2> QED BY <1>2, <1>4, <2>3 DEF ServeEvents, Answer, DataOK
<1>5. CASE ServeStatus
  <2>1. q.dev \in Dispensers BY <1>2, <1>5, RequestFields DEF ServeStatus, Served
  <2>2. /\ srv[q.dev].status \in Statuses /\ srv[q.dev].order \in OrderOrNone
        /\ srv[q.dev].ostatus \in OrderStatuses
    BY <2>1 DEF DataOK
  <2>3. responses' \in Seq(Response)
    BY <1>3, <1>5, <2>1, <2>2, Responses DEF ServeStatus, Answer
  <2> QED BY <1>2, <1>5, <2>3 DEF ServeStatus, Answer, DataOK
<1>6. CASE ServeParameters
  <2>1. q.gauge \in Gauges \cup {NoGauge}
    BY <1>2, <1>6, RequestFields DEF ServeParameters, Served
  <2>2. responses' \in Seq(Response)
    BY <1>3, <1>6, <2>1, Responses DEF ServeParameters, Answer, Acknowledge, DataOK
  <2> QED BY <1>2, <1>6, <2>2 DEF ServeParameters, Answer, Acknowledge, DataOK
<1>7. CASE ServeCreate
  <2>1. q.dev \in Dispensers BY <1>2, <1>7, RequestFields DEF ServeCreate, Served
  <2>2. CASE \E o \in Orders \ Used :
              /\ CanCreate(q.dev)
              /\ srv' = [srv EXCEPT ![q.dev].order = o, ![q.dev].ostatus = "READY"]
              /\ Logged(<<[dev |-> q.dev, what |-> "created", status |-> "READY", order |-> o]>>)
              /\ Acknowledge
    <3>1. PICK o \in Orders \ Used :
              /\ srv' = [srv EXCEPT ![q.dev].order = o, ![q.dev].ostatus = "READY"]
              /\ Logged(<<[dev |-> q.dev, what |-> "created", status |-> "READY", order |-> o]>>)
              /\ Acknowledge
      BY <2>2
    <3>2. <<[dev |-> q.dev, what |-> "created", status |-> "READY", order |-> o]>> \in Seq(News)
      BY <2>1, NewsTypes
    <3>3. log' \in Seq(Event) BY <3>1, <3>2, LoggedTypes
    <3>4. srv' \in [Dispensers -> [status : Statuses, order : OrderOrNone, ostatus : OrderStatuses]]
      BY ZenonT(60), <2>1, <3>1 DEF DataOK, OrderOrNone, OrderStatuses
    <3> QED BY <1>2, <3>1, <3>3, <3>4 DEF Acknowledge, DataOK
  <2>3. CASE Answer([kind |-> "low_volume"]) /\ UNCHANGED <<srv, log>>
    <3>1. responses' \in Seq(Response) BY <1>3, <2>3, Responses DEF Answer
    <3> QED BY <1>2, <2>3, <3>1 DEF Answer, DataOK
  <2>4. CASE Acknowledge /\ UNCHANGED <<srv, log>>
    BY <1>2, <2>4 DEF Acknowledge, DataOK
  <2> QED BY <1>7, <2>2, <2>3, <2>4 DEF ServeCreate
<1>8. CASE ServeAuthorize
  <2>1. q.dev \in Dispensers /\ Acknowledge
    BY <1>2, <1>8, RequestFields DEF ServeAuthorize, Served
  <2>2. CASE srv[q.dev].ostatus = "READY"
    <3>1. /\ srv' = [srv EXCEPT ![q.dev].ostatus = "AUTHORIZED"]
          /\ Logged(<<OrderChanged(q.dev, "AUTHORIZED")>>)
      BY <1>8, <2>2 DEF ServeAuthorize
    <3>2. <<OrderChanged(q.dev, "AUTHORIZED")>> \in Seq(News) BY <2>1, NewsTypes
    <3>3. log' \in Seq(Event) BY <3>1, <3>2, LoggedTypes
    <3>4. srv' \in [Dispensers -> [status : Statuses, order : OrderOrNone, ostatus : OrderStatuses]]
      BY <2>1, <3>1 DEF DataOK, OrderStatuses
    <3> QED BY <1>2, <2>1, <3>3, <3>4 DEF Acknowledge, DataOK
  <2>3. CASE srv[q.dev].ostatus # "READY"
    <3>1. UNCHANGED <<srv, log>> BY <1>8, <2>3 DEF ServeAuthorize
    <3> QED BY <1>2, <2>1, <3>1 DEF Acknowledge, DataOK
  <2> QED BY <2>2, <2>3
<1>9. CASE ServeClose
  <2>1. q.dev \in Dispensers /\ Acknowledge
    BY <1>2, <1>9, RequestFields DEF ServeClose, Served
  <2>2. srv' \in [Dispensers -> [status : Statuses, order : OrderOrNone, ostatus : OrderStatuses]]
    BY ZenonT(60), <1>9, <2>1 DEF ServeClose, DataOK, OrderOrNone, OrderStatuses
  <2> QED BY <1>2, <1>9, <2>1, <2>2 DEF ServeClose, Acknowledge, DataOK
<1>10. CASE RequestFails BY <1>2, <1>10 DEF RequestFails, Acknowledge, DataOK
<1> QED BY <1>4, <1>5, <1>6, <1>7, <1>8, <1>9, <1>10

\* A step at a dispenser: the controller notes it, the program does not move.
Happens(d) ==
  LiftNozzle(d) \/ HangNozzle(d) \/ StartFuelling(d) \/ Deliver(d) \/ Interrupt(d)

LEMMA ForecourtNews ==
  ASSUME DataOK, NEW d \in Dispensers, Happens(d)
  PROVE  /\ \E es \in Seq(News) : Logged(es) /\ \A i \in 1..Len(es) : es[i].what # "created"
         /\ Forecourt
         /\ srv' \in [Dispensers -> [status : Statuses, order : OrderOrNone, ostatus : OrderStatuses]]
<1>1. Forecourt
  BY DEF Happens, LiftNozzle, HangNozzle, StartFuelling, Deliver, Interrupt
<1>2. srv' \in [Dispensers -> [status : Statuses, order : OrderOrNone, ostatus : OrderStatuses]]
  <2>1. srv \in [Dispensers -> [status : Statuses, order : OrderOrNone, ostatus : OrderStatuses]]
    BY DEF DataOK
  <2>2. \E s \in Statuses, t \in OrderStatuses :
          srv' \in {[srv EXCEPT ![d].status = s], [srv EXCEPT ![d].status = s, ![d].ostatus = t]}
    BY DEF Happens, LiftNozzle, HangNozzle, StartFuelling, Deliver, Interrupt,
           Statuses, OrderStatuses, Finished
  <2> QED BY <2>1, <2>2
<1> DEFINE N(s) == StatusChanged(d, s)
           C(s) == OrderChanged(d, s)
<1>3. /\ \A s \in Statuses : N(s) \in News /\ N(s).what # "created"
      /\ \A s \in Finished : C(s) \in News /\ C(s).what # "created"
  BY NewsTypes DEF StatusChanged, OrderChanged
<1>4. \/ \E s \in Statuses : Logged(<<N(s)>>)
      \/ \E s \in Statuses, t \in Finished : Logged(<<N(s), C(t)>>) \/ Logged(<<C(t), N(s)>>)
  BY DEF Happens, LiftNozzle, HangNozzle, StartFuelling, Deliver, Interrupt, Statuses, Finished
<1> HIDE DEF N, C
<1>5. \A s \in Statuses, t \in Finished :
        /\ <<N(s)>> \in Seq(News)
        /\ <<N(s), C(t)>> \in Seq(News) /\ <<C(t), N(s)>> \in Seq(News)
        /\ \A i \in 1..1 : <<N(s)>>[i].what # "created"
        /\ \A i \in 1..2 : /\ <<N(s), C(t)>>[i].what # "created"
                           /\ <<C(t), N(s)>>[i].what # "created"
  BY <1>3
<1>6. \E es \in Seq(News) : Logged(es) /\ \A i \in 1..Len(es) : es[i].what # "created"
  <2>1. CASE \E s \in Statuses : Logged(<<N(s)>>)
    <3>1. PICK s \in Statuses : Logged(<<N(s)>>) BY <2>1
    <3>2. Len(<<N(s)>>) = 1 OBVIOUS
    <3>3. "DELIVERED" \in Finished BY DEF Finished
    <3> QED BY <1>5, <3>1, <3>2, <3>3
  <2>2. CASE \E s \in Statuses, t \in Finished : Logged(<<N(s), C(t)>>) \/ Logged(<<C(t), N(s)>>)
    <3>1. PICK s \in Statuses, t \in Finished : Logged(<<N(s), C(t)>>) \/ Logged(<<C(t), N(s)>>)
      BY <2>2
    <3>2. Len(<<N(s), C(t)>>) = 2 /\ Len(<<C(t), N(s)>>) = 2 OBVIOUS
    <3> QED BY <1>5, <3>1, <3>2
  <2> QED BY <1>4, <2>1, <2>2
<1> QED BY <1>1, <1>2, <1>6
LEMMA Types ==
  ASSUME DataOK, [Next]_vars
  PROVE  DataOK'
<1>1. CASE Display \/ Poll \/ checkTimers BY <1>1, TouchTypes
<1>2. CASE Core BY <1>2, VisitTypes, AnswerTypes DEF Core
<1>3. CASE CardTerminal BY <1>3, CardTypes
<1>4. CASE \/ ServeEvents \/ ServeStatus \/ ServeParameters
           \/ ServeCreate \/ ServeAuthorize \/ ServeClose \/ RequestFails
  BY <1>4, ServeTypes
<1>5. ASSUME NEW d \in Dispensers, Happens(d) PROVE DataOK'
  <2>1. log' \in Seq(Event) BY <1>5, ForecourtNews, LoggedTypes
  <2>2. Forecourt
        /\ srv' \in [Dispensers -> [status : Statuses, order : OrderOrNone, ostatus : OrderStatuses]]
    BY <1>5, ForecourtNews
  <2> QED BY <2>1, <2>2 DEF Forecourt, logicVars, pollVars, payVars, tellVars, DataOK
<1>6. CASE UNCHANGED vars
  BY <1>6 DEF vars, logicVars, pollVars, srvVars, payVars, tellVars, DataOK
<1> QED BY <1>1, <1>2, <1>3, <1>4, <1>5, <1>6 DEF Next, Controller, Happens

LEMMA InitTypes == Init => DataOK
<1>1. SUFFICES ASSUME Init PROVE DataOK OBVIOUS
<1>2. disp \in [Dispensers -> Dispenser] BY <1>1 DEF Init, Dispenser, Statuses, OrderOrNone
<1>3. orders \in [Dispensers -> DatabaseOrder]
  BY <1>1 DEF Init, DatabaseOrder, DefaultOrder, OrderStatuses, OrderOrNone
<1>4. srv \in [Dispensers -> [status : Statuses, order : OrderOrNone, ostatus : OrderStatuses]]
  BY <1>1 DEF Init, Statuses, OrderStatuses, OrderOrNone
<1>5. gauge_queue \in [Gauges \cup {NoGauge} -> Seq(PendingGaugeTask)]
  <2>1. <<>> \in Seq(PendingGaugeTask) OBVIOUS
  <2> QED BY <1>1, <2>1 DEF Init
<1>6. /\ batch \in Seq(Event) /\ requests \in Seq(Request) /\ responses \in Seq(Response)
      /\ log \in Seq(Event)
  <2>1. batch = <<>> /\ requests = <<>> /\ responses = <<>> /\ log = <<>> BY <1>1 DEF Init
  <2>2. <<>> \in Seq(Event) /\ <<>> \in Seq(Request) /\ <<>> \in Seq(Response) OBVIOUS
  <2> QED BY <2>1, <2>2
<1>7. records \in [Orders -> Nat] /\ confirms \in [OrderOrNone -> Nat] BY <1>1 DEF Init
<1> QED BY <1>1, <1>2, <1>3, <1>4, <1>5, <1>6, <1>7 DEF Init, DataOK

-----------------------------------------------------------------------------
(* Failed requests.                                                        *)

FailedOK == failed \in [Gauges \cup {NoGauge} -> Nat]

\* No failure is forgotten.
FailuresKept ==
  \A g \in Gauges : failed[g] \in Nat /\ failed'[g] \in Nat /\ failed'[g] >= failed[g]

LEMMA FailuresStep ==
  ASSUME DataOK, FailedOK, [Next]_vars
  PROVE  FailedOK' /\ FailuresKept
<1>1. ASSUME failed' = failed PROVE FailedOK' /\ FailuresKept BY <1>1 DEF FailedOK, FailuresKept
<1> USE DEF srvVars
<1>2. CASE Display \/ Poll \/ checkTimers
  <2>1. failed' = failed
    BY <1>2 DEF Display, handleChooseTRK, ForgetDispenser, createOrder, handleBasicTouch,
                CloseOrderButton, BeginFuelling, CancelTransactionButton, Poll, checkTimers
  <2> QED BY <1>1, <2>1
<1>3. CASE Core
  <2>1. failed' = failed
    BY <1>3 DEF Core, EventsAnswer, StatusEvent, OrderChangedEvent, OrderCreatedEvent,
                StatusWithoutOrder, StatusOfDeadOrder, StatusOfOrder, ParametersWithoutTask,
                ParametersBefore, ParametersAfter, LowVolumeAnswer
  <2> QED BY <1>1, <2>1
<1>4. CASE CardTerminal
  <2>1. failed' = failed
    BY <1>4 DEF CardTerminal, PaymentSuccess, PaymentFailure, ConfirmAnswer, CancelAnswer
  <2> QED BY <1>1, <2>1
<1>5. CASE \/ ServeEvents \/ ServeStatus \/ ServeParameters
           \/ ServeCreate \/ ServeAuthorize \/ ServeClose
  <2>1. failed' = failed
    BY <1>5 DEF ServeEvents, ServeStatus, ServeParameters, ServeCreate, ServeAuthorize, ServeClose
  <2> QED BY <1>1, <2>1
<1>6. CASE RequestFails
  <2>1. PICK g \in Gauges \cup {NoGauge} : failed' = [failed EXCEPT ![g] = @ + 1]
    <3>1. Head(requests).cmd = "PARAMETERS" => Head(requests).gauge \in Gauges \cup {NoGauge}
      BY <1>6, FrontTypes, RequestFields DEF RequestFails
    <3> QED BY <1>6, <3>1 DEF RequestFails
  <2> QED BY <2>1 DEF FailedOK, FailuresKept
<1>7. ASSUME NEW d \in Dispensers, Happens(d) PROVE FailedOK' /\ FailuresKept
  BY <1>1, <1>7, ForecourtNews DEF Forecourt
<1>8. CASE UNCHANGED vars BY <1>1, <1>8 DEF vars
<1> QED BY <1>2, <1>3, <1>4, <1>5, <1>6, <1>7, <1>8 DEF Next, Controller, Happens

-----------------------------------------------------------------------------
(* Every task is asked.                                                    *)

Question(g) == [cmd |-> "PARAMETERS", gauge |-> g]
Reading(g) == [kind |-> "parameters", gauge |-> g]

\* A gauge that is asked when its task is queued; the answer taken, if any, is
\* not a reading.
Asks(ts) ==
  /\ ts \in Seq(Request)
  /\ requests' = requests \o ts
  /\ \/ gauge_queue' = gauge_queue
     \/ \E g \in Gauges \cup {NoGauge}, o \in OrderOrNone, t \in {"BEFORE", "AFTER"} :
          /\ gauge_queue' = PushTask(gauge_queue, g, o, t)
          /\ \E j \in 1..Len(ts) : ts[j] = Question(g)
  /\ \/ responses' = responses
     \/ /\ responses # <<>> /\ Head(responses).kind # "parameters"
        /\ responses' = Tail(responses)

\* A reading that is given to the first task of its gauge, if there is one.
Reads(g) ==
  /\ g \in Gauges
  /\ responses # <<>> /\ Head(responses).gauge = g
  /\ responses' = Tail(responses)
  /\ requests' = requests
  /\ \A h \in Gauges \ {g} : gauge_queue'[h] = gauge_queue[h]
  /\ Len(gauge_queue'[g]) <= IF gauge_queue[g] = <<>> THEN 0 ELSE Len(gauge_queue[g]) - 1

\* A request that is served or fails; a question about a gauge is answered, or its
\* failure counted.
Serves ==
  /\ requests # <<>> /\ requests' = Tail(requests)
  /\ gauge_queue' = gauge_queue
  /\ \/ /\ responses' = responses
        /\ \A g \in Gauges : Head(requests) # Question(g)
     \/ \E r \in Response :
          /\ responses' = Append(responses, r)
          /\ \A g \in Gauges : Head(requests) = Question(g) => r = Reading(g)
     \/ /\ responses' = responses
        /\ \E g \in Gauges : /\ Head(requests) = Question(g)
                             /\ failed' = [failed EXCEPT ![g] = @ + 1]

LEMMA AsksKeeps ==
  ASSUME DataOK, FailuresKept, EveryTaskIsAsked, NEW ts, Asks(ts)
  PROVE  EveryTaskIsAsked'
<1> SUFFICES ASSUME NEW g \in Gauges
    PROVE  Len(gauge_queue'[g])
             <= CountOf(requests', Question(g)) + CountOf(responses', Reading(g)) + failed'[g]
  BY DEF EveryTaskIsAsked, CountOf, Question, Reading
<1>1. requests \in Seq(Request) /\ responses \in Seq(Response) BY DEF DataOK
<1>2. /\ CountOf(requests, Question(g)) \in Nat /\ CountOf(responses, Reading(g)) \in Nat
      /\ Len(gauge_queue[g]) <= CountOf(requests, Question(g)) + CountOf(responses, Reading(g)) + failed[g]
      /\ gauge_queue[g] \in Seq(PendingGaugeTask)
      /\ failed[g] \in Nat /\ failed'[g] \in Nat /\ failed'[g] >= failed[g]
  BY <1>1, CountIsNat DEF EveryTaskIsAsked, Question, Reading, DataOK, FailuresKept
<1>3. CountOf(responses', Reading(g)) >= CountOf(responses, Reading(g))
  <2>1. CASE responses' = responses BY <1>2, <2>1
  <2>2. CASE /\ responses # <<>> /\ Head(responses).kind # "parameters"
             /\ responses' = Tail(responses)
    <3>1. Head(responses) # Reading(g) BY <2>2 DEF Reading
    <3> QED BY <1>1, <2>2, <3>1, CountTail
  <2> QED BY <2>1, <2>2 DEF Asks
<1>4. responses' \in Seq(Response) /\ requests' \in Seq(Request)
  <2>1. responses # <<>> => Tail(responses) \in Seq(Response) BY <1>1
  <2>2. requests \o ts \in Seq(Request) BY <1>1, Concat DEF Asks
  <2> QED BY <1>1, <2>1, <2>2 DEF Asks
<1>5. CountOf(responses', Reading(g)) \in Nat /\ CountOf(requests', Question(g)) \in Nat
  BY <1>4, CountIsNat
<1>6. CASE gauge_queue'[g] = gauge_queue[g]
  <2>1. CountOf(requests', Question(g)) >= CountOf(requests, Question(g))
    BY <1>1, CountConcat DEF Asks
  <2> QED BY <1>2, <1>3, <1>5, <1>6, <2>1
<1>7. ASSUME NEW o, NEW t, gauge_queue' = PushTask(gauge_queue, g, o, t),
             \E j \in 1..Len(ts) : ts[j] = Question(g)
      PROVE  Len(gauge_queue'[g])
             <= CountOf(requests', Question(g)) + CountOf(responses', Reading(g)) + failed'[g]
  <2>1. CountOf(requests', Question(g)) >= CountOf(requests, Question(g)) + 1
    BY <1>1, <1>7, CountConcat DEF Asks
  <2>2. Len(gauge_queue'[g]) = Len(gauge_queue[g]) + 1 BY <1>2, <1>7 DEF PushTask, DataOK
  <2> QED BY <1>2, <1>3, <1>5, <2>1, <2>2
<1>8. \A h, o, t : h # g /\ gauge_queue' = PushTask(gauge_queue, h, o, t)
                     => gauge_queue'[g] = gauge_queue[g]
  BY DEF PushTask, DataOK
<1> QED BY <1>6, <1>7, <1>8 DEF Asks

LEMMA ReadsKeeps ==
  ASSUME DataOK, DataOK', FailuresKept, EveryTaskIsAsked, NEW g, Reads(g)
  PROVE  EveryTaskIsAsked'
<1> SUFFICES ASSUME NEW h \in Gauges
    PROVE  Len(gauge_queue'[h])
             <= CountOf(requests', Question(h)) + CountOf(responses', Reading(h)) + failed'[h]
  BY DEF EveryTaskIsAsked, CountOf, Question, Reading
<1>1. requests \in Seq(Request) /\ responses \in Seq(Response) /\ responses' \in Seq(Response)
  BY DEF DataOK
<1>2. /\ CountOf(requests, Question(h)) \in Nat /\ CountOf(responses, Reading(h)) \in Nat
      /\ CountOf(responses', Reading(h)) \in Nat
      /\ Len(gauge_queue[h]) <= CountOf(requests, Question(h)) + CountOf(responses, Reading(h)) + failed[h]
      /\ Len(gauge_queue[h]) \in Nat /\ Len(gauge_queue'[h]) \in Nat
      /\ gauge_queue[h] # <<>> => Len(gauge_queue[h]) > 0
      /\ failed[h] \in Nat /\ failed'[h] \in Nat /\ failed'[h] >= failed[h]
  <2>1. Len(gauge_queue[h]) <= CountOf(requests, Question(h)) + CountOf(responses, Reading(h)) + failed[h]
    BY DEF EveryTaskIsAsked, Question, Reading
  <2>2. gauge_queue[h] \in Seq(PendingGaugeTask) /\ gauge_queue'[h] \in Seq(PendingGaugeTask)
    BY DEF DataOK
  <2>3. /\ CountOf(requests, Question(h)) \in Nat /\ CountOf(responses, Reading(h)) \in Nat
        /\ CountOf(responses', Reading(h)) \in Nat
    BY <1>1, CountIsNat
  <2>4. failed[h] \in Nat /\ failed'[h] \in Nat /\ failed'[h] >= failed[h] BY DEF FailuresKept
  <2> QED BY <2>1, <2>2, <2>3, <2>4
<1>3. CASE h = g
  <2>1. CountOf(responses', Reading(h)) + 1 >= CountOf(responses, Reading(h))
    BY <1>1, CountTail DEF Reads
  <2>2. /\ CountOf(requests', Question(h)) = CountOf(requests, Question(h))
        /\ Len(gauge_queue'[h]) <= IF gauge_queue[h] = <<>> THEN 0 ELSE Len(gauge_queue[h]) - 1
    BY <1>3 DEF Reads
  <2> QED BY <1>2, <2>1, <2>2
<1>4. CASE h # g
  <2>1. Head(responses) # Reading(h) BY <1>4 DEF Reads, Reading
  <2>2. CountOf(responses', Reading(h)) >= CountOf(responses, Reading(h))
    BY <1>1, <2>1, CountTail DEF Reads
  <2>3. /\ CountOf(requests', Question(h)) = CountOf(requests, Question(h))
        /\ gauge_queue'[h] = gauge_queue[h]
    BY <1>4 DEF Reads
  <2> QED BY <1>2, <2>2, <2>3
<1> QED BY <1>3, <1>4

LEMMA ServesKeeps ==
  ASSUME DataOK, FailedOK, FailuresKept, EveryTaskIsAsked, Serves
  PROVE  EveryTaskIsAsked'
<1> SUFFICES ASSUME NEW g \in Gauges
    PROVE  Len(gauge_queue'[g])
             <= CountOf(requests', Question(g)) + CountOf(responses', Reading(g)) + failed'[g]
  BY DEF EveryTaskIsAsked, CountOf, Question, Reading
<1>1. requests \in Seq(Request) /\ responses \in Seq(Response) /\ requests' \in Seq(Request)
  BY DEF DataOK, Serves
<1>2. /\ CountOf(requests, Question(g)) \in Nat /\ CountOf(responses, Reading(g)) \in Nat
      /\ CountOf(requests', Question(g)) \in Nat
      /\ Len(gauge_queue[g]) <= CountOf(requests, Question(g)) + CountOf(responses, Reading(g)) + failed[g]
      /\ Len(gauge_queue[g]) \in Nat
      /\ CountOf(requests', Question(g)) + 1 >= CountOf(requests, Question(g))
      /\ failed[g] \in Nat /\ failed'[g] \in Nat /\ failed'[g] >= failed[g]
  <2>1. Len(gauge_queue[g]) <= CountOf(requests, Question(g)) + CountOf(responses, Reading(g)) + failed[g]
    BY DEF EveryTaskIsAsked, Question, Reading
  <2>2. Len(gauge_queue[g]) \in Nat BY DEF DataOK
  <2>3. /\ CountOf(requests, Question(g)) \in Nat /\ CountOf(responses, Reading(g)) \in Nat
        /\ CountOf(requests', Question(g)) \in Nat
    BY <1>1, CountIsNat
  <2>4. CountOf(requests', Question(g)) + 1 >= CountOf(requests, Question(g))
    BY <1>1, CountTail DEF Serves
  <2>5. failed[g] \in Nat /\ failed'[g] \in Nat /\ failed'[g] >= failed[g] BY DEF FailuresKept
  <2> QED BY <2>1, <2>2, <2>3, <2>4, <2>5
<1>3. CASE responses' = responses /\ Head(requests) # Question(g)
  <2>1. CountOf(requests', Question(g)) >= CountOf(requests, Question(g))
    BY <1>1, <1>3, CountTail DEF Serves
  <2> QED BY <1>2, <1>3, <2>1 DEF Serves
<1>4. ASSUME NEW r \in Response, responses' = Append(responses, r),
             Head(requests) = Question(g) => r = Reading(g)
      PROVE  Len(gauge_queue'[g])
             <= CountOf(requests', Question(g)) + CountOf(responses', Reading(g)) + failed'[g]
  <2>1. responses' = responses \o <<r>> /\ <<r>> \in Seq(Response) /\ <<r>>[1] = r /\ Len(<<r>>) = 1
    BY <1>1, <1>4
  <2>2. /\ CountOf(responses', Reading(g)) >= CountOf(responses, Reading(g))
        /\ r = Reading(g) => CountOf(responses', Reading(g)) >= CountOf(responses, Reading(g)) + 1
    <3>1. \A j \in 1..Len(<<r>>) : <<r>>[j] = Reading(g)
            => CountOf(responses \o <<r>>, Reading(g)) >= CountOf(responses, Reading(g)) + 1
      BY <1>1, <2>1, CountConcat
    <3>2. CountOf(responses \o <<r>>, Reading(g)) >= CountOf(responses, Reading(g))
      BY <1>1, <2>1, CountConcat
    <3> QED BY <2>1, <3>1, <3>2
  <2>3. CountOf(responses', Reading(g)) \in Nat
    <3>1. responses \o <<r>> \in Seq(Response) BY <1>1, <2>1, Concat
    <3> QED BY <2>1, <3>1, CountIsNat
  <2>4. Head(requests) # Question(g)
          => CountOf(requests', Question(g)) >= CountOf(requests, Question(g))
    BY <1>1, CountTail DEF Serves
  <2>5. gauge_queue'[g] = gauge_queue[g] BY DEF Serves
  <2>6. CASE Head(requests) = Question(g) BY <1>2, <1>4, <2>2, <2>3, <2>5, <2>6
  <2>7. CASE Head(requests) # Question(g) BY <1>2, <2>2, <2>3, <2>4, <2>5, <2>7
  <2> QED BY <2>6, <2>7
<1>5. ASSUME responses' = responses, failed' = [failed EXCEPT ![g] = @ + 1]
      PROVE  Len(gauge_queue'[g])
               <= CountOf(requests', Question(g)) + CountOf(responses', Reading(g)) + failed'[g]
  <2>1. failed'[g] = failed[g] + 1 BY <1>5 DEF FailedOK
  <2>2. gauge_queue'[g] = gauge_queue[g] BY DEF Serves
  <2> QED BY <1>2, <1>5, <2>1, <2>2
<1>6. \A h : Question(h) = Question(g) => h = g BY DEF Question
<1>7. ASSUME NEW h \in Gauges, Head(requests) = Question(h), h # g PROVE Head(requests) # Question(g)
  BY <1>6, <1>7
<1> QED BY <1>3, <1>4, <1>5, <1>7 DEF Serves
\* A cancelled transaction asks the gauge of the task it queues.
LEMMA CancelAsks ==
  ASSUME DataOK, ImmediatelyCancelTransaction,
         \/ responses' = responses
         \/ responses # <<>> /\ Head(responses).kind # "parameters" /\ responses' = Tail(responses)
  PROVE  \E ts : Asks(ts)
<1> DEFINE Any == \E ts : Asks(ts)
<1>1. CASE current = None \/ ~orders[current].product
  <2>1. gauge_queue' = gauge_queue /\ requests' = requests
    BY <1>1 DEF ImmediatelyCancelTransaction
  <2>2. requests \o <<>> = requests /\ <<>> \in Seq(Request) BY DEF DataOK
  <2>3. Asks(<<>>) BY <2>1, <2>2 DEF Asks
  <2> QED BY <2>3
<1>2. CASE ~(current = None \/ ~orders[current].product)
  <2> DEFINE o == orders[current].id
             g == GaugeOf[current]
  <2>1. current \in Dispensers /\ g \in Gauges BY <1>2, GaugeIds DEF DataOK
  <2>2. o \in OrderOrNone BY <2>1 DEF DataOK, DatabaseOrder
  <2>3. Command("close", current) \in Seq(Request) /\ Parameters(g) \in Seq(Request)
    BY <2>1, Requests
  <2>4. CASE o \in DOMAIN sales
    <3> DEFINE ts == Parameters(g) \o Command("close", current)
    <3>1. /\ gauge_queue' = PushTask(gauge_queue, g, o, "AFTER")
          /\ requests' = requests \o ts
      BY <1>2, <2>4 DEF ImmediatelyCancelTransaction, Send
    <3>2. ts \in Seq(Request) BY <2>3, Concat
    <3>3. 1 \in 1..Len(ts) /\ ts[1] = Question(g) BY <2>3 DEF Parameters, Question
    <3> HIDE DEF ts, g, o
    <3>4. Asks(ts) BY <2>1, <2>2, <3>1, <3>2, <3>3 DEF Asks
    <3> QED BY <3>4
  <2>5. CASE o \notin DOMAIN sales
    <3>1. gauge_queue' = gauge_queue /\ requests' = requests \o Command("close", current)
      BY <1>2, <2>5 DEF ImmediatelyCancelTransaction, Send
    <3>2. Asks(Command("close", current)) BY <2>3, <3>1 DEF Asks
    <3> QED BY <3>2
  <2> QED BY <2>4, <2>5
<1> QED BY <1>1, <1>2

LEMMA TouchAsks ==
  ASSUME DataOK, Display \/ Poll \/ checkTimers
  PROVE  \E ts : Asks(ts)
<1> USE DEF Touch, Called, logicVars
<1>1. requests \o <<>> = requests /\ <<>> \in Seq(Request) BY DEF DataOK
<1>2. ASSUME requests' = requests, gauge_queue' = gauge_queue, responses' = responses
      PROVE  \E ts : Asks(ts)
  <2>1. Asks(<<>>) BY <1>1, <1>2 DEF Asks
  <2> QED BY <2>1
<1>3. ASSUME NEW ts \in Seq(Request), Send(ts), gauge_queue' = gauge_queue, responses' = responses
      PROVE  \E us : Asks(us)
  <2>1. Asks(ts) BY <1>3 DEF Asks, Send
  <2> QED BY <2>1
<1>4. ASSUME NEW d \in Dispensers, handleChooseTRK(d) PROVE \E ts : Asks(ts)
  BY <1>2, <1>4 DEF handleChooseTRK
<1>5. CASE ForgetDispenser BY <1>2, <1>5 DEF ForgetDispenser
<1>6. CASE createOrder
  <2>1. Command("CREATE", current) \in Seq(Request) BY Requests DEF DataOK
  <2> QED BY <1>3, <1>6, <2>1 DEF createOrder
<1>7. CASE handleBasicTouch
  <2>1. Status(current) \in Seq(Request) BY Requests DEF DataOK
  <2> QED BY <1>3, <1>7, <2>1 DEF handleBasicTouch
<1>8. CASE CloseOrderButton
  <2>1. Command("close", current) \in Seq(Request) /\ Status(current) \in Seq(Request)
    BY Requests DEF DataOK
  <2>2. \A q \in {Status(current), <<>>} : Command("close", current) \o q \in Seq(Request)
    BY <2>1, Concat, Requests
  <2>3. PICK q \in {Status(current), <<>>} : Send(Command("close", current) \o q)
    BY <1>8 DEF CloseOrderButton
  <2> QED BY <1>3, <1>8, <2>2, <2>3 DEF CloseOrderButton
<1>9. CASE BeginFuelling
  <2> DEFINE ts == (IF ready /\ TRUE THEN Command("authorize", current) ELSE <<>>) \o <<>>
  <2>1. Command("authorize", current) \in Seq(Request) BY Requests DEF DataOK
  <2>2. ts \in Seq(Request) BY <1>1, <2>1, Concat
  <2>3. Send(ts) BY <1>9 DEF BeginFuelling, authorizeOnServer
  <2> QED BY <1>3, <1>9, <2>2, <2>3 DEF BeginFuelling
<1>10. CASE CancelTransactionButton
  BY <1>10, CancelAsks DEF CancelTransactionButton
<1>11. CASE Poll
  <2>1. <<[cmd |-> "EVENTS", from |-> last_event]>> \in Seq(Request) BY Requests DEF DataOK
  <2> QED BY <1>3, <1>11, <2>1 DEF Poll
<1>12. CASE checkTimers BY <1>2, <1>12 DEF checkTimers
<1> QED BY <1>4, <1>5, <1>6, <1>7, <1>8, <1>9, <1>10, <1>11, <1>12 DEF Display

LEMMA VisitAsks ==
  ASSUME DataOK, StatusEvent \/ OrderChangedEvent \/ OrderCreatedEvent
  PROVE  \E ts : Asks(ts)
<1> DEFINE e == Head(batch)
           d == e.dev
<1>1. batch # <<>> /\ responses' = responses
  BY DEF StatusEvent, OrderChangedEvent, OrderCreatedEvent, Visit
<1>2. d \in Dispensers BY <1>1, FrontTypes
<1>3. orders[d] \in DatabaseOrder /\ disp[d] \in Dispenser BY <1>2 DEF DataOK
<1>4. Status(d) \in Seq(Request) /\ Command("close", d) \in Seq(Request) /\ <<>> \in Seq(Request)
  BY <1>2, Requests
<1>5. CASE StatusEvent
  <2> DEFINE product == disp[d].product \/ e.status # "IDLE"
             g == getLevelGaugeId(d, product)
             o == disp[d].order_id
             back == e.status = "IDLE" /\ disp[d].status \in {"COMPLETE", "FUELLING"}
             report == SendsEnd(d, back)
             ts == (IF back THEN Command("close", d) ELSE <<>>)
                     \o (IF report THEN Parameters(g) ELSE <<>>)
  <2>1. /\ gauge_queue' = IF report THEN PushTask(gauge_queue, g, o, "AFTER") ELSE gauge_queue
        /\ requests' = requests \o ts
    BY <1>5 DEF StatusEvent, Send
  <2>2. g \in Gauges \cup {NoGauge} /\ o \in OrderOrNone
    BY <1>2, <1>3, GaugeIds DEF Dispenser
  <2>3. ts \in Seq(Request) BY <1>4, <2>2, Requests, Concat
  <2>4. report => \E j \in 1..Len(ts) : ts[j] = Question(g)
    <3>1. SUFFICES ASSUME report PROVE \E j \in 1..Len(ts) : ts[j] = Question(g) OBVIOUS
    <3>2. back BY <3>1 DEF SendsEnd
    <3>3. ts = Command("close", d) \o Parameters(g) BY <3>1, <3>2
    <3>4. d # None BY <1>2, PrimeNames
    <3>5. Command("close", d) = <<[cmd |-> "close", dev |-> d]>> BY <3>4 DEF Command
    <3>6. Parameters(g) = <<Question(g)>> BY DEF Parameters, Question
    <3>7. \A a, b : 2 \in 1..Len(<<a>> \o <<b>>) /\ (<<a>> \o <<b>>)[2] = b OBVIOUS
    <3> HIDE DEF ts, g
    <3>8. 2 \in 1..Len(ts) /\ ts[2] = Question(g) BY <3>3, <3>5, <3>6, <3>7
    <3> QED BY <3>8
  <2> HIDE DEF ts, g, o, report
  <2>5. Asks(ts) BY <1>1, <2>1, <2>2, <2>3, <2>4 DEF Asks
  <2> QED BY <2>5
<1>6. CASE OrderChangedEvent
  <2> DEFINE o == orders[d].id
             g == getLevelGaugeId(d, orders[d].product)
  <2>1. o \in OrderOrNone /\ g \in Gauges \cup {NoGauge}
    BY <1>2, <1>3, GaugeIds DEF DatabaseOrder
  <2>2. \/ requests' = requests \o Status(d) /\ gauge_queue' = gauge_queue
        \/ /\ requests' = requests \o Parameters(g)
           /\ gauge_queue' = PushTask(gauge_queue, g, o, "BEFORE")
    BY <1>6 DEF OrderChangedEvent, Send, QueryBefore
  <2> HIDE DEF g, o
  <2>3. CASE requests' = requests \o Status(d) /\ gauge_queue' = gauge_queue
    <3>1. Asks(Status(d)) BY <1>1, <1>4, <2>3 DEF Asks
    <3> QED BY <3>1
  <2>4. CASE /\ requests' = requests \o Parameters(g)
             /\ gauge_queue' = PushTask(gauge_queue, g, o, "BEFORE")
    <3>1. Parameters(g) \in Seq(Request) BY <2>1, Requests
    <3>2. 1 \in 1..Len(Parameters(g)) /\ Parameters(g)[1] = Question(g)
      BY DEF Parameters, Question
    <3>3. Asks(Parameters(g)) BY <1>1, <2>1, <2>4, <3>1, <3>2 DEF Asks
    <3> QED BY <3>3
  <2> QED BY <2>2, <2>3, <2>4
<1>7. CASE OrderCreatedEvent
  <2> DEFINE ts == (IF TRUE /\ next THEN Command("authorize", current) ELSE <<>>) \o Status(d)
  <2>1. gauge_queue' = gauge_queue BY <1>7 DEF OrderCreatedEvent
  <2>2. requests' = requests \/ requests' = requests \o ts
    BY <1>7 DEF OrderCreatedEvent, authorizeOnServer, Send
  <2>3. Command("authorize", current) \in Seq(Request) BY Requests DEF DataOK
  <2>4. ts \in Seq(Request) BY <1>4, <2>3, Concat
  <2>5. requests \o <<>> = requests BY DEF DataOK
  <2> HIDE DEF ts
  <2>6. CASE requests' = requests
    <3>1. Asks(<<>>) BY <1>1, <1>4, <2>1, <2>5, <2>6 DEF Asks
    <3> QED BY <3>1
  <2>7. CASE requests' = requests \o ts
    <3>1. Asks(ts) BY <1>1, <2>1, <2>4, <2>7 DEF Asks
    <3> QED BY <3>1
  <2> QED BY <2>2, <2>6, <2>7
<1> QED BY <1>5, <1>6, <1>7
LEMMA AnswerAsks ==
  ASSUME DataOK,
         EventsAnswer \/ StatusWithoutOrder \/ StatusOfDeadOrder \/ StatusOfOrder \/ LowVolumeAnswer
  PROVE  \E ts : Asks(ts)
<1> USE DEF Handling, Taken, logicVars
<1> DEFINE r == Head(responses)
<1>1. responses # <<>> /\ responses' = Tail(responses) /\ r.kind # "parameters"
  BY DEF EventsAnswer, StatusWithoutOrder, StatusOfDeadOrder, StatusOfOrder, LowVolumeAnswer
<1>2. r \in Response BY <1>1, FrontTypes
<1>3. requests \o <<>> = requests /\ <<>> \in Seq(Request) BY DEF DataOK
<1>4. ASSUME requests' = requests, gauge_queue' = gauge_queue PROVE \E ts : Asks(ts)
  <2>1. Asks(<<>>) BY <1>1, <1>3, <1>4 DEF Asks
  <2> QED BY <2>1
<1>5. CASE EventsAnswer BY <1>4, <1>5 DEF EventsAnswer
<1>6. CASE StatusWithoutOrder BY <1>4, <1>6 DEF StatusWithoutOrder
<1>7. CASE StatusOfDeadOrder
  <2>1. r.dev \in Dispensers BY <1>2, <1>7, Responses DEF StatusOfDeadOrder
  <2>2. Command("close", r.dev) \in Seq(Request) BY <2>1, Requests
  <2>3. Asks(Command("close", r.dev)) BY <1>1, <1>7, <2>2 DEF StatusOfDeadOrder, Send, Asks
  <2> QED BY <2>3
<1>8. CASE StatusOfOrder
  <2> DEFINE e == [Observed(r) EXCEPT !.status = r.ostatus]
             g == getLevelGaugeId(r.dev, e.product)
  <2>1. r.kind = "status" /\ r.dev \in Dispensers /\ r.ostatus \in OrderStatuses
    BY <1>2, <1>8, Responses DEF StatusOfOrder
  <2>2. NoOrder \in OrderOrNone BY DEF OrderOrNone
  <2>3. Observed(r) \in DatabaseOrder BY <1>2, <2>1, <2>2, StatusTypes
  <2>4. e \in DatabaseOrder BY <2>1, <2>3 DEF DatabaseOrder
  <2>5. e.id \in OrderOrNone /\ g \in Gauges \cup {NoGauge}
    BY <2>1, <2>4, GaugeIds DEF DatabaseOrder
  <2>6. processOrderFinalization(r.dev, e) BY <1>8 DEF StatusOfOrder
  <2> HIDE DEF e
  <2>7. CASE Finalizes(e) /\ e.closed
    <3>1. /\ requests' = requests \o Parameters(g)
          /\ gauge_queue' = PushTask(gauge_queue, g, e.id, "AFTER")
      BY <2>6, <2>7 DEF processOrderFinalization, Send
    <3> HIDE DEF g
    <3>2. Parameters(g) \in Seq(Request) BY <2>5, Requests
    <3>3. 1 \in 1..Len(Parameters(g)) /\ Parameters(g)[1] = Question(g)
      BY DEF Parameters, Question
    <3>4. Asks(Parameters(g)) BY <1>1, <2>5, <3>1, <3>2, <3>3 DEF Asks
    <3> QED BY <3>4
  <2>8. CASE ~(Finalizes(e) /\ e.closed)
    <3>1. requests' = requests /\ gauge_queue' = gauge_queue
      BY <1>3, <2>6, <2>8 DEF processOrderFinalization, Send
    <3> QED BY <1>4, <3>1
  <2> QED BY <2>7, <2>8
<1>9. CASE LowVolumeAnswer BY <1>1, <1>9, CancelAsks DEF LowVolumeAnswer
<1> QED BY <1>5, <1>6, <1>7, <1>8, <1>9

LEMMA CardAsks ==
  ASSUME DataOK, CardTerminal
  PROVE  \E ts : Asks(ts)
<1> USE DEF Called, logicVars
<1>1. requests \o <<>> = requests /\ <<>> \in Seq(Request) BY DEF DataOK
<1>2. ASSUME requests' = requests, gauge_queue' = gauge_queue, responses' = responses
      PROVE  \E ts : Asks(ts)
  <2>1. Asks(<<>>) BY <1>1, <1>2 DEF Asks
  <2> QED BY <2>1
<1>3. ASSUME NEW o \in Orders, PaymentSuccess(o) PROVE \E ts : Asks(ts)
  BY <1>2, <1>3 DEF PaymentSuccess
<1>4. ASSUME NEW o \in Orders, PaymentFailure(o) PROVE \E ts : Asks(ts)
  <2>1. Command("close", current) \in Seq(Request) BY Requests DEF DataOK
  <2>2. Asks(Command("close", current)) BY <1>4, <2>1 DEF PaymentFailure, Send, Asks
  <2> QED BY <2>2
<1>5. CASE ConfirmAnswer BY <1>2, <1>5 DEF ConfirmAnswer
<1>6. CASE CancelAnswer BY <1>2, <1>6 DEF CancelAnswer
<1> QED BY <1>3, <1>4, <1>5, <1>6 DEF CardTerminal

LEMMA ParametersRead ==
  ASSUME DataOK, ParametersWithoutTask \/ ParametersBefore \/ ParametersAfter
  PROVE  \E g : Reads(g)
<1> USE DEF Handling, Taken, logicVars
<1> DEFINE g == Head(responses).gauge
           q == gauge_queue[g]
<1>1. /\ responses # <<>> /\ responses' = Tail(responses) /\ requests' = requests
      /\ Head(responses).kind = "parameters"
  BY DEF ParametersWithoutTask, ParametersBefore, ParametersAfter
<1>2. g \in Gauges BY <1>1, FrontTypes, Responses
<1>3. q \in Seq(PendingGaugeTask) BY <1>2 DEF DataOK
<1>4. Len(<<>>) = 0 /\ (q # <<>> => Len(Tail(q)) = Len(q) - 1 /\ Len(q) \in Nat \ {0}) BY <1>3
<1>5. \/ q = <<>> /\ gauge_queue' = gauge_queue
      \/ q # <<>> /\ gauge_queue' \in {[gauge_queue EXCEPT ![g] = <<>>],
                                       [gauge_queue EXCEPT ![g] = Tail(q)]}
  BY DEF ParametersWithoutTask, ParametersBefore, ParametersAfter
<1>6. ASSUME NEW v, gauge_queue' = [gauge_queue EXCEPT ![g] = v]
      PROVE  gauge_queue'[g] = v /\ \A h \in Gauges \ {g} : gauge_queue'[h] = gauge_queue[h]
  BY <1>2, <1>6 DEF DataOK
<1>7. \A h \in Gauges \ {g} : gauge_queue'[h] = gauge_queue[h] BY <1>5, <1>6
<1>8. IF q = <<>> THEN gauge_queue'[g] = q ELSE gauge_queue'[g] \in {<<>>, Tail(q)}
  BY <1>5, <1>6
<1>9. Len(gauge_queue'[g]) <= IF q = <<>> THEN 0 ELSE Len(q) - 1
  <2>1. CASE q = <<>> BY <1>4, <1>8, <2>1
  <2>2. CASE q # <<>>
    <3>1. Len(q) - 1 \in Nat /\ Len(Tail(q)) = Len(q) - 1 BY <1>4, <2>2
    <3>2. CASE gauge_queue'[g] = <<>> BY <1>4, <2>2, <3>1, <3>2
    <3>3. CASE gauge_queue'[g] = Tail(q)
      <4>1. Len(gauge_queue'[g]) = Len(q) - 1 BY <3>1, <3>3
      <4> QED BY <2>2, <3>1, <4>1
    <3> QED BY <1>8, <2>2, <3>2, <3>3
  <2> QED BY <2>1, <2>2
<1>10. Reads(g) BY <1>1, <1>2, <1>7, <1>9 DEF Reads
<1> QED BY <1>10

LEMMA ControllerServes ==
  ASSUME DataOK,
         \/ ServeEvents \/ ServeStatus \/ ServeParameters
         \/ ServeCreate \/ ServeAuthorize \/ ServeClose \/ RequestFails
  PROVE  Serves
<1> USE DEF logicVars, Served
<1> DEFINE q == Head(requests)
<1>1. /\ requests # <<>> /\ requests' = Tail(requests) /\ gauge_queue' = gauge_queue
  BY DEF ServeEvents, ServeStatus, ServeParameters, ServeCreate, ServeAuthorize, ServeClose,
         RequestFails, Answer, Acknowledge
<1>2. q \in Request BY <1>1, FrontTypes
<1>3. CASE ServeParameters
  <2>1. q.cmd = "PARAMETERS" /\ q.gauge \in Gauges \cup {NoGauge} /\ q = Question(q.gauge)
    BY <1>2, <1>3, RequestFields DEF ServeParameters, Question
  <2>2. \A g \in Gauges : q = Question(g) => g = q.gauge BY DEF Question
  <2>3. CASE q.gauge = NoGauge
    <3>1. \A g \in Gauges : q # Question(g) BY <2>2, <2>3, PrimeNames
    <3>2. responses' = responses BY <1>3, <2>3 DEF ServeParameters, Acknowledge
    <3> QED BY <1>1, <3>1, <3>2 DEF Serves
  <2>4. CASE q.gauge # NoGauge
    <3>1. responses' = Append(responses, Reading(q.gauge))
      BY <1>3, <2>4 DEF ServeParameters, Answer, Reading
    <3>2. Reading(q.gauge) \in Response BY <2>1, <2>4, Responses DEF Reading
    <3> QED BY <1>1, <2>2, <3>1, <3>2 DEF Serves
  <2> QED BY <2>3, <2>4
<1>4. CASE ~ServeParameters /\ ~RequestFails
  <2>1. q.cmd # "PARAMETERS"
    BY <1>4 DEF ServeEvents, ServeStatus, ServeCreate, ServeAuthorize, ServeClose
  <2>2. \A g \in Gauges : q # Question(g) BY <2>1 DEF Question
  <2>3. responses' = responses \/ \E r : responses' = Append(responses, r)
    BY <1>4 DEF ServeEvents, ServeStatus, ServeCreate, ServeAuthorize, ServeClose,
                Answer, Acknowledge
  <2>4. CASE responses' = responses BY <1>1, <2>2, <2>4 DEF Serves
  <2>5. ASSUME NEW r, responses' = Append(responses, r) PROVE Serves
    <3>1. responses' \in Seq(Response) /\ responses \in Seq(Response) BY ServeTypes DEF DataOK
    <3>2. Len(responses') = Len(responses) + 1 /\ responses'[Len(responses) + 1] = r
      BY <2>5, <3>1
    <3>3. r \in Response BY <3>1, <3>2
    <3> QED BY <1>1, <2>2, <2>5, <3>3 DEF Serves
  <2> QED BY <2>3, <2>4, <2>5
<1>5. CASE RequestFails
  <2>1. responses' = responses BY <1>5 DEF RequestFails, Acknowledge
  <2>2. CASE \A g \in Gauges : q # Question(g) BY <1>1, <2>1, <2>2 DEF Serves
  <2>3. ASSUME NEW g \in Gauges, q = Question(g) PROVE Serves
    <3>1. q.cmd = "PARAMETERS" /\ q.gauge = g BY <2>3 DEF Question
    <3>2. failed' = [failed EXCEPT ![g] = @ + 1] BY <1>5, <3>1 DEF RequestFails
    <3> QED BY <1>1, <2>1, <2>3, <3>2 DEF Serves
  <2> QED BY <2>2, <2>3
<1> QED BY <1>3, <1>4, <1>5

LEMMA TasksStep ==
  ASSUME DataOK, FailedOK, EveryTaskIsAsked, [Next]_vars
  PROVE  EveryTaskIsAsked'
<1>1. DataOK' /\ FailuresKept BY Types, FailuresStep
<1>2. ASSUME \E ts : Asks(ts) PROVE EveryTaskIsAsked' BY <1>1, <1>2, AsksKeeps
<1>3. CASE Display \/ Poll \/ checkTimers BY <1>2, <1>3, TouchAsks
<1>4. CASE StatusEvent \/ OrderChangedEvent \/ OrderCreatedEvent
  BY <1>2, <1>4, VisitAsks
<1>5. CASE EventsAnswer \/ StatusWithoutOrder \/ StatusOfDeadOrder \/ StatusOfOrder
           \/ LowVolumeAnswer
  BY <1>2, <1>5, AnswerAsks
<1>6. CASE ParametersWithoutTask \/ ParametersBefore \/ ParametersAfter
  BY <1>1, <1>6, ParametersRead, ReadsKeeps
<1>7. CASE CardTerminal BY <1>2, <1>7, CardAsks
<1>8. CASE \/ ServeEvents \/ ServeStatus \/ ServeParameters
           \/ ServeCreate \/ ServeAuthorize \/ ServeClose \/ RequestFails
  BY <1>1, <1>8, ControllerServes, ServesKeeps
<1>9. ASSUME NEW d \in Dispensers, Happens(d) PROVE EveryTaskIsAsked'
  <2>1. UNCHANGED <<gauge_queue, requests, responses, failed>>
    BY <1>9, ForecourtNews DEF Forecourt, logicVars
  <2> QED BY <2>1 DEF EveryTaskIsAsked, CountOf
<1>10. CASE UNCHANGED vars
  BY <1>10 DEF vars, logicVars, srvVars, EveryTaskIsAsked, CountOf
<1> QED BY <1>3, <1>4, <1>5, <1>6, <1>7, <1>8, <1>9, <1>10
        DEF Next, Core, Controller, Happens

LEMMA InitFailed == Init => FailedOK
<1>1. Init => failed = [g \in Gauges \cup {NoGauge} |-> 0] BY DEF Init
<1> QED BY <1>1 DEF FailedOK

LEMMA InitTasks == Init => EveryTaskIsAsked
<1>1. SUFFICES ASSUME Init, NEW g \in Gauges
      PROVE Len(gauge_queue[g])
              <= CountOf(requests, Question(g)) + CountOf(responses, Reading(g)) + failed[g]
  BY DEF EveryTaskIsAsked, Question, Reading
<1>2. DataOK /\ gauge_queue[g] = <<>> /\ failed[g] = 0 BY <1>1, InitTypes DEF Init
<1>3. requests \in Seq(Request) /\ responses \in Seq(Response) BY <1>2 DEF DataOK
<1>4. CountOf(requests, Question(g)) \in Nat /\ CountOf(responses, Reading(g)) \in Nat
  BY <1>3, CountIsNat
<1> QED BY <1>2, <1>4

\* Every task waiting for a gauge (m_pending_level_gauge_orders) will be given
\* a reading, but for one of each query of that gauge that failed: questions and
\* readings on their way and failures are at least as many as the tasks, for any
\* number of tanks, dispensers, orders, requests and failures.
THEOREM TasksAreAsked == Spec => []EveryTaskIsAsked
<1> DEFINE Inv == DataOK /\ FailedOK /\ EveryTaskIsAsked
<1>1. Init => Inv BY InitTypes, InitFailed, InitTasks
<1>2. Inv /\ [Next]_vars => Inv' BY Types, FailuresStep, TasksStep
<1> QED BY <1>1, <1>2, PTL DEF Spec

-----------------------------------------------------------------------------
(* One confirmation per record.                                            *)

Created(e) == e.what = "created"

\* The journal tells the creation of an order for one dispenser only.
LogInv ==
  \A i, j \in 1..Len(log) :
    Created(log[i]) /\ Created(log[j]) /\ log[i].order = log[j].order => log[i].dev = log[j].dev

Told(l, e) == \E i \in 1..Len(l) : l[i] = e

\* Whatever is visited or waits to be visited was in the journal.
HeardInv ==
  /\ \A k \in 1..Len(batch) : Told(log, batch[k])
  /\ \A k \in 1..Len(responses) :
       responses[k].kind = "events" =>
         \A i \in 1..Len(responses[k].events) : Told(log, responses[k].events[i])

\* A record is that of an order created for its dispenser.
OwnOrder(d) ==
  orders[d].id \in Orders =>
    \E i \in 1..Len(log) : Created(log[i]) /\ log[i].dev = d /\ log[i].order = orders[d].id

\* Each confirmation has a record of its own, and so has the record that is
\* not finalized yet.
CountInv ==
  \A o \in Orders :
    /\ confirms[o] <= records[o]
    /\ \A d \in Dispensers :
         orders[d].id = o /\ ~orders[d].finalized => confirms[o] + 1 <= records[o]

RecordInv == LogInv /\ HeardInv /\ (\A d \in Dispensers : OwnOrder(d)) /\ CountInv
\* The journal only grows.
Grown == /\ log' \in Seq(Event) /\ Len(log') >= Len(log)
         /\ \A i \in 1..Len(log) : log'[i] = log[i]

\* What is in the journal stays there.
LEMMA StillTold ==
  ASSUME DataOK, Grown, NEW e, Told(log, e)
  PROVE  Told(log', e)
<1>1. Len(log) \in Nat /\ Len(log') \in Nat BY DEF DataOK, Grown
<1>2. PICK i \in 1..Len(log) : log[i] = e BY DEF Told
<1>3. i \in 1..Len(log') /\ log'[i] = e BY <1>1, <1>2 DEF Grown
<1> QED BY <1>3 DEF Told

\* An entry that creates no order, or one that was never used.
LEMMA JournalKeeps ==
  ASSUME DataOK, LogInv, NEW es \in Seq(News), Logged(es),
         \/ \A i \in 1..Len(es) : ~Created(es[i])
         \/ Len(es) = 1 /\ es[1].order \notin Used
  PROVE  Grown /\ LogInv'
<1>1. /\ log' \in Seq(Event) /\ Len(log') = Len(log) + Len(es)
      /\ \A i \in 1..Len(log) : log'[i] = log[i]
      /\ \A i \in 1..Len(es) : /\ log'[Len(log) + i].dev = es[i].dev
                               /\ log'[Len(log) + i].what = es[i].what
                               /\ log'[Len(log) + i].order = es[i].order
  BY LoggedTypes
<1>2. Len(log) \in Nat /\ Len(es) \in Nat BY DEF DataOK
<1>3. Grown BY <1>1, <1>2 DEF Grown
<1>4. ASSUME NEW i \in 1..Len(log'), i \notin 1..Len(log)
      PROVE  i - Len(log) \in 1..Len(es) /\ log'[i].what = es[i - Len(log)].what
             /\ log'[i].order = es[i - Len(log)].order
  <2>1. i - Len(log) \in 1..Len(es) /\ Len(log) + (i - Len(log)) = i BY <1>1, <1>2, <1>4
  <2> QED BY <1>1, <2>1
<1>5. CASE \A i \in 1..Len(es) : ~Created(es[i])
  <2>1. \A i \in 1..Len(log') : Created(log'[i]) => i \in 1..Len(log)
    BY <1>4, <1>5 DEF Created
  <2>2. ASSUME NEW i \in 1..Len(log'), NEW j \in 1..Len(log'), log'[i].order = log'[j].order,
               Created(log'[i]), Created(log'[j])
        PROVE  log'[i].dev = log'[j].dev
    <3>1. i \in 1..Len(log) /\ j \in 1..Len(log) BY <2>1, <2>2
    <3> QED BY <1>1, <2>2, <3>1 DEF LogInv, Created
  <2> QED BY <1>3, <2>2 DEF LogInv
<1>6. CASE Len(es) = 1 /\ es[1].order \notin Used
  <2>1. \A i \in 1..Len(log) : log'[i].order # es[1].order BY <1>1, <1>6 DEF Used
  <2>2. \A i \in 1..Len(log') : i \notin 1..Len(log) => i = Len(log) + 1
    BY <1>1, <1>2, <1>6
  <2>3. log'[Len(log) + 1].order = es[1].order BY <1>1, <1>6
  <2>4. ASSUME NEW i \in 1..Len(log'), NEW j \in 1..Len(log'), log'[i].order = log'[j].order,
               Created(log'[i]), Created(log'[j])
        PROVE  log'[i].dev = log'[j].dev
    <3>1. CASE i \in 1..Len(log) /\ j \in 1..Len(log) BY <1>1, <2>4, <3>1 DEF LogInv
    <3>2. CASE i \notin 1..Len(log) /\ j \notin 1..Len(log) BY <2>2, <3>2
    <3>3. CASE i \in 1..Len(log) /\ j \notin 1..Len(log) BY <2>1, <2>2, <2>3, <2>4, <3>3
    <3>4. CASE i \notin 1..Len(log) /\ j \in 1..Len(log) BY <2>1, <2>2, <2>3, <2>4, <3>4
    <3> QED BY <3>1, <3>2, <3>3, <3>4
  <2> QED BY <1>3, <2>4 DEF LogInv
<1> QED BY <1>3, <1>5, <1>6

LEMMA LogStep ==
  ASSUME DataOK, LogInv, [Next]_vars
  PROVE  Grown /\ LogInv'
<1>1. ASSUME log' = log PROVE Grown /\ LogInv' BY <1>1 DEF Grown, LogInv, DataOK
<1>2. CASE Display \/ Poll \/ checkTimers
  <2>1. log' = log
    BY <1>2 DEF Display, handleChooseTRK, ForgetDispenser, createOrder, handleBasicTouch,
                CloseOrderButton, BeginFuelling, CancelTransactionButton, Poll, checkTimers, srvVars
  <2> QED BY <1>1, <2>1
<1>3. CASE Core
  <2>1. log' = log
    BY <1>3 DEF Core, EventsAnswer, StatusEvent, OrderChangedEvent, OrderCreatedEvent,
                StatusWithoutOrder, StatusOfDeadOrder, StatusOfOrder, ParametersWithoutTask,
                ParametersBefore, ParametersAfter, LowVolumeAnswer, srvVars
  <2> QED BY <1>1, <2>1
<1>4. CASE CardTerminal
  <2>1. log' = log
    BY <1>4 DEF CardTerminal, PaymentSuccess, PaymentFailure, ConfirmAnswer, CancelAnswer, srvVars
  <2> QED BY <1>1, <2>1
<1>5. CASE ServeEvents \/ ServeStatus \/ ServeParameters \/ ServeClose \/ RequestFails
  <2>1. log' = log
    BY <1>5 DEF ServeEvents, ServeStatus, ServeParameters, ServeClose, RequestFails
  <2> QED BY <1>1, <2>1
<1>6. CASE ServeCreate
  <2> DEFINE d == Head(requests).dev
             new(o) == [dev |-> d, what |-> "created", status |-> "READY", order |-> o]
  <2>1. requests # <<>> BY <1>6 DEF ServeCreate, Served
  <2>2. d \in Dispensers BY <1>6, <2>1, FrontTypes, RequestFields DEF ServeCreate, Served
  <2>3. log' = log \/ \E o \in Orders \ Used : Logged(<<new(o)>>) BY <1>6 DEF ServeCreate
  <2>4. ASSUME NEW o \in Orders \ Used, Logged(<<new(o)>>) PROVE Grown /\ LogInv'
    <3>1. new(o) \in News /\ new(o).order = o BY <2>2, NewsTypes
    <3> HIDE DEF new
    <3>2. <<new(o)>> \in Seq(News) /\ Len(<<new(o)>>) = 1 /\ <<new(o)>>[1] = new(o) BY <3>1
    <3> QED BY <2>4, <3>1, <3>2, JournalKeeps
  <2> QED BY <1>1, <2>3, <2>4
<1>7. CASE ServeAuthorize
  <2> DEFINE c == OrderChanged(Head(requests).dev, "AUTHORIZED")
  <2>1. requests # <<>> BY <1>7 DEF ServeAuthorize, Served
  <2>2. Head(requests).dev \in Dispensers
    BY <1>7, <2>1, FrontTypes, RequestFields DEF ServeAuthorize, Served
  <2>3. c \in News /\ ~Created(c) BY <2>2, NewsTypes DEF OrderChanged, Created
  <2>4. log' = log \/ Logged(<<c>>) BY <1>7 DEF ServeAuthorize
  <2> HIDE DEF c
  <2>5. <<c>> \in Seq(News) /\ \A i \in 1..Len(<<c>>) : ~Created(<<c>>[i]) BY <2>3
  <2> QED BY <1>1, <2>4, <2>5, JournalKeeps
<1>8. ASSUME NEW d \in Dispensers, Happens(d) PROVE Grown /\ LogInv'
  BY <1>8, ForecourtNews, JournalKeeps DEF Created
<1>9. CASE UNCHANGED vars BY <1>1, <1>9 DEF vars, srvVars
<1> QED BY <1>2, <1>3, <1>4, <1>5, <1>6, <1>7, <1>8, <1>9 DEF Next, Controller, Happens
\* What waits in batch and responses after a step waited there before it, or
\* is a piece of the journal.
Heard ==
  /\ \/ batch' = batch
     \/ batch # <<>> /\ batch' = Tail(batch)
     \/ /\ responses # <<>> /\ Head(responses).kind = "events"
        /\ batch' = Head(responses).events
  /\ \/ responses' = responses
     \/ responses # <<>> /\ responses' = Tail(responses)
     \/ \E r \in Response :
          /\ responses' = Append(responses, r)
          /\ r.kind = "events" => \E n \in Nat : r.events = SubSeq(log, n + 1, Len(log))

LEMMA HeardKeeps ==
  ASSUME DataOK, Grown, HeardInv, Heard
  PROVE  HeardInv'
<1>1. batch \in Seq(Event) /\ responses \in Seq(Response) /\ log \in Seq(Event) BY DEF DataOK
<1>2. \A e : Told(log, e) => Told(log', e) BY StillTold
<1> DEFINE Fine(r) == r.kind = "events" => \A i \in 1..Len(r.events) : Told(log', r.events[i])
<1>3. \A k \in 1..Len(responses) : Fine(responses[k]) BY <1>2 DEF HeardInv
<1>4. \A k \in 1..Len(batch') : Told(log', batch'[k])
  <2>1. CASE batch' = batch BY <1>2, <2>1 DEF HeardInv
  <2>2. CASE batch # <<>> /\ batch' = Tail(batch)
    <3>1. \A k \in 1..Len(Tail(batch)) : k + 1 \in 1..Len(batch) /\ Tail(batch)[k] = batch[k + 1]
      BY <1>1, <2>2
    <3> QED BY <1>2, <2>2, <3>1 DEF HeardInv
  <2>3. CASE /\ responses # <<>> /\ Head(responses).kind = "events"
             /\ batch' = Head(responses).events
    <3>1. 1 \in 1..Len(responses) /\ Head(responses) = responses[1] BY <1>1, <2>3
    <3> QED BY <1>3, <2>3, <3>1
  <2> QED BY <2>1, <2>2, <2>3 DEF Heard
<1>5. \A k \in 1..Len(responses') : Fine(responses'[k])
  <2>1. CASE responses' = responses BY <1>3, <2>1
  <2>2. CASE responses # <<>> /\ responses' = Tail(responses)
    <3>1. \A k \in 1..Len(Tail(responses)) :
            k + 1 \in 1..Len(responses) /\ Tail(responses)[k] = responses[k + 1]
      BY <1>1, <2>2
    <3> HIDE DEF Fine
    <3> QED BY <1>3, <2>2, <3>1
  <2>3. ASSUME NEW r \in Response, responses' = Append(responses, r),
               r.kind = "events" => \E n \in Nat : r.events = SubSeq(log, n + 1, Len(log))
        PROVE  \A k \in 1..Len(responses') : Fine(responses'[k])
    <3>1. Fine(r)
      <4>1. SUFFICES ASSUME r.kind = "events", NEW i \in 1..Len(r.events)
                     PROVE  Told(log', r.events[i])
        OBVIOUS
      <4>2. PICK n \in Nat : r.events = SubSeq(log, n + 1, Len(log)) BY <2>3, <4>1
      <4>3. n + i \in 1..Len(log) /\ r.events[i] = log[n + i] BY <1>1, <4>1, <4>2
      <4>4. Told(log, r.events[i]) BY <4>3 DEF Told
      <4> QED BY <1>2, <4>4
    <3>2. \A k \in 1..Len(responses') : responses'[k] = r \/ (k \in 1..Len(responses)
                                                              /\ responses'[k] = responses[k])
      BY <1>1, <2>3
    <3> HIDE DEF Fine
    <3> QED BY <1>3, <3>1, <3>2
  <2> QED BY <2>1, <2>2, <2>3 DEF Heard
<1> QED BY <1>4, <1>5 DEF HeardInv

LEMMA HeardStep ==
  ASSUME DataOK, [Next]_vars
  PROVE  Heard
<1> USE DEF pollVars
<1>1. ASSUME batch' = batch, responses' = responses PROVE Heard BY <1>1 DEF Heard
<1>2. CASE Display \/ Poll \/ checkTimers
  <2>1. batch' = batch /\ responses' = responses
    BY <1>2 DEF Display, handleChooseTRK, ForgetDispenser, createOrder, handleBasicTouch,
                CloseOrderButton, BeginFuelling, CancelTransactionButton, Poll, checkTimers,
                Touch, Called
  <2> QED BY <1>1, <2>1
<1>3. CASE CardTerminal
  <2>1. batch' = batch /\ responses' = responses
    BY <1>3 DEF CardTerminal, PaymentSuccess, PaymentFailure, ConfirmAnswer, CancelAnswer, Called
  <2> QED BY <1>1, <2>1
<1>4. CASE StatusEvent \/ OrderChangedEvent \/ OrderCreatedEvent
  <2>1. batch # <<>> /\ batch' = Tail(batch) /\ responses' = responses
    BY <1>4 DEF StatusEvent, OrderChangedEvent, OrderCreatedEvent, Visit
  <2> QED BY <2>1 DEF Heard
<1>5. CASE EventsAnswer
  BY <1>5 DEF EventsAnswer, Handling, Taken, Heard
<1>6. CASE \/ StatusWithoutOrder \/ StatusOfDeadOrder \/ StatusOfOrder
           \/ ParametersWithoutTask \/ ParametersBefore \/ ParametersAfter \/ LowVolumeAnswer
  <2>1. responses # <<>> /\ responses' = Tail(responses) /\ batch' = batch
    BY <1>6 DEF StatusWithoutOrder, StatusOfDeadOrder, StatusOfOrder, ParametersWithoutTask,
                ParametersBefore, ParametersAfter, LowVolumeAnswer, Handling, Taken
  <2> QED BY <2>1 DEF Heard
<1>7. CASE ServeEvents
  <2> DEFINE n == Head(requests).from
             r == [kind |-> "events", events |-> SubSeq(log, n + 1, Len(log))]
  <2>1. requests # <<>> BY <1>7 DEF ServeEvents, Served
  <2>2. n \in Nat BY <1>7, <2>1, FrontTypes, RequestFields DEF ServeEvents, Served
  <2>3. responses' = Append(responses, r) /\ batch' = batch BY <1>7 DEF ServeEvents, Answer
  <2>4. r \in Response
    <3>1. SubSeq(log, n + 1, Len(log)) \in Seq(Event) BY <2>2 DEF DataOK
    <3> QED BY <3>1, Responses
  <2>5. r.events = SubSeq(log, n + 1, Len(log)) OBVIOUS
  <2> HIDE DEF n, r
  <2> QED BY <2>2, <2>3, <2>4, <2>5 DEF Heard
<1>8. CASE \/ ServeStatus \/ ServeParameters
           \/ ServeCreate \/ ServeAuthorize \/ ServeClose \/ RequestFails
  <2>1. /\ batch' = batch
        /\ responses' = responses \/ \E r : responses' = Append(responses, r) /\ r.kind # "events"
    <3>1. CASE ServeStatus BY <3>1 DEF ServeStatus, Answer
    <3>2. CASE ServeParameters BY <3>2 DEF ServeParameters, Answer, Acknowledge
    <3>3. CASE ServeCreate
      <4>1. Acknowledge \/ Answer([kind |-> "low_volume"]) BY <3>3 DEF ServeCreate
      <4>2. [kind |-> "low_volume"].kind # "events" OBVIOUS
      <4> QED BY <4>1, <4>2 DEF Answer, Acknowledge
    <3>4. CASE ServeAuthorize \/ ServeClose \/ RequestFails
      BY <3>4 DEF ServeAuthorize, ServeClose, RequestFails, Acknowledge
    <3> QED BY <1>8, <3>1, <3>2, <3>3, <3>4
  <2>2. ASSUME NEW r, responses' = Append(responses, r), r.kind # "events" PROVE Heard
    <3>1. responses' \in Seq(Response) /\ responses \in Seq(Response)
      BY <1>8, ServeTypes DEF DataOK
    <3>2. Len(responses') = Len(responses) + 1 /\ responses'[Len(responses) + 1] = r
      BY <2>2, <3>1
    <3>3. r \in Response BY <3>1, <3>2
    <3> QED BY <2>1, <2>2, <3>3 DEF Heard
  <2> QED BY <1>1, <2>1, <2>2
<1>9. ASSUME NEW d \in Dispensers, Happens(d) PROVE Heard
  BY <1>1, <1>9, ForecourtNews DEF Forecourt
<1>10. CASE UNCHANGED vars BY <1>1, <1>10 DEF vars
<1> QED BY <1>2, <1>3, <1>4, <1>5, <1>6, <1>7, <1>8, <1>9, <1>10
        DEF Next, Core, Controller, Happens
\* The records keep their orders and their flags, nothing is confirmed.
Kept ==
  /\ confirms' = confirms /\ records' = records
  /\ \A d \in Dispensers : /\ orders'[d].id = orders[d].id
                           /\ orders[d].finalized => orders'[d].finalized

\* The record of d is finalized and its order confirmed.
Confirmed(d) ==
  /\ d \in Dispensers
  /\ ~orders[d].finalized /\ orders'[d].finalized /\ orders'[d].id = orders[d].id
  /\ \A c \in Dispensers \ {d} : orders'[c] = orders[c]
  /\ confirms' = [confirms EXCEPT ![orders[d].id] = @ + 1]
  /\ records' = records

\* A new record of an order that was created for d.
Recorded(d, o) ==
  /\ d \in Dispensers /\ o \in Orders
  /\ \E i \in 1..Len(log) : Created(log[i]) /\ log[i].dev = d /\ log[i].order = o
  /\ orders'[d].id = o
  /\ \A c \in Dispensers \ {d} : orders'[c] = orders[c]
  /\ records' = [records EXCEPT ![o] = @ + 1]
  /\ confirms' = confirms

Owned == \A d \in Dispensers : OwnOrder(d)

LEMMA StillOwned ==
  ASSUME DataOK, Grown, Owned, NEW d \in Dispensers, orders'[d].id = orders[d].id
  PROVE  OwnOrder(d)'
<1>1. Len(log) \in Nat /\ Len(log') \in Nat BY DEF DataOK, Grown
<1>2. SUFFICES ASSUME orders[d].id \in Orders
      PROVE \E i \in 1..Len(log') :
              Created(log'[i]) /\ log'[i].dev = d /\ log'[i].order = orders'[d].id
  BY DEF OwnOrder
<1>3. PICK i \in 1..Len(log) : Created(log[i]) /\ log[i].dev = d /\ log[i].order = orders[d].id
  BY <1>2 DEF Owned, OwnOrder
<1>4. i \in 1..Len(log') /\ log'[i] = log[i] BY <1>1 DEF Grown
<1> QED BY <1>3, <1>4 DEF Created

\* Two dispensers have no record of the same order.
LEMMA OneOwner ==
  ASSUME DataOK, LogInv, Owned, NEW c \in Dispensers, NEW d \in Dispensers,
         orders[c].id = orders[d].id, orders[d].id \in Orders
  PROVE  c = d
<1>1. PICK i \in 1..Len(log) : Created(log[i]) /\ log[i].dev = d /\ log[i].order = orders[d].id
  BY DEF Owned, OwnOrder
<1>2. PICK j \in 1..Len(log) : Created(log[j]) /\ log[j].dev = c /\ log[j].order = orders[c].id
  BY DEF Owned, OwnOrder
<1> QED BY <1>1, <1>2 DEF LogInv

LEMMA KeptKeeps ==
  ASSUME DataOK, Grown, Owned, CountInv, Kept
  PROVE  Owned' /\ CountInv'
<1>1. \A d \in Dispensers : OwnOrder(d)' BY StillOwned DEF Kept
<1>2. CountInv' BY DEF CountInv, Kept
<1> QED BY <1>1, <1>2 DEF Owned

LEMMA ConfirmedKeeps ==
  ASSUME DataOK, Grown, LogInv, Owned, CountInv, NEW d, Confirmed(d)
  PROVE  Owned' /\ CountInv'
<1>1. \A c \in Dispensers : orders'[c].id = orders[c].id BY DEF Confirmed
<1>2. \A c \in Dispensers : OwnOrder(c)' BY <1>1, StillOwned
<1>3. ASSUME NEW o \in Orders
      PROVE  /\ confirms'[o] <= records'[o]
             /\ \A c \in Dispensers :
                  orders'[c].id = o /\ ~orders'[c].finalized => confirms'[o] + 1 <= records'[o]
  <2>1. confirms[o] \in Nat /\ records[o] \in Nat /\ o \in OrderOrNone BY DEF DataOK, OrderOrNone
  <2>2. CASE orders[d].id = o
    <3>1. confirms'[o] = confirms[o] + 1 BY <2>1, <2>2 DEF Confirmed, DataOK
    <3>2. confirms[o] + 1 <= records[o] BY <2>2 DEF CountInv, Confirmed
    <3>3. \A c \in Dispensers : orders'[c].id = o => c = d BY <1>1, <2>2, OneOwner DEF Confirmed
    <3>4. orders'[d].finalized BY DEF Confirmed
    <3>5. records'[o] = records[o] BY DEF Confirmed
    <3> QED BY <2>1, <3>1, <3>2, <3>3, <3>4, <3>5
  <2>3. CASE orders[d].id # o
    <3>1. confirms'[o] = confirms[o] BY <2>1, <2>3 DEF Confirmed, DataOK
    <3>2. ASSUME NEW c \in Dispensers, orders'[c].id = o PROVE orders'[c] = orders[c]
      BY <1>1, <2>3, <3>2 DEF Confirmed
    <3>3. records'[o] = records[o] BY DEF Confirmed
    <3> QED BY <3>1, <3>2, <3>3 DEF CountInv
  <2> QED BY <2>2, <2>3
<1> QED BY <1>2, <1>3 DEF Owned, CountInv

LEMMA RecordedKeeps ==
  ASSUME DataOK, Grown, Owned, CountInv, NEW d, NEW o, Recorded(d, o)
  PROVE  Owned' /\ CountInv'
<1>1. ASSUME NEW c \in Dispensers PROVE OwnOrder(c)'
  <2>1. CASE c # d BY <2>1, StillOwned DEF Recorded
  <2>2. CASE c = d
    <3>1. PICK i \in 1..Len(log) : Created(log[i]) /\ log[i].dev = d /\ log[i].order = o
      BY DEF Recorded
    <3>0. Len(log) \in Nat /\ Len(log') \in Nat BY DEF DataOK, Grown
    <3>2. i \in 1..Len(log') /\ log'[i] = log[i] BY <3>0 DEF Grown
    <3>3. Created(log'[i]) /\ log'[i].dev = c /\ log'[i].order = orders'[c].id
      BY <2>2, <3>1, <3>2 DEF Created, Recorded
    <3> QED BY <3>2, <3>3 DEF OwnOrder
  <2> QED BY <2>1, <2>2
<1>2. ASSUME NEW p \in Orders
      PROVE  /\ confirms'[p] <= records'[p]
             /\ \A c \in Dispensers :
                  orders'[c].id = p /\ ~orders'[c].finalized => confirms'[p] + 1 <= records'[p]
  <2>1. confirms[p] \in Nat /\ records[p] \in Nat /\ confirms'[p] = confirms[p]
        /\ confirms[p] <= records[p]
    BY DEF DataOK, OrderOrNone, Recorded, CountInv
  <2>2. CASE p = o
    <3>1. records'[p] = records[p] + 1 BY <2>1, <2>2 DEF Recorded, DataOK
    <3> QED BY <2>1, <3>1
  <2>3. CASE p # o
    <3>1. records'[p] = records[p] BY <2>1, <2>3 DEF Recorded, DataOK
    <3>2. ASSUME NEW c \in Dispensers, orders'[c].id = p PROVE orders'[c] = orders[c]
      BY <2>3, <3>2 DEF Recorded
    <3> QED BY <2>1, <3>1, <3>2 DEF CountInv
  <2> QED BY <2>2, <2>3
<1> QED BY <1>1, <1>2 DEF Owned, CountInv

LEMMA RecordStep ==
  ASSUME DataOK, HeardInv, [Next]_vars
  PROVE  \/ Kept
         \/ \E d : Confirmed(d)
         \/ \E d, o : Recorded(d, o)
<1> USE DEF logicVars, payVars, tellVars
<1>1. ASSUME UNCHANGED <<orders, confirms, records>> PROVE Kept BY <1>1 DEF Kept
<1>2. CASE Display \/ Poll \/ checkTimers
  <2>1. UNCHANGED <<orders, confirms, records>>
    BY <1>2 DEF Display, handleChooseTRK, ForgetDispenser, createOrder, handleBasicTouch,
                CloseOrderButton, BeginFuelling, CancelTransactionButton, Poll, checkTimers
  <2> QED BY <1>1, <2>1
<1>3. CASE CardTerminal
  <2>1. UNCHANGED <<orders, confirms, records>>
    BY <1>3 DEF CardTerminal, PaymentSuccess, PaymentFailure, ConfirmAnswer, CancelAnswer
  <2> QED BY <1>1, <2>1
<1>4. CASE \/ EventsAnswer \/ ParametersWithoutTask \/ ParametersBefore \/ ParametersAfter
           \/ LowVolumeAnswer
  <2>1. UNCHANGED <<orders, confirms, records>>
    BY <1>4 DEF EventsAnswer, ParametersWithoutTask, ParametersBefore, ParametersAfter,
                LowVolumeAnswer
  <2> QED BY <1>1, <2>1
<1>5. CASE StatusEvent
  <2> DEFINE d == Head(batch).dev
  <2>1. /\ confirms' = confirms /\ records' = records
        /\ orders' = orders \/ orders' = [orders EXCEPT ![d].closed = TRUE]
    BY <1>5 DEF StatusEvent
  <2> HIDE DEF d
  <2>2. CASE orders' = orders BY <2>1, <2>2 DEF Kept
  <2>3. CASE orders' = [orders EXCEPT ![d].closed = TRUE]
    BY <2>1, <2>3 DEF Kept, DataOK, DatabaseOrder
  <2> QED BY <2>1, <2>2, <2>3
<1>6. CASE OrderChangedEvent
  <2> DEFINE d == Head(batch).dev
  <2>1. /\ confirms' = confirms /\ records' = records
        /\ orders' = [orders EXCEPT ![d].status = Head(batch).status]
    BY <1>6 DEF OrderChangedEvent
  <2> HIDE DEF d
  <2> QED BY <2>1 DEF Kept, DataOK, DatabaseOrder
<1>7. CASE OrderCreatedEvent
  <2> DEFINE e == Head(batch)
  <2>1. batch # <<>> /\ Created(e) BY <1>7 DEF OrderCreatedEvent, Visit, Created
  <2>2. e.dev \in Dispensers /\ e.order \in Orders BY <2>1, FrontTypes DEF Created
  <2>3. \E i \in 1..Len(log) : log[i] = e
    <3>1. 1 \in 1..Len(batch) /\ batch[1] = e BY <2>1 DEF DataOK
    <3> QED BY <3>1 DEF HeardInv, Told
  <2>4. CASE UNCHANGED <<orders, records, ready, next, requests>>
    BY <1>1, <1>7, <2>4 DEF OrderCreatedEvent
  <2>5. CASE /\ orders' = [orders EXCEPT ![e.dev] = [DefaultOrder EXCEPT !.id = e.order]]
             /\ records' = [records EXCEPT ![e.order] = @ + 1]
    <3>1. orders'[e.dev].id = e.order BY <2>2, <2>5 DEF DataOK, DefaultOrder
    <3>2. \A c \in Dispensers \ {e.dev} : orders'[c] = orders[c] BY <2>2, <2>5 DEF DataOK
    <3>3. confirms' = confirms BY <1>7 DEF OrderCreatedEvent
    <3>4. Recorded(e.dev, e.order) BY <2>1, <2>2, <2>3, <2>5, <3>1, <3>2, <3>3 DEF Recorded
    <3> QED BY <3>4
  <2> QED BY <1>7, <2>4, <2>5 DEF OrderCreatedEvent
<1>8. CASE StatusWithoutOrder \/ StatusOfDeadOrder
  <2> DEFINE r == Head(responses)
  <2>1. /\ confirms' = confirms /\ records' = records
        /\ orders' = [orders EXCEPT ![r.dev] = Observed(r)]
    BY <1>8 DEF StatusWithoutOrder, StatusOfDeadOrder
  <2>2. responses # <<>> /\ r.kind = "status"
    BY <1>8 DEF StatusWithoutOrder, StatusOfDeadOrder, Handling
  <2>3. r.dev \in Dispensers BY <2>2, FrontTypes, Responses
  <2>4. Observed(r).id = orders[r.dev].id /\ Observed(r).finalized = orders[r.dev].finalized
    BY <2>3 DEF Observed, DataOK, DatabaseOrder
  <2> QED BY <2>1, <2>3, <2>4 DEF Kept, DataOK
<1>9. CASE StatusOfOrder
  <2> DEFINE r == Head(responses)
             e == [Observed(r) EXCEPT !.status = r.ostatus]
  <2>1. responses # <<>> /\ r.kind = "status" BY <1>9 DEF StatusOfOrder, Handling
  <2>2. r.dev \in Dispensers BY <2>1, FrontTypes, Responses
  <2>3. e.id = orders[r.dev].id /\ e.finalized = orders[r.dev].finalized
    BY <2>2 DEF Observed, DataOK, DatabaseOrder
  <2>4. [e EXCEPT !.finalized = TRUE].id = e.id /\ [e EXCEPT !.finalized = TRUE].finalized
    BY DEF Observed, DatabaseOrder, DataOK
  <2>5. processOrderFinalization(r.dev, e) /\ records' = records BY <1>9 DEF StatusOfOrder
  <2> HIDE DEF e
  <2>6. CASE Finalizes(e)
    <3>1. /\ orders' = [orders EXCEPT ![r.dev] = [e EXCEPT !.finalized = TRUE]]
          /\ confirms' = [confirms EXCEPT ![e.id] = @ + 1]
      BY <2>5, <2>6 DEF processOrderFinalization
    <3>2. ~e.finalized BY <2>6 DEF Finalizes
    <3>3. orders'[r.dev] = [e EXCEPT !.finalized = TRUE]
          /\ \A c \in Dispensers \ {r.dev} : orders'[c] = orders[c]
      BY <2>2, <3>1 DEF DataOK
    <3>4. Confirmed(r.dev) BY <2>2, <2>3, <2>4, <2>5, <3>1, <3>2, <3>3 DEF Confirmed
    <3> QED BY <3>4
  <2>7. CASE ~Finalizes(e)
    <3>1. orders' = [orders EXCEPT ![r.dev] = e] /\ confirms' = confirms
      BY <2>5, <2>7 DEF processOrderFinalization
    <3> QED BY <2>2, <2>3, <2>5, <3>1 DEF Kept, DataOK
  <2> QED BY <2>6, <2>7
<1>10. CASE Controller
  <2>1. CASE \/ ServeEvents \/ ServeStatus \/ ServeParameters
             \/ ServeCreate \/ ServeAuthorize \/ ServeClose \/ RequestFails
    <3>1. UNCHANGED <<orders, confirms, records>>
      BY <2>1 DEF ServeEvents, ServeStatus, ServeParameters, ServeCreate, ServeAuthorize,
                  ServeClose, RequestFails, Answer, Acknowledge
    <3> QED BY <1>1, <3>1
  <2>2. ASSUME NEW d \in Dispensers, Happens(d) PROVE Kept
    BY <1>1, <2>2, ForecourtNews DEF Forecourt
  <2> QED BY <1>10, <2>1, <2>2 DEF Controller, Happens
<1>11. CASE UNCHANGED vars BY <1>1, <1>11 DEF vars
<1> QED BY <1>2, <1>3, <1>4, <1>5, <1>6, <1>7, <1>8, <1>9, <1>10, <1>11 DEF Next, Core

LEMMA InitRecords == Init => RecordInv
<1> SUFFICES ASSUME Init PROVE RecordInv OBVIOUS
<1>1. log = <<>> /\ batch = <<>> /\ responses = <<>> /\ Len(<<>>) = 0 BY DEF Init
<1>2. LogInv /\ HeardInv BY <1>1 DEF LogInv, HeardInv
<1>3. \A d \in Dispensers : orders[d].id = NoOrder BY DEF Init, DefaultOrder
<1>4. NoOrder \notin Orders BY PrimeNames
<1>5. \A o \in Orders : confirms[o] = 0 /\ records[o] = 0 BY DEF Init, OrderOrNone
<1>6. CountInv BY <1>3, <1>4, <1>5 DEF CountInv
<1> QED BY <1>2, <1>3, <1>4, <1>6 DEF RecordInv, OwnOrder

LEMMA RecordsStep ==
  ASSUME DataOK, RecordInv, [Next]_vars
  PROVE  DataOK' /\ RecordInv'
<1>1. DataOK' BY Types
<1>2. LogInv /\ HeardInv /\ Owned /\ CountInv BY DEF RecordInv, Owned
<1>3. Grown /\ LogInv' BY <1>2, LogStep
<1>4. HeardInv' BY <1>2, <1>3, HeardStep, HeardKeeps
<1>5. Owned' /\ CountInv'
  BY <1>2, <1>3, RecordStep, KeptKeeps, ConfirmedKeeps, RecordedKeeps
<1> QED BY <1>1, <1>3, <1>4, <1>5 DEF RecordInv, Owned

\* PAY_CONFIRM is sent at most once for each record of an order, for any number
\* of dispensers, orders, polls, status queries and touches: with an
\* order_created event that is visited once, the charge is confirmed once.
THEOREM OneConfirmPerRecord == Spec => []ConfirmedPerRecord
<1>1. Init => DataOK /\ RecordInv BY InitTypes, InitRecords
<1>2. DataOK /\ RecordInv /\ [Next]_vars => DataOK' /\ RecordInv' BY RecordsStep
<1>3. RecordInv => ConfirmedPerRecord BY DEF RecordInv, CountInv, ConfirmedPerRecord
<1> QED BY <1>1, <1>2, <1>3, PTL DEF Spec

-----------------------------------------------------------------------------
(* One report per confirmation.                                            *)

\* The pending sales and the sales sent.
SalesOK ==
  /\ DOMAIN sales \subseteq OrderOrNone
  /\ \A o \in DOMAIN sales : sales[o] \in SalesData
  /\ reports \in [OrderOrNone -> Seq(SalesData)]

\* What the writers of m_pending_info_sales do to it.
LEMMA SaleWrites ==
  ASSUME SalesOK, NEW o \in OrderOrNone
  PROVE  /\ DOMAIN Touched(sales, o) = DOMAIN sales \cup {o}
         /\ \A p \in DOMAIN Touched(sales, o) : Touched(sales, o)[p] \in SalesData
         /\ DOMAIN Without(sales, o) = DOMAIN sales \ {o}
         /\ \A p \in DOMAIN Without(sales, o) : Without(sales, o)[p] \in SalesData
         /\ \A t \in {"Full", "Partial", "Revert"} :
              /\ DOMAIN [sales EXCEPT ![o].type = t] = DOMAIN sales
              /\ \A p \in DOMAIN sales : [sales EXCEPT ![o].type = t][p] \in SalesData
         /\ DOMAIN [sales EXCEPT ![o].before = TRUE] = DOMAIN sales
         /\ \A p \in DOMAIN sales : [sales EXCEPT ![o].before = TRUE][p] \in SalesData
<1>1. FreshSale \in SalesData BY DEF FreshSale, SalesData
<1>2. /\ DOMAIN Touched(sales, o) = DOMAIN sales \cup {o}
      /\ \A p \in DOMAIN Touched(sales, o) : Touched(sales, o)[p] \in SalesData
  BY <1>1 DEF Touched, With, SalesOK
<1>3. /\ DOMAIN Without(sales, o) = DOMAIN sales \ {o}
      /\ \A p \in DOMAIN Without(sales, o) : Without(sales, o)[p] \in SalesData
  BY DEF Without, SalesOK
<1>4. ASSUME NEW t \in {"Full", "Partial", "Revert"}, NEW p \in DOMAIN sales
      PROVE  [sales EXCEPT ![o].type = t][p] \in SalesData
  BY DEF SalesOK, SalesData
<1>5. ASSUME NEW p \in DOMAIN sales PROVE [sales EXCEPT ![o].before = TRUE][p] \in SalesData
  BY DEF SalesOK, SalesData
<1> QED BY <1>2, <1>3, <1>4, <1>5

\* The sales change in one of these ways.
LEMMA SaleStep ==
  ASSUME DataOK, SalesOK, [Next]_vars
  PROVE  SalesOK'
<1> USE DEF logicVars, tellVars
<1>1. ASSUME sales' = sales, reports' = reports PROVE SalesOK' BY <1>1 DEF SalesOK
<1>2. ASSUME NEW o \in OrderOrNone, reports' = reports,
             \/ sales' = Touched(sales, o) \/ sales' = Without(sales, o)
             \/ sales' = [sales EXCEPT ![o].before = TRUE]
             \/ \E t \in {"Full", "Partial", "Revert"} : sales' = [sales EXCEPT ![o].type = t]
      PROVE  SalesOK'
  <2>1. DOMAIN sales' \subseteq OrderOrNone /\ \A p \in DOMAIN sales' : sales'[p] \in SalesData
    <3>1. CASE sales' = Touched(sales, o)
      <4>1. DOMAIN sales \cup {o} \subseteq OrderOrNone BY DEF SalesOK
      <4>2. /\ DOMAIN sales' = DOMAIN sales \cup {o}
            /\ \A p \in DOMAIN sales' : sales'[p] \in SalesData
        BY <3>1, SaleWrites
      <4> QED BY <4>1, <4>2
    <3>2. CASE sales' = Without(sales, o)
      <4>1. DOMAIN sales \ {o} \subseteq OrderOrNone BY DEF SalesOK
      <4>2. /\ DOMAIN sales' = DOMAIN sales \ {o}
            /\ \A p \in DOMAIN sales' : sales'[p] \in SalesData
        BY <3>2, SaleWrites
      <4> QED BY <4>1, <4>2
    <3>3. CASE sales' = [sales EXCEPT ![o].before = TRUE]
      <4>1. DOMAIN sales \subseteq OrderOrNone BY DEF SalesOK
      <4>2. DOMAIN sales' = DOMAIN sales /\ \A p \in DOMAIN sales : sales'[p] \in SalesData
        BY <3>3, SaleWrites
      <4> QED BY <4>1, <4>2
    <3>4. ASSUME NEW t \in {"Full", "Partial", "Revert"}, sales' = [sales EXCEPT ![o].type = t]
          PROVE  /\ DOMAIN sales' \subseteq OrderOrNone
                 /\ \A p \in DOMAIN sales' : sales'[p] \in SalesData
      <4>1. DOMAIN sales \subseteq OrderOrNone BY DEF SalesOK
      <4>2. DOMAIN sales' = DOMAIN sales /\ \A p \in DOMAIN sales : sales'[p] \in SalesData
        BY <3>4, SaleWrites
      <4> QED BY <4>1, <4>2
    <3> QED BY <1>2, <3>1, <3>2, <3>3, <3>4
  <2> QED BY <1>2, <2>1 DEF SalesOK
<1>3. ASSUME ImmediatelyCancelTransaction, reports' = reports PROVE SalesOK'
  <2>1. CASE sales' = sales BY <1>1, <1>3, <2>1
  <2>2. CASE sales' # sales
    <3>1. /\ current # None /\ sales' = [sales EXCEPT ![orders[current].id].type = "Revert"]
      BY <1>3, <2>2 DEF ImmediatelyCancelTransaction
    <3>2. orders[current].id \in OrderOrNone BY <3>1 DEF DataOK, DatabaseOrder
    <3> QED BY <1>2, <1>3, <3>1, <3>2
  <2> QED BY <2>1, <2>2
<1>4. CASE Display \/ Poll \/ checkTimers
  <2>1. CASE BeginFuelling
    <3>1. reports' = reports BY <2>1 DEF BeginFuelling
    <3>2. CASE sales' = sales BY <1>1, <3>1, <3>2
    <3>3. CASE sales' # sales
      <4>1. current # None /\ sales' = Touched(sales, orders[current].id)
        BY <2>1, <3>3 DEF BeginFuelling, printDebetReceipt
      <4>2. orders[current].id \in OrderOrNone BY <4>1 DEF DataOK, DatabaseOrder
      <4> QED BY <1>2, <3>1, <4>1, <4>2
    <3> QED BY <3>2, <3>3
  <2>2. CASE CancelTransactionButton BY <1>3, <2>2 DEF CancelTransactionButton
  <2>3. CASE ~BeginFuelling /\ ~CancelTransactionButton
    <3>1. sales' = sales /\ reports' = reports
      BY <1>4, <2>3 DEF Display, handleChooseTRK, ForgetDispenser, createOrder,
                        handleBasicTouch, CloseOrderButton, Poll, checkTimers
    <3> QED BY <1>1, <3>1
  <2> QED BY <2>1, <2>2, <2>3
<1>5. CASE \/ EventsAnswer \/ StatusEvent \/ OrderCreatedEvent \/ StatusWithoutOrder
           \/ StatusOfDeadOrder \/ ParametersWithoutTask
  <2>1. sales' = sales /\ reports' = reports
    BY <1>5 DEF EventsAnswer, StatusEvent, OrderCreatedEvent, StatusWithoutOrder,
                StatusOfDeadOrder, ParametersWithoutTask
  <2> QED BY <1>1, <2>1
<1>6. CASE OrderChangedEvent
  <2> DEFINE o == orders[Head(batch).dev].id
  <2>1. batch # <<>> BY <1>6 DEF OrderChangedEvent, Visit
  <2>2. o \in OrderOrNone BY <2>1, FrontTypes DEF DataOK, DatabaseOrder
  <2>3. reports' = reports /\ (sales' = sales \/ sales' = Touched(sales, o))
    BY <1>6 DEF OrderChangedEvent
  <2> QED BY <1>1, <1>2, <2>2, <2>3
<1>7. CASE StatusOfOrder
  <2> DEFINE r == Head(responses)
             e == [Observed(r) EXCEPT !.status = r.ostatus]
  <2>1. responses # <<>> /\ r.kind = "status" BY <1>7 DEF StatusOfOrder, Handling
  <2>2. r.dev \in Dispensers BY <2>1, FrontTypes, Responses
  <2>3. e.id = orders[r.dev].id /\ orders[r.dev].id \in OrderOrNone
    BY <2>2 DEF Observed, DataOK, DatabaseOrder
  <2>4. processOrderFinalization(r.dev, e) /\ reports' = reports BY <1>7 DEF StatusOfOrder
  <2> HIDE DEF e
  <2>5. \/ sales' = Touched(sales, e.id)
        \/ \E t \in {"Full", "Partial", "Revert"} : sales' = [sales EXCEPT ![e.id].type = t]
    BY <2>4 DEF processOrderFinalization, TypeSale
  <2> QED BY <1>2, <2>3, <2>4, <2>5
<1>8. CASE ParametersBefore \/ ParametersAfter
  <2> DEFINE g == Head(responses).gauge
             o == Head(gauge_queue[g]).order
  <2>1. responses # <<>> /\ Head(responses).kind = "parameters"
    BY <1>8 DEF ParametersBefore, ParametersAfter, Handling
  <2>2. g \in Gauges /\ gauge_queue[g] # <<>>
    BY <1>8, <2>1, FrontTypes, Responses DEF ParametersBefore, ParametersAfter
  <2>3. Head(gauge_queue[g]) \in PendingGaugeTask BY <2>2 DEF DataOK
  <2>4. o \in OrderOrNone BY <2>3 DEF PendingGaugeTask
  <2>5. CASE ParametersBefore
    <3>1. reports' = reports /\ (sales' = sales \/ sales' = [sales EXCEPT ![o].before = TRUE])
      BY <2>5 DEF ParametersBefore
    <3> QED BY <1>1, <1>2, <2>4, <3>1
  <2>6. CASE ParametersAfter
    <3> DEFINE s == sales[o]
               v == [s EXCEPT !.before = @ \/ s.type = "Revert"]
    <3>1. \/ /\ o \in DOMAIN sales /\ sales' = Without(sales, o)
             /\ reports' = [reports EXCEPT ![o] = Append(@, v)]
          \/ sales' = sales /\ reports' = reports
      BY <2>6 DEF ParametersAfter
    <3>2. CASE /\ o \in DOMAIN sales /\ sales' = Without(sales, o)
               /\ reports' = [reports EXCEPT ![o] = Append(@, v)]
      <4>1. s \in SalesData BY <3>2 DEF SalesOK
      <4>2. v \in SalesData BY <4>1 DEF SalesData
      <4> HIDE DEF v, o
      <4>3. Append(reports[o], v) \in Seq(SalesData) BY <2>4, <4>2 DEF SalesOK
      <4>4. reports' \in [OrderOrNone -> Seq(SalesData)] BY <2>4, <3>2, <4>3 DEF SalesOK
      <4>5. DOMAIN sales' \subseteq OrderOrNone /\ \A p \in DOMAIN sales' : sales'[p] \in SalesData
        <5>1. /\ DOMAIN Without(sales, o) = DOMAIN sales \ {o}
              /\ \A p \in DOMAIN Without(sales, o) : Without(sales, o)[p] \in SalesData
          BY <2>4, SaleWrites
        <5> QED BY <3>2, <5>1 DEF SalesOK
      <4> QED BY <4>4, <4>5 DEF SalesOK
    <3> QED BY <1>1, <3>1, <3>2
  <2> QED BY <1>8, <2>5, <2>6
<1>9. CASE LowVolumeAnswer BY <1>3, <1>9 DEF LowVolumeAnswer
<1>10. CASE CardTerminal
  <2>1. ASSUME NEW o \in Orders, PaymentFailure(o) PROVE SalesOK'
    <3>1. reports' = reports /\ sales' = Without(sales, o) BY <2>1 DEF PaymentFailure
    <3>2. o \in OrderOrNone BY DEF OrderOrNone
    <3> QED BY <1>2, <3>1, <3>2
  <2>2. ASSUME NEW o \in Orders, PaymentSuccess(o) PROVE SalesOK'
    BY <1>1, <2>2 DEF PaymentSuccess
  <2>3. CASE ConfirmAnswer \/ CancelAnswer BY <1>1, <2>3 DEF ConfirmAnswer, CancelAnswer
  <2> QED BY <1>10, <2>1, <2>2, <2>3 DEF CardTerminal
<1>11. CASE \/ ServeEvents \/ ServeStatus \/ ServeParameters
            \/ ServeCreate \/ ServeAuthorize \/ ServeClose \/ RequestFails
  <2>1. sales' = sales /\ reports' = reports
    BY <1>11 DEF ServeEvents, ServeStatus, ServeParameters, ServeCreate, ServeAuthorize,
                 ServeClose, RequestFails, Answer, Acknowledge
  <2> QED BY <1>1, <2>1
<1>12. ASSUME NEW d \in Dispensers, Happens(d) PROVE SalesOK'
  BY <1>1, <1>12, ForecourtNews DEF Forecourt
<1>13. CASE UNCHANGED vars BY <1>1, <1>13 DEF vars
<1> QED BY <1>4, <1>5, <1>6, <1>7, <1>8, <1>9, <1>10, <1>11, <1>12, <1>13
        DEF Next, Core, Controller, Happens

\* The order of a finalized record is confirmed, and is the one that the
\* dispenser's status knows, which the end of the fuelling is sent for.
FinalInv ==
  \A d \in Dispensers :
    orders[d].finalized => /\ orders[d].id \in Orders
                           /\ disp[d].order_id = orders[d].id
                           /\ confirms[orders[d].id] >= 1

\* The task whose reading sends the sale of o.
After(o) == [order |-> o, task |-> "AFTER"]

\* It is for the tank of the order's dispenser, and there is a confirmation for it.
Due(o, g) ==
  /\ \E i \in 1..Len(log) : Created(log[i]) /\ log[i].order = o /\ GaugeOf[log[i].dev] = g
  /\ o \in cancelled \cup repeated \/ Len(reports[o]) < confirms[o]

AfterInv ==
  \A g \in Gauges, o \in Orders : Told(gauge_queue[g], After(o)) => Due(o, g)

ReportInv == SalesOK /\ FinalInv /\ AfterInv /\ DeliveryReportedOnce

\* Steps that send no sale, and queue only tasks that are due.
Queues ==
  /\ reports' = reports
  /\ cancelled \subseteq cancelled' /\ repeated \subseteq repeated'
  /\ \A o \in Orders : confirms'[o] >= confirms[o]
  /\ \A g \in Gauges, o \in Orders :
       Told(gauge_queue'[g], After(o)) => Told(gauge_queue[g], After(o)) \/ Due(o, g)'

LEMMA QueuesKeeps ==
  ASSUME DataOK, Grown, DataOK', SalesOK, AfterInv, DeliveryReportedOnce, Queues
  PROVE  AfterInv' /\ DeliveryReportedOnce'
<1>1. Len(log) \in Nat /\ Len(log') \in Nat BY DEF DataOK, Grown
<1>2. ASSUME NEW o \in Orders
      PROVE  Len(reports[o]) \in Nat /\ confirms[o] \in Nat /\ confirms'[o] \in Nat
  BY DEF SalesOK, DataOK, OrderOrNone
<1>3. ASSUME NEW o \in Orders, NEW g \in Gauges, Due(o, g) PROVE Due(o, g)'
  <2>1. PICK i \in 1..Len(log) : Created(log[i]) /\ log[i].order = o /\ GaugeOf[log[i].dev] = g
    BY <1>3 DEF Due
  <2>2. i \in 1..Len(log') /\ log'[i] = log[i] BY <1>1 DEF Grown
  <2>3. o \in cancelled' \cup repeated' \/ Len(reports'[o]) < confirms'[o]
    BY <1>2, <1>3 DEF Due, Queues
  <2> QED BY <2>1, <2>2, <2>3 DEF Due, Created
<1>4. AfterInv' BY <1>3 DEF AfterInv, Queues
<1>5. DeliveryReportedOnce' BY <1>2 DEF DeliveryReportedOnce, Queues
<1> QED BY <1>4, <1>5

\* The sale of the order at the head of g's queue is sent.
Sends(o, g) ==
  /\ g \in Gauges /\ o \in OrderOrNone
  /\ Told(gauge_queue[g], After(o))
  /\ gauge_queue' = [gauge_queue EXCEPT ![g] = <<>>]
  /\ \E v \in SalesData : reports' = [reports EXCEPT ![o] = Append(@, v)]
  /\ UNCHANGED <<cancelled, repeated, confirms, log>>

LEMMA SendsKeeps ==
  ASSUME DataOK, LogInv, SalesOK, AfterInv, DeliveryReportedOnce, NEW o, NEW g, Sends(o, g)
  PROVE  AfterInv' /\ DeliveryReportedOnce'
<1>1. PICK v \in SalesData : reports' = [reports EXCEPT ![o] = Append(@, v)] BY DEF Sends
<1>2. ASSUME NEW p \in Orders
      PROVE  /\ Len(reports[p]) \in Nat /\ confirms[p] \in Nat
             /\ p # o => reports'[p] = reports[p]
             /\ p = o => Len(reports'[p]) = Len(reports[p]) + 1
  <2>1. p \in OrderOrNone /\ o \in OrderOrNone BY DEF OrderOrNone, Sends
  <2>2. reports[p] \in Seq(SalesData) /\ confirms[p] \in Nat BY <2>1 DEF SalesOK, DataOK
  <2>3. Len(Append(reports[p], v)) = Len(reports[p]) + 1 BY <2>2
  <2> QED BY <1>1, <2>1, <2>2, <2>3 DEF SalesOK
<1>3. o \in Orders => Due(o, g) BY DEF Sends, AfterInv
<1>4. DeliveryReportedOnce' BY <1>2, <1>3 DEF DeliveryReportedOnce, Due, Sends
<1>5. ASSUME NEW h \in Gauges, NEW p \in Orders, Told(gauge_queue'[h], After(p))
      PROVE  Due(p, h)'
  <2>1. g \in Gauges \cup {NoGauge} /\ h \in Gauges \cup {NoGauge} BY DEF Sends
  <2>2. h # g /\ gauge_queue'[h] = gauge_queue[h]
    <3>1. gauge_queue'[g] = <<>> /\ (h # g => gauge_queue'[h] = gauge_queue[h])
      BY <2>1 DEF Sends, DataOK
    <3>2. Len(<<>>) = 0 /\ ~\E j : j \in 1..0 OBVIOUS
    <3> QED BY <1>5, <3>1, <3>2 DEF Told
  <2>3. Due(p, h) BY <1>5, <2>2 DEF AfterInv
  <2>4. PICK i \in 1..Len(log) : Created(log[i]) /\ log[i].order = p /\ GaugeOf[log[i].dev] = h
    BY <2>3 DEF Due
  <2>5. p # o
    <3>1. SUFFICES ASSUME p = o PROVE FALSE OBVIOUS
    <3>2. PICK j \in 1..Len(log) : Created(log[j]) /\ log[j].order = o /\ GaugeOf[log[j].dev] = g
      BY <1>3, <3>1 DEF Due
    <3> QED BY <2>2, <2>4, <3>1, <3>2 DEF LogInv
  <2>6. reports'[p] = reports[p] BY <1>2, <2>5
  <2> QED BY <2>3, <2>6 DEF Due, Sends, Created
<1>6. AfterInv' BY <1>5 DEF AfterInv
<1> QED BY <1>4, <1>6

\* Only a STATUS answer of the order finalizes its record.
LEMMA FinalStep ==
  ASSUME DataOK, FinalInv, [Next]_vars
  PROVE  FinalInv'
<1> USE DEF logicVars, payVars
<1>1. ASSUME UNCHANGED <<disp, orders, confirms>> PROVE FinalInv' BY <1>1 DEF FinalInv
\* The record and the status of d change, but neither flag nor order.
<1>2. ASSUME NEW d \in Dispensers, confirms' = confirms,
             orders'[d].finalized => orders[d].finalized /\ orders'[d].id = orders[d].id,
             orders'[d].finalized => disp'[d].order_id = disp[d].order_id,
             \A c \in Dispensers \ {d} : orders'[c] = orders[c] /\ disp'[c] = disp[c]
      PROVE  FinalInv'
  BY <1>2 DEF FinalInv
<1>3. CASE Display \/ Poll \/ checkTimers
  <2>1. UNCHANGED <<disp, orders, confirms>>
    BY <1>3 DEF Display, handleChooseTRK, ForgetDispenser, createOrder, handleBasicTouch,
                CloseOrderButton, BeginFuelling, CancelTransactionButton, Poll, checkTimers
  <2> QED BY <1>1, <2>1
<1>4. CASE CardTerminal
  <2>1. UNCHANGED <<disp, orders, confirms>>
    BY <1>4 DEF CardTerminal, PaymentSuccess, PaymentFailure, ConfirmAnswer, CancelAnswer
  <2> QED BY <1>1, <2>1
<1>5. CASE \/ EventsAnswer \/ ParametersWithoutTask \/ ParametersBefore \/ ParametersAfter
           \/ LowVolumeAnswer
  <2>1. UNCHANGED <<disp, orders, confirms>>
    BY <1>5 DEF EventsAnswer, ParametersWithoutTask, ParametersBefore, ParametersAfter,
                LowVolumeAnswer
  <2> QED BY <1>1, <2>1
<1>6. CASE StatusEvent \/ OrderChangedEvent \/ OrderCreatedEvent
  <2> DEFINE e == Head(batch)
             d == e.dev
  <2>1. batch # <<>> /\ confirms' = confirms
    BY <1>6 DEF StatusEvent, OrderChangedEvent, OrderCreatedEvent, Visit
  <2>2. d \in Dispensers BY <2>1, FrontTypes
  <2>3. orders[d] \in DatabaseOrder /\ disp[d] \in Dispenser BY <2>2 DEF DataOK
  <2>4. CASE StatusEvent
    <3>1. /\ \E p \in BOOLEAN : disp' = [disp EXCEPT ![d].status = e.status, ![d].product = p]
          /\ orders' = orders \/ orders' = [orders EXCEPT ![d].closed = TRUE]
      <4>1. (disp[d].product \/ (e.status # "IDLE")) \in BOOLEAN BY <2>3 DEF Dispenser
      <4> QED BY <2>4, <4>1 DEF StatusEvent
    <3> HIDE DEF d, e
    <3>2. /\ disp'[d].order_id = disp[d].order_id
          /\ orders'[d].finalized = orders[d].finalized /\ orders'[d].id = orders[d].id
          /\ \A c \in Dispensers \ {d} : orders'[c] = orders[c] /\ disp'[c] = disp[c]
      BY <2>2, <2>3, <3>1 DEF DataOK, DatabaseOrder, Dispenser
    <3> QED BY <1>2, <2>1, <2>2, <3>2
  <2>5. CASE OrderChangedEvent
    <3>1. disp' = disp /\ orders' = [orders EXCEPT ![d].status = e.status]
      BY <2>5 DEF OrderChangedEvent
    <3> HIDE DEF d, e
    <3>2. /\ orders'[d].finalized = orders[d].finalized /\ orders'[d].id = orders[d].id
          /\ \A c \in Dispensers \ {d} : orders'[c] = orders[c]
      BY <2>2, <2>3, <3>1 DEF DataOK, DatabaseOrder
    <3> QED BY <1>2, <2>1, <2>2, <3>1, <3>2
  <2>6. CASE OrderCreatedEvent
    <3>1. /\ disp' = disp
          /\ orders' = orders \/ orders' = [orders EXCEPT ![d] = [DefaultOrder EXCEPT !.id = e.order]]
      BY <2>6 DEF OrderCreatedEvent
    <3>2. ~[DefaultOrder EXCEPT !.id = e.order].finalized BY DEF DefaultOrder
    <3> HIDE DEF d, e
    <3>3. CASE orders' = orders BY <1>1, <2>1, <3>1, <3>3
    <3>4. CASE orders' = [orders EXCEPT ![d] = [DefaultOrder EXCEPT !.id = e.order]]
      <4>1. ~orders'[d].finalized /\ \A c \in Dispensers \ {d} : orders'[c] = orders[c]
        BY <2>2, <3>2, <3>4 DEF DataOK
      <4> QED BY <1>2, <2>1, <2>2, <3>1, <4>1
    <3> QED BY <3>1, <3>3, <3>4
  <2> QED BY <1>6, <2>4, <2>5, <2>6
<1>7. CASE StatusWithoutOrder \/ StatusOfDeadOrder \/ StatusOfOrder
  <2> DEFINE r == Head(responses)
             d == r.dev
  <2>1. responses # <<>> /\ r.kind = "status"
    BY <1>7 DEF StatusWithoutOrder, StatusOfDeadOrder, StatusOfOrder, Handling
  <2>2. d \in Dispensers /\ r.order \in OrderOrNone BY <2>1, FrontTypes, Responses
  <2>3. ASSUME NEW o, ObserveStatus(r, o)
        PROVE  disp'[d].order_id = o /\ \A c \in Dispensers \ {d} : disp'[c] = disp[c]
    BY <2>2, <2>3 DEF ObserveStatus, DataOK
  <2>4. /\ Observed(r).id = orders[d].id /\ Observed(r).finalized = orders[d].finalized
        /\ [Observed(r) EXCEPT !.status = r.ostatus].id = orders[d].id
        /\ [Observed(r) EXCEPT !.status = r.ostatus].finalized = orders[d].finalized
    BY <2>2 DEF Observed, DataOK, DatabaseOrder
  <2>5. CASE StatusWithoutOrder \/ StatusOfDeadOrder
    <3>1. /\ confirms' = confirms /\ orders' = [orders EXCEPT ![d] = Observed(r)]
          /\ ObserveStatus(r, disp[d].order_id)
      BY <2>5 DEF StatusWithoutOrder, StatusOfDeadOrder
    <3>2. orders'[d] = Observed(r) /\ \A c \in Dispensers \ {d} : orders'[c] = orders[c]
      BY <2>2, <3>1 DEF DataOK
    <3> QED BY <1>2, <2>2, <2>3, <2>4, <3>1, <3>2
  <2>6. CASE StatusOfOrder
    <3> DEFINE e == [Observed(r) EXCEPT !.status = r.ostatus]
               f == [e EXCEPT !.finalized = TRUE]
    <3>1. /\ ObserveStatus(r, r.order) /\ orders[d].id = r.order /\ r.order # NoOrder
          /\ processOrderFinalization(d, e)
      BY <2>6 DEF StatusOfOrder
    <3>2. r.order \in Orders BY <2>2, <3>1 DEF OrderOrNone
    <3>3. f.id = r.order BY <2>4, <3>1 DEF Observed, DataOK, DatabaseOrder
    <3> HIDE DEF e, f
    <3>4. CASE Finalizes(e)
      <4>1. orders' = [orders EXCEPT ![d] = f] /\ confirms' = [confirms EXCEPT ![e.id] = @ + 1]
        BY <3>1, <3>4 DEF processOrderFinalization, f
      <4>2. orders'[d] = f /\ \A c \in Dispensers \ {d} : orders'[c] = orders[c]
        BY <2>2, <4>1 DEF DataOK
      <4>3. e.id = r.order BY <2>4, <3>1 DEF e
      <4>4. confirms'[r.order] >= 1 /\ \A o \in Orders : confirms'[o] >= confirms[o]
        BY <3>2, <4>1, <4>3 DEF DataOK, OrderOrNone
      <4>5. ASSUME NEW c \in Dispensers, orders'[c].finalized
            PROVE  /\ orders'[c].id \in Orders /\ disp'[c].order_id = orders'[c].id
                   /\ confirms'[orders'[c].id] >= 1
        <5>1. CASE c = d BY <2>3, <3>1, <3>2, <3>3, <4>2, <4>4, <5>1
        <5>2. CASE c # d
          <6>1. orders'[c] = orders[c] /\ disp'[c] = disp[c] BY <2>3, <3>1, <4>2, <5>2
          <6>2. /\ orders[c].id \in Orders /\ disp[c].order_id = orders[c].id
                /\ confirms[orders[c].id] >= 1
            BY <4>5, <6>1 DEF FinalInv
          <6>3. /\ confirms'[orders[c].id] >= confirms[orders[c].id]
                /\ confirms[orders[c].id] \in Nat /\ confirms'[orders[c].id] \in Nat
            BY <4>1, <4>3, <4>4, <6>2, <3>2 DEF DataOK, OrderOrNone
          <6> QED BY <6>1, <6>2, <6>3
        <5> QED BY <5>1, <5>2
      <4> QED BY <4>5 DEF FinalInv
    <3>5. CASE ~Finalizes(e)
      <4>1. orders' = [orders EXCEPT ![d] = e] /\ confirms' = confirms
        BY <3>1, <3>5 DEF processOrderFinalization
      <4>2. orders'[d] = e /\ \A c \in Dispensers \ {d} : orders'[c] = orders[c]
        BY <2>2, <4>1 DEF DataOK
      <4>3. e.id = orders[d].id /\ e.finalized = orders[d].finalized BY <2>4 DEF e
      <4>4. orders[d].finalized => disp[d].order_id = r.order BY <2>2, <3>1 DEF FinalInv
      <4> QED BY <1>2, <2>2, <2>3, <3>1, <4>1, <4>2, <4>3, <4>4
    <3> QED BY <3>4, <3>5
  <2> QED BY <1>7, <2>5, <2>6
<1>8. CASE Controller
  <2>1. CASE \/ ServeEvents \/ ServeStatus \/ ServeParameters
             \/ ServeCreate \/ ServeAuthorize \/ ServeClose \/ RequestFails
    <3>1. UNCHANGED <<disp, orders, confirms>>
      BY <2>1 DEF ServeEvents, ServeStatus, ServeParameters, ServeCreate, ServeAuthorize,
                  ServeClose, RequestFails, Answer, Acknowledge
    <3> QED BY <1>1, <3>1
  <2>2. ASSUME NEW d \in Dispensers, Happens(d) PROVE FinalInv'
    BY <1>1, <2>2, ForecourtNews DEF Forecourt
  <2> QED BY <1>8, <2>1, <2>2 DEF Controller, Happens
<1>9. CASE UNCHANGED vars BY <1>1, <1>9 DEF vars
<1> QED BY <1>3, <1>4, <1>5, <1>6, <1>7, <1>8, <1>9 DEF Next, Core

\* After a push the queues hold the tasks they held and the new one.
LEMMA PushedTasks ==
  ASSUME DataOK, NEW g \in Gauges \cup {NoGauge}, NEW o \in OrderOrNone,
         NEW t \in {"BEFORE", "AFTER"}, gauge_queue' = PushTask(gauge_queue, g, o, t)
  PROVE  \A h \in Gauges, p \in Orders :
           Told(gauge_queue'[h], After(p)) =>
             Told(gauge_queue[h], After(p)) \/ (h = g /\ p = o /\ t = "AFTER")
<1>1. SUFFICES ASSUME NEW h \in Gauges, NEW p \in Orders, Told(gauge_queue'[h], After(p))
      PROVE  Told(gauge_queue[h], After(p)) \/ (h = g /\ p = o /\ t = "AFTER")
  OBVIOUS
<1> DEFINE q == gauge_queue[g]
           m == [order |-> o, task |-> t]
<1>2. q \in Seq(PendingGaugeTask) /\ m \in PendingGaugeTask BY DEF DataOK, PendingGaugeTask
<1>3. CASE h # g
  <2>1. gauge_queue'[h] = gauge_queue[h] BY <1>3 DEF PushTask, DataOK
  <2> QED BY <1>1, <2>1
<1>4. CASE h = g
  <2>1. gauge_queue'[h] = Append(q, m) BY <1>4 DEF PushTask, DataOK
  <2>2. PICK k \in 1..Len(Append(q, m)) : Append(q, m)[k] = After(p) BY <1>1, <2>1 DEF Told
  <2> HIDE DEF q, m
  <2>3. (k \in 1..Len(q) /\ Append(q, m)[k] = q[k]) \/ Append(q, m)[k] = m BY <1>2
  <2>4. CASE k \in 1..Len(q) /\ q[k] = After(p) BY <1>4, <2>4 DEF Told, q
  <2>5. CASE m = After(p) BY <1>4, <2>5 DEF m, After
  <2> QED BY <2>2, <2>3, <2>4, <2>5
<1> QED BY <1>3, <1>4

\* The record of d is that of an order created for d.
LEMMA OwnTank ==
  ASSUME DataOK, Owned, NEW d \in Dispensers, orders[d].id \in Orders
  PROVE  \E i \in 1..Len(log) :
           Created(log[i]) /\ log[i].order = orders[d].id /\ GaugeOf[log[i].dev] = GaugeOf[d]
<1>1. PICK i \in 1..Len(log) : Created(log[i]) /\ log[i].dev = d /\ log[i].order = orders[d].id
  BY DEF Owned, OwnOrder
<1> QED BY <1>1

LEMMA CancelQueues ==
  ASSUME DataOK, Owned, ImmediatelyCancelTransaction,
         UNCHANGED <<reports, repeated, confirms, log>>
  PROVE  Queues
<1>0. \A o \in Orders : confirms[o] \in Nat /\ confirms'[o] >= confirms[o]
  BY DEF DataOK, OrderOrNone
<1>1. CASE gauge_queue' = gauge_queue
  <2>1. cancelled \subseteq cancelled' BY DEF ImmediatelyCancelTransaction
  <2> QED BY <1>0, <1>1, <2>1 DEF Queues
<1>2. CASE gauge_queue' # gauge_queue
  <2> DEFINE o == orders[current].id
             g == GaugeOf[current]
  <2>1. /\ current # None /\ cancelled' = cancelled \cup {o}
        /\ gauge_queue' = PushTask(gauge_queue, g, o, "AFTER")
    BY <1>2 DEF ImmediatelyCancelTransaction
  <2>2. current \in Dispensers /\ o \in OrderOrNone /\ g \in Gauges
    BY <2>1, GaugeIds DEF DataOK, DatabaseOrder
  <2>3. ASSUME NEW h \in Gauges, NEW p \in Orders, Told(gauge_queue'[h], After(p)),
               ~Told(gauge_queue[h], After(p))
        PROVE  Due(p, h)'
    <3>1. h = g /\ p = o BY <2>1, <2>2, <2>3, PushedTasks
    <3>2. \E i \in 1..Len(log) : Created(log[i]) /\ log[i].order = p /\ GaugeOf[log[i].dev] = h
      BY <2>2, <2>3, <3>1, OwnTank
    <3> QED BY <2>1, <3>1, <3>2 DEF Due, Created
  <2> QED BY <1>0, <2>1, <2>3 DEF Queues
<1> QED BY <1>1, <1>2

LEMMA ReportStep ==
  ASSUME DataOK, Owned, SalesOK, FinalInv, DeliveryReportedOnce, [Next]_vars
  PROVE  Queues \/ \E o, g : Sends(o, g)
<1> USE DEF logicVars, payVars, tellVars
<1>0. \A o \in Orders : confirms[o] \in Nat /\ Len(reports[o]) \in Nat
  BY DEF DataOK, OrderOrNone, SalesOK
<1>1. ASSUME UNCHANGED <<gauge_queue, reports, cancelled, repeated, confirms>> PROVE Queues
  BY <1>0, <1>1 DEF Queues
<1>2. CASE Display \/ Poll \/ checkTimers
  <2>1. CASE CancelTransactionButton
    BY <2>1, CancelQueues DEF CancelTransactionButton, srvVars
  <2>2. CASE ~CancelTransactionButton
    <3>1. UNCHANGED <<gauge_queue, reports, cancelled, repeated, confirms>>
      BY <1>2, <2>2 DEF Display, handleChooseTRK, ForgetDispenser, createOrder, handleBasicTouch,
                        CloseOrderButton, BeginFuelling, Poll, checkTimers
    <3> QED BY <1>1, <3>1
  <2> QED BY <2>1, <2>2
<1>3. CASE CardTerminal
  <2>1. UNCHANGED <<gauge_queue, reports, cancelled, repeated, confirms>>
    BY <1>3 DEF CardTerminal, PaymentSuccess, PaymentFailure, ConfirmAnswer, CancelAnswer
  <2> QED BY <1>1, <2>1
<1>4. CASE \/ EventsAnswer \/ ParametersWithoutTask \/ OrderCreatedEvent
           \/ StatusWithoutOrder \/ StatusOfDeadOrder
  <2>1. UNCHANGED <<gauge_queue, reports, cancelled, repeated, confirms>>
    BY <1>4 DEF EventsAnswer, ParametersWithoutTask, OrderCreatedEvent, StatusWithoutOrder,
                StatusOfDeadOrder
  <2> QED BY <1>1, <2>1
<1>5. CASE LowVolumeAnswer BY <1>5, CancelQueues DEF LowVolumeAnswer, srvVars
<1>6. CASE OrderChangedEvent
  <2> DEFINE d == Head(batch).dev
             o == orders[d].id
             g == getLevelGaugeId(d, orders[d].product)
  <2>1. batch # <<>> BY <1>6 DEF OrderChangedEvent, Visit
  <2>2. d \in Dispensers BY <2>1, FrontTypes
  <2>3. o \in OrderOrNone /\ g \in Gauges \cup {NoGauge}
    BY <2>2, GaugeIds DEF DataOK, DatabaseOrder
  <2>4. /\ UNCHANGED <<reports, cancelled, repeated, confirms>>
        /\ gauge_queue' = gauge_queue \/ gauge_queue' = PushTask(gauge_queue, g, o, "BEFORE")
    BY <1>6 DEF OrderChangedEvent
  <2> HIDE DEF o, g
  <2>5. CASE gauge_queue' = PushTask(gauge_queue, g, o, "BEFORE")
    <3>1. \A h \in Gauges, p \in Orders :
            Told(gauge_queue'[h], After(p)) => Told(gauge_queue[h], After(p))
      BY <2>3, <2>5, PushedTasks
    <3> QED BY <1>0, <2>4, <3>1 DEF Queues
  <2> QED BY <1>1, <2>4, <2>5
<1>7. CASE StatusEvent
  <2> DEFINE e == Head(batch)
             d == e.dev
             o == disp[d].order_id
             known == disp[d].product \/ e.status # "IDLE"
             g == getLevelGaugeId(d, known)
             back == e.status = "IDLE" /\ disp[d].status \in {"COMPLETE", "FUELLING"}
             report == SendsEnd(d, back)
  <2>1. batch # <<>> BY <1>7 DEF StatusEvent, Visit
  <2>2. d \in Dispensers BY <2>1, FrontTypes
  <2>3. /\ gauge_queue' = IF report THEN PushTask(gauge_queue, g, o, "AFTER") ELSE gauge_queue
        /\ repeated' = repeated \cup {p \in {o} : report /\ reports[p] # <<>>}
        /\ UNCHANGED <<reports, cancelled, confirms, log>>
    BY <1>7 DEF StatusEvent, srvVars
  <2>4. o \in OrderOrNone /\ known \in BOOLEAN BY <2>2 DEF DataOK, Dispenser
  <2>5. g \in Gauges \cup {NoGauge} /\ (g \in Gauges => g = GaugeOf[d])
    BY <2>2, <2>4, PrimeNames DEF getLevelGaugeId
  <2>6. report => orders[d].finalized BY DEF SendsEnd
  <2> HIDE DEF g, o, report
  <2>7. CASE ~report
    <3>1. gauge_queue' = gauge_queue /\ repeated \subseteq repeated' BY <2>3, <2>7
    <3> QED BY <1>0, <2>3, <3>1 DEF Queues
  <2>8. CASE report
    <3>1. gauge_queue' = PushTask(gauge_queue, g, o, "AFTER") /\ repeated \subseteq repeated'
      BY <2>3, <2>8
    <3>2. orders[d].id \in Orders /\ o = orders[d].id /\ confirms[o] >= 1
      BY <2>2, <2>6, <2>8 DEF FinalInv, o
    <3>3. ASSUME NEW h \in Gauges, NEW p \in Orders, Told(gauge_queue'[h], After(p)),
                 ~Told(gauge_queue[h], After(p))
          PROVE  Due(p, h)'
      <4>1. h = g /\ p = o BY <2>4, <2>5, <3>1, <3>3, PushedTasks
      <4>2. \E i \in 1..Len(log) : Created(log[i]) /\ log[i].order = p /\ GaugeOf[log[i].dev] = h
        BY <2>2, <2>5, <3>2, <4>1, OwnTank
      <4>3. p \in repeated' \/ Len(reports[p]) < confirms[p]
        <5>1. CASE reports[o] # <<>> BY <2>3, <2>8, <4>1, <5>1
        <5>2. CASE reports[o] = <<>>
          <6>1. Len(reports[o]) = 0 BY <5>2
          <6> QED BY <1>0, <3>2, <4>1, <6>1
        <5> QED BY <5>1, <5>2
      <4> QED BY <2>3, <4>2, <4>3 DEF Due, Created
    <3> QED BY <1>0, <2>3, <3>1, <3>3 DEF Queues
  <2> QED BY <2>7, <2>8
<1>8. CASE StatusOfOrder
  <2> DEFINE r == Head(responses)
             d == r.dev
             e == [Observed(r) EXCEPT !.status = r.ostatus]
             g == getLevelGaugeId(d, e.product)
             o == r.order
  <2>1. responses # <<>> /\ r.kind = "status" BY <1>8 DEF StatusOfOrder, Handling
  <2>2. d \in Dispensers /\ o \in OrderOrNone BY <2>1, FrontTypes, Responses
  <2>3. /\ orders[d].id = o /\ o # NoOrder
        /\ processOrderFinalization(d, e)
        /\ UNCHANGED <<cancelled, reports, repeated, log>>
    BY <1>8 DEF StatusOfOrder, srvVars
  <2>4. o \in Orders BY <2>2, <2>3 DEF OrderOrNone
  <2>5. e.id = o /\ e.product \in BOOLEAN
    BY <2>2, <2>3 DEF Observed, DataOK, DatabaseOrder
  <2>6. g \in Gauges \cup {NoGauge} /\ (g \in Gauges => g = GaugeOf[d])
    BY <2>2, <2>5, PrimeNames DEF getLevelGaugeId
  <2> HIDE DEF e
  <2>7. CASE ~Finalizes(e)
    <3>1. UNCHANGED <<gauge_queue, confirms>> BY <2>3, <2>7 DEF processOrderFinalization
    <3> QED BY <1>1, <2>3, <3>1
  <2>8. CASE Finalizes(e)
    <3>1. /\ confirms' = [confirms EXCEPT ![o] = @ + 1]
          /\ gauge_queue' = gauge_queue \/ gauge_queue' = PushTask(gauge_queue, g, o, "AFTER")
      BY <2>3, <2>5, <2>8 DEF processOrderFinalization
    <3> HIDE DEF g, o
    <3>2. confirms'[o] = confirms[o] + 1 /\ \A p \in Orders : confirms'[p] >= confirms[p]
      BY <2>2, <3>1 DEF DataOK, OrderOrNone
    <3>3. CASE gauge_queue' = gauge_queue BY <2>3, <3>2, <3>3 DEF Queues
    <3>4. CASE gauge_queue' = PushTask(gauge_queue, g, o, "AFTER")
      <4>1. ASSUME NEW h \in Gauges, NEW p \in Orders, Told(gauge_queue'[h], After(p)),
                   ~Told(gauge_queue[h], After(p))
            PROVE  Due(p, h)'
        <5>1. h = g /\ p = o BY <2>2, <2>6, <3>4, <4>1, PushedTasks
        <5>2. \E i \in 1..Len(log) : Created(log[i]) /\ log[i].order = p /\ GaugeOf[log[i].dev] = h
          BY <2>2, <2>3, <2>4, <2>6, <5>1, OwnTank
        <5>3. p \in cancelled \cup repeated \/ Len(reports[p]) < confirms'[p]
          BY <1>0, <3>2, <5>1 DEF DeliveryReportedOnce
        <5> QED BY <2>3, <5>2, <5>3 DEF Due, Created
      <4> QED BY <2>3, <3>2, <4>1 DEF Queues
    <3> QED BY <3>1, <3>3, <3>4
  <2> QED BY <2>7, <2>8
<1>9. CASE ParametersBefore \/ ParametersAfter
  <2> DEFINE g == Head(responses).gauge
             q == gauge_queue[g]
             o == Head(q).order
  <2>1. responses # <<>> /\ Head(responses).kind = "parameters" /\ q # <<>>
    BY <1>9 DEF ParametersBefore, ParametersAfter, Handling
  <2>2. g \in Gauges BY <2>1, FrontTypes, Responses
  <2>3. q \in Seq(PendingGaugeTask) BY <2>2 DEF DataOK
  <2>4. Head(q) \in PendingGaugeTask BY <2>1, <2>3
  <2>5. o \in OrderOrNone BY <2>4 DEF PendingGaugeTask
  <2>6. UNCHANGED <<cancelled, repeated, confirms, log>>
    BY <1>9 DEF ParametersBefore, ParametersAfter, srvVars
  <2>7. ASSUME gauge_queue' = [gauge_queue EXCEPT ![g] = Tail(q)], reports' = reports
        PROVE  Queues
    <3>1. /\ gauge_queue'[g] = Tail(q)
          /\ \A h \in Gauges \ {g} : gauge_queue'[h] = gauge_queue[h]
      BY <2>2, <2>7 DEF DataOK
    <3> HIDE DEF q, g
    <3>2. \A k \in 1..Len(Tail(q)) : k + 1 \in 1..Len(q) /\ Tail(q)[k] = q[k + 1]
      BY <2>1, <2>3
    <3>3. \A h \in Gauges, p \in Orders :
            Told(gauge_queue'[h], After(p)) => Told(gauge_queue[h], After(p))
      <4>1. ASSUME NEW p, Told(gauge_queue'[g], After(p)) PROVE Told(q, After(p))
        BY <3>1, <3>2, <4>1 DEF Told
      <4>2. q = gauge_queue[g] BY DEF q
      <4> QED BY <3>1, <4>1, <4>2
    <3> QED BY <1>0, <2>6, <2>7, <3>3 DEF Queues
  <2>8. CASE ParametersBefore BY <2>7, <2>8 DEF ParametersBefore
  <2>9. CASE ParametersAfter
    <3> DEFINE s == sales[o]
               v == [s EXCEPT !.before = @ \/ s.type = "Revert"]
    <3>1. /\ Head(q).task = "AFTER"
          /\ \/ /\ o \in DOMAIN sales
                /\ reports' = [reports EXCEPT ![o] = Append(@, v)]
                /\ gauge_queue' = [gauge_queue EXCEPT ![g] = <<>>]
             \/ gauge_queue' = [gauge_queue EXCEPT ![g] = Tail(q)] /\ reports' = reports
      BY <2>9 DEF ParametersAfter
    <3>2. CASE /\ o \in DOMAIN sales
               /\ reports' = [reports EXCEPT ![o] = Append(@, v)]
               /\ gauge_queue' = [gauge_queue EXCEPT ![g] = <<>>]
      <4>1. s \in SalesData BY <3>2 DEF SalesOK
      <4>2. v \in SalesData BY <4>1 DEF SalesData
      <4>3. Told(q, After(o))
        <5>1. Head(q) = After(o) BY <2>4, <3>1 DEF PendingGaugeTask, After
        <5>2. 1 \in 1..Len(q) /\ q[1] = Head(q) BY <2>1, <2>3
        <5> QED BY <5>1, <5>2 DEF Told
      <4> HIDE DEF v
      <4>4. Sends(o, g) BY <2>2, <2>5, <2>6, <3>2, <4>2, <4>3 DEF Sends
      <4> QED BY <4>4
    <3> QED BY <2>7, <3>1, <3>2
  <2> QED BY <1>9, <2>8, <2>9
<1>10. CASE Controller
  <2>1. CASE \/ ServeEvents \/ ServeStatus \/ ServeParameters
             \/ ServeCreate \/ ServeAuthorize \/ ServeClose \/ RequestFails
    <3>1. UNCHANGED <<gauge_queue, reports, cancelled, repeated, confirms>>
      BY <2>1 DEF ServeEvents, ServeStatus, ServeParameters, ServeCreate, ServeAuthorize,
                  ServeClose, RequestFails, Answer, Acknowledge
    <3> QED BY <1>1, <3>1
  <2>2. ASSUME NEW d \in Dispensers, Happens(d) PROVE Queues
    BY <1>1, <2>2, ForecourtNews DEF Forecourt
  <2> QED BY <1>10, <2>1, <2>2 DEF Controller, Happens
<1>11. CASE UNCHANGED vars BY <1>1, <1>11 DEF vars
<1> QED BY <1>2, <1>3, <1>4, <1>5, <1>6, <1>7, <1>8, <1>9, <1>10, <1>11 DEF Next, Core

\* A step of the system keeps what is known of the reports.
LEMMA ReportsStep ==
  ASSUME DataOK, RecordInv, ReportInv, [Next]_vars
  PROVE  ReportInv'
<1>1. DataOK' BY RecordsStep
<1>2. LogInv /\ Owned BY DEF RecordInv, Owned
<1>3. Grown BY <1>2, LogStep
<1>4. SalesOK /\ FinalInv /\ AfterInv /\ DeliveryReportedOnce BY DEF ReportInv
<1>5. SalesOK' BY <1>4, SaleStep
<1>6. FinalInv' BY <1>4, FinalStep
<1>7. AfterInv' /\ DeliveryReportedOnce'
  BY <1>1, <1>2, <1>3, <1>4, ReportStep, QueuesKeeps, SendsKeeps
<1> QED BY <1>5, <1>6, <1>7 DEF ReportInv

LEMMA InitReports == Init => ReportInv
<1> SUFFICES ASSUME Init PROVE ReportInv OBVIOUS
<1>1. SalesOK
  <2>1. <<>> \in Seq(SalesData) OBVIOUS
  <2> QED BY <2>1 DEF Init, SalesOK
<1>2. FinalInv BY DEF Init, FinalInv, DefaultOrder
<1>3. AfterInv
  <2>1. \A g \in Gauges : gauge_queue[g] = <<>> BY DEF Init
  <2>2. Len(<<>>) = 0 /\ ~\E k : k \in 1..0 OBVIOUS
  <2> QED BY <2>1, <2>2 DEF AfterInv, Told
<1>4. DeliveryReportedOnce
  <2>1. \A o \in Orders : reports[o] = <<>> /\ confirms[o] = 0 BY DEF Init, OrderOrNone
  <2>2. Len(<<>>) = 0 OBVIOUS
  <2> QED BY <2>1, <2>2 DEF DeliveryReportedOnce
<1> QED BY <1>1, <1>2, <1>3, <1>4 DEF ReportInv

\* A sale that was never cancelled goes to BOS at most once for each confirmation
\* of its charge, for any number of dispensers on any number of tanks, unless its
\* end is visited again after it was sent.
THEOREM OneReportPerConfirmation == Spec => []DeliveryReportedOnce
<1>1. Init => DataOK /\ RecordInv /\ ReportInv BY InitTypes, InitRecords, InitReports
<1>2. DataOK /\ RecordInv /\ ReportInv /\ [Next]_vars => DataOK' /\ RecordInv' /\ ReportInv'
  BY RecordsStep, ReportsStep
<1>3. ReportInv => DeliveryReportedOnce BY DEF ReportInv
<1> QED BY <1>1, <1>2, <1>3, PTL DEF Spec

-----------------------------------------------------------------------------
(* The journal of the controller.                                          *)

\* Entry c of the journal is order_created of o for d, entry a tells that o was
\* authorized, entry i that the nozzle of d was hung up.
CreatedAt(c, o, d) ==
  c \in 1..Len(log) /\ Created(log[c]) /\ log[c].order = o /\ log[c].dev = d

AuthorizedAt(a, o) ==
  /\ a \in 1..Len(log)
  /\ log[a].what = "changed" /\ log[a].status = "AUTHORIZED" /\ log[a].order = o

IdleAt(i, d) ==
  i \in 1..Len(log) /\ log[i].what = "status" /\ log[i].status = "IDLE" /\ log[i].dev = d

Authorized(o) == \E a \in 1..Len(log) : AuthorizedAt(a, o)
Begun == {"AUTHORIZED"} \cup Finished

\* Events are numbered by their place.
Numbered == \A i \in 1..Len(log) : log[i].id = i

\* An order is created once.
CreatedOnce ==
  \A c, e \in 1..Len(log) :
    Created(log[c]) /\ Created(log[e]) /\ log[c].order = log[e].order => c = e

\* The order a dispenser has was created for it, its nozzle stays up until it is
\* authorized or it is untimely, and it is in the journal when it is authorized.
ServedOrder(d) ==
  srv[d].order \in Orders =>
    /\ \E c \in 1..Len(log) : CreatedAt(c, srv[d].order, d)
    /\ srv[d].ostatus # ""
    /\ srv[d].ostatus \in Begun => Authorized(srv[d].order)
    /\ srv[d].ostatus = "READY" /\ srv[d].order \notin untimely =>
         /\ srv[d].status # "IDLE"
         /\ \A c, i \in 1..Len(log) : CreatedAt(c, srv[d].order, d) /\ c < i => ~IdleAt(i, d)

\* Fuel flows for an authorized order.
Fuelled == \A d \in Dispensers : srv[d].status = "FUELLING" => srv[d].ostatus = "AUTHORIZED"

\* An order is authorized after it was created, and the nozzle is not hung up in
\* between, unless it is untimely.
AuthorizedLater ==
  \A o \in Orders, d \in Dispensers, a, c \in 1..Len(log) :
    AuthorizedAt(a, o) /\ CreatedAt(c, o, d) =>
      /\ c < a /\ log[a].dev = d
      /\ o \notin untimely => \A i \in 1..Len(log) : c < i /\ i < a => ~IdleAt(i, d)

JournalInv ==
  /\ Numbered /\ CreatedOnce /\ Fuelled /\ AuthorizedLater
  /\ \A d \in Dispensers : ServedOrder(d)

\* What the journal says stays said.
LEMMA OldPlaces ==
  ASSUME DataOK, Grown, NEW i \in 1..Len(log), NEW o, NEW d
  PROVE  /\ i \in 1..Len(log') /\ log'[i] = log[i]
         /\ CreatedAt(i, o, d)' <=> CreatedAt(i, o, d)
         /\ AuthorizedAt(i, o)' <=> AuthorizedAt(i, o)
         /\ IdleAt(i, d)' <=> IdleAt(i, d)
<1>1. Len(log) \in Nat /\ Len(log') \in Nat BY DEF DataOK, Grown
<1>2. i \in 1..Len(log') /\ log'[i] = log[i] BY <1>1 DEF Grown
<1> QED BY <1>2 DEF CreatedAt, Created, AuthorizedAt, IdleAt

\* What the journal tells, it keeps telling.
LEMMA StillAuthorized ==
  ASSUME DataOK, Grown, NEW o, Authorized(o)
  PROVE  Authorized(o)'
<1>1. PICK a \in 1..Len(log) : AuthorizedAt(a, o) BY DEF Authorized
<1>2. a \in 1..Len(log') /\ AuthorizedAt(a, o)' BY <1>1, OldPlaces
<1> QED BY <1>2 DEF Authorized

LEMMA StillCreated ==
  ASSUME DataOK, Grown, NEW o, NEW d, \E c \in 1..Len(log) : CreatedAt(c, o, d)
  PROVE  \E c \in 1..Len(log') : CreatedAt(c, o, d)'
<1>1. PICK c \in 1..Len(log) : CreatedAt(c, o, d) OBVIOUS
<1>2. c \in 1..Len(log') /\ CreatedAt(c, o, d)' BY <1>1, OldPlaces
<1> QED BY <1>2

\* The steps of the controller that concern the journal and its dispensers.
Rests == log' = log /\ srv' = srv

Closes(d) ==
  /\ d \in Dispensers /\ log' = log
  /\ srv' = [srv EXCEPT ![d].order = NoOrder, ![d].ostatus = ""]
  /\ srv[d].status # "FUELLING"

Writes(d, w, s, o) ==
  /\ Grown /\ Len(log') = Len(log) + 1
  /\ LET e == log'[Len(log) + 1]
     IN  e.id = Len(log) + 1 /\ e.dev = d /\ e.what = w /\ e.status = s /\ e.order = o

Creates(d, o) ==
  /\ d \in Dispensers /\ o \in Orders \ Used
  /\ srv[d].status = "NOZZLE_UP"
  /\ srv' = [srv EXCEPT ![d].order = o, ![d].ostatus = "READY"]
  /\ Writes(d, "created", "READY", o)

Authorizes(d) ==
  /\ d \in Dispensers /\ srv[d].ostatus = "READY"
  /\ srv' = [srv EXCEPT ![d].ostatus = "AUTHORIZED"]
  /\ Writes(d, "changed", "AUTHORIZED", srv[d].order)
  /\ srv[d].order \in untimely' \/ pay[srv[d].order] = "paid"
  /\ pay' = pay

\* The nozzle of d moves or its fuel flows.
Moves(d) ==
  /\ d \in Dispensers /\ Grown
  /\ \A i \in 1..Len(log') : i \notin 1..Len(log) =>
       /\ log'[i].id = i /\ log'[i].dev = d /\ log'[i].what # "created"
       /\ log'[i].what = "changed" => log'[i].status # "AUTHORIZED"
       /\ log'[i].what = "status" /\ log'[i].status = "IDLE" => srv'[d].status = "IDLE"
  /\ srv'[d].order = srv[d].order
  /\ \/ srv'[d].ostatus = srv[d].ostatus
     \/ srv[d].ostatus = "AUTHORIZED" /\ srv'[d].ostatus \in Finished
  /\ srv'[d].status = "FUELLING" => srv'[d].ostatus = "AUTHORIZED"
  /\ srv'[d].status = "IDLE" => srv'[d].ostatus # "READY" \/ srv[d].order \in untimely'
  /\ \A c \in Dispensers \ {d} : srv'[c] = srv[c]

\* A dispenser the step does not touch, when nothing was written for its order.
LEMMA ServedKeeps ==
  ASSUME DataOK, Grown, untimely \subseteq untimely', NEW d \in Dispensers, ServedOrder(d),
         srv'[d].order = srv[d].order,
         srv'[d].ostatus = srv[d].ostatus
           \/ (srv[d].ostatus = "AUTHORIZED" /\ srv'[d].ostatus \in Finished),
         srv[d].order \in Orders /\ srv'[d].ostatus = "READY" /\ srv[d].order \notin untimely' =>
           /\ srv'[d].status # "IDLE"
           /\ \A i \in 1..Len(log') : i \notin 1..Len(log) =>
                ~IdleAt(i, d)' /\ (\A o \in Orders : srv[d].order = o => ~CreatedAt(i, o, d)')
  PROVE  ServedOrder(d)'
<1>1. SUFFICES ASSUME NEW o \in Orders, srv[d].order = o PROVE ServedOrder(d)'
  BY DEF ServedOrder
<1>2. \E c \in 1..Len(log') : CreatedAt(c, o, d)' BY <1>1, StillCreated DEF ServedOrder
<1>3. srv'[d].ostatus # "" BY <1>1 DEF ServedOrder, Finished
<1>4. srv'[d].ostatus \in Begun => Authorized(o)'
  <2>1. srv'[d].ostatus \in Begun => srv[d].ostatus \in Begun BY DEF Begun
  <2> QED BY <1>1, <2>1, StillAuthorized DEF ServedOrder
<1>5. ASSUME srv'[d].ostatus = "READY", o \notin untimely',
             NEW c \in 1..Len(log'), NEW i \in 1..Len(log'), CreatedAt(c, o, d)', c < i
      PROVE  ~IdleAt(i, d)'
  <2>1. srv[d].ostatus = "READY" /\ o \notin untimely BY <1>5 DEF Finished
  <2>2. c \in 1..Len(log) BY <1>1, <1>5
  <2>3. CASE i \in 1..Len(log)
    BY <1>1, <1>5, <2>1, <2>2, <2>3, OldPlaces DEF ServedOrder
  <2>4. CASE i \notin 1..Len(log) BY <1>1, <1>5, <2>4
  <2> QED BY <2>3, <2>4
<1>6. srv'[d].ostatus = "READY" /\ o \notin untimely' => srv'[d].status # "IDLE" BY <1>1
<1> QED BY <1>1, <1>2, <1>3, <1>4, <1>5, <1>6 DEF ServedOrder

\* Nothing new is created or authorized: what is in the journal of an order stays
\* in its order.
LEMMA OldOrders ==
  ASSUME DataOK, Grown, untimely \subseteq untimely', CreatedOnce, AuthorizedLater,
         \A i \in 1..Len(log') : i \notin 1..Len(log) =>
           /\ ~Created(log'[i])
           /\ ~(log'[i].what = "changed" /\ log'[i].status = "AUTHORIZED")
  PROVE  CreatedOnce' /\ AuthorizedLater'
<1>1. \A i \in 1..Len(log') : Created(log'[i]) => i \in 1..Len(log) /\ log'[i] = log[i]
  BY DEF Grown
<1>2. CreatedOnce' BY <1>1 DEF CreatedOnce, Created
<1>3. ASSUME NEW o \in Orders, NEW d \in Dispensers, NEW a \in 1..Len(log'), NEW c \in 1..Len(log'),
             AuthorizedAt(a, o)', CreatedAt(c, o, d)'
      PROVE  /\ c < a /\ log'[a].dev = d
             /\ o \notin untimely' => \A i \in 1..Len(log') : c < i /\ i < a => ~IdleAt(i, d)'
  <2>1. a \in 1..Len(log) /\ c \in 1..Len(log) BY <1>3 DEF AuthorizedAt, CreatedAt, Created
  <2>2. AuthorizedAt(a, o) /\ CreatedAt(c, o, d) /\ log'[a] = log[a] BY <1>3, <2>1, OldPlaces
  <2>3. c < a /\ log[a].dev = d
        /\ (o \notin untimely => \A i \in 1..Len(log) : c < i /\ i < a => ~IdleAt(i, d))
    BY <2>1, <2>2 DEF AuthorizedLater
  <2>4. ASSUME o \notin untimely', NEW i \in 1..Len(log'), c < i, i < a PROVE ~IdleAt(i, d)'
    <3>1. Len(log) \in Nat BY DEF DataOK
    <3>2. i \in 1..Len(log) BY <2>1, <2>4, <3>1
    <3> QED BY <2>3, <2>4, <3>2, OldPlaces
  <2> QED BY <2>2, <2>3, <2>4
<1> QED BY <1>2, <1>3 DEF AuthorizedLater

\* Each kind of step keeps what is known of the journal.
LEMMA RestsKeeps ==
  ASSUME DataOK, untimely \subseteq untimely', JournalInv,
         Rests \/ \E d : Closes(d)
  PROVE  JournalInv'
<1>0. log' = log BY DEF Rests, Closes
<1>1. Grown BY <1>0 DEF Grown, DataOK
<1>2. Numbered' /\ CreatedOnce' /\ AuthorizedLater'
  BY <1>0, <1>1, OldOrders DEF JournalInv, Numbered
<1>3. ASSUME NEW d \in Dispensers, srv'[d] = srv[d] PROVE ServedOrder(d)'
  BY <1>0, <1>1, <1>3, ServedKeeps DEF JournalInv, ServedOrder
<1>4. CASE Rests BY <1>2, <1>3, <1>4 DEF JournalInv, Rests, Fuelled
<1>5. ASSUME NEW d, Closes(d) PROVE JournalInv'
  <2>1. /\ srv'[d].order = NoOrder /\ srv'[d].status = srv[d].status /\ d \in Dispensers
        /\ \A c \in Dispensers \ {d} : srv'[c] = srv[c]
    <3>1. srv \in [Dispensers -> [status : Statuses, order : OrderOrNone, ostatus : OrderStatuses]]
      BY DEF DataOK
    <3>2. d \in Dispensers /\ srv' = [srv EXCEPT ![d].order = NoOrder, ![d].ostatus = ""]
      BY <1>5 DEF Closes
    <3>3. srv' = [srv EXCEPT ![d] = [srv[d] EXCEPT !.order = NoOrder, !.ostatus = ""]] BY <3>2
    <3>4. srv'[d] = [srv[d] EXCEPT !.order = NoOrder, !.ostatus = ""]
          /\ \A c \in Dispensers \ {d} : srv'[c] = srv[c]
      BY <3>1, <3>2, <3>3
    <3>5. srv[d] \in [status : Statuses, order : OrderOrNone, ostatus : OrderStatuses]
      BY <3>1, <3>2
    <3> QED BY <3>2, <3>4, <3>5
  <2>2. \A c \in Dispensers : ServedOrder(c)' BY <1>3, <2>1, PrimeNames DEF ServedOrder
  <2>3. Fuelled' BY <1>5, <2>1 DEF JournalInv, Fuelled, Closes
  <2> QED BY <1>2, <2>2, <2>3 DEF JournalInv
<1> QED BY <1>4, <1>5

LEMMA MovesKeeps ==
  ASSUME DataOK, untimely \subseteq untimely', JournalInv, NEW d, Moves(d)
  PROVE  JournalInv'
<1>1. Grown /\ d \in Dispensers BY DEF Moves
<1>2. Numbered' BY <1>1 DEF JournalInv, Numbered, Grown, Moves
<1>3. CreatedOnce' /\ AuthorizedLater' BY <1>1, OldOrders DEF JournalInv, Moves, Created
<1>4. Fuelled' BY DEF JournalInv, Fuelled, Moves
<1>5. \A i \in 1..Len(log') : i \notin 1..Len(log) => ~Created(log'[i])
  BY DEF Moves, Created
<1>6. ASSUME NEW c \in Dispensers, NEW i \in 1..Len(log'), i \notin 1..Len(log)
      PROVE  /\ \A o \in Orders : ~CreatedAt(i, o, c)'
             /\ IdleAt(i, c)' => c = d /\ srv'[d].status = "IDLE"
  <2>1. \A o \in Orders : ~CreatedAt(i, o, c)' BY <1>5, <1>6 DEF CreatedAt
  <2>2. IdleAt(i, c)' => c = d /\ srv'[d].status = "IDLE" BY <1>6 DEF IdleAt, Moves
  <2> QED BY <2>1, <2>2
<1>7. ServedOrder(d) /\ ServedOrder(d)'
  <2>1. ServedOrder(d) BY <1>1 DEF JournalInv
  <2>2. srv'[d].order = srv[d].order
        /\ (srv'[d].ostatus = srv[d].ostatus
             \/ (srv[d].ostatus = "AUTHORIZED" /\ srv'[d].ostatus \in Finished))
    BY DEF Moves
  <2>3. srv'[d].ostatus = "READY" /\ srv[d].order \notin untimely' => srv'[d].status # "IDLE"
    BY DEF Moves
  <2> QED BY <1>1, <1>6, <2>1, <2>2, <2>3, ServedKeeps
<1>8. ASSUME NEW c \in Dispensers \ {d} PROVE ServedOrder(c)'
  <2>1. ServedOrder(c) /\ srv'[c] = srv[c] BY <1>8 DEF JournalInv, Moves
  <2>2. srv[c].ostatus = "READY" /\ srv[c].order \in Orders /\ srv[c].order \notin untimely' => srv[c].status # "IDLE"
    BY <2>1 DEF ServedOrder
  <2> QED BY <1>1, <1>6, <2>1, <2>2, ServedKeeps
<1> QED BY <1>2, <1>3, <1>4, <1>7, <1>8 DEF JournalInv

LEMMA CreatesKeeps ==
  ASSUME DataOK, untimely \subseteq untimely', JournalInv, NEW d, NEW o, Creates(d, o)
  PROVE  JournalInv'
<1>0. Len(log) \in Nat BY DEF DataOK
<1>n. PICK n \in Nat : n = Len(log) + 1 BY <1>0
<1>1. /\ Grown /\ d \in Dispensers /\ o \in Orders /\ Len(log') = n
      /\ log'[n].id = n /\ log'[n].dev = d /\ log'[n].what = "created" /\ log'[n].order = o
  BY <1>n DEF Creates, Writes
<1>2. n \in 1..Len(log') /\ \A i \in 1..Len(log') : i \notin 1..Len(log) => i = n BY <1>0, <1>n, <1>1
<1>3. \A i \in 1..Len(log) : log[i].order # o BY DEF Creates, Used
<1>4. Numbered' BY <1>1, <1>2 DEF JournalInv, Numbered, Grown
<1>5. CreatedOnce'
  <2>1. SUFFICES ASSUME NEW c \in 1..Len(log'), NEW e \in 1..Len(log'), Created(log'[c]),
                        Created(log'[e]), log'[c].order = log'[e].order
                 PROVE  c = e
    BY DEF CreatedOnce, Created
  <2>2. CASE c \in 1..Len(log) /\ e \in 1..Len(log)
    BY <1>1, <2>1, <2>2 DEF JournalInv, CreatedOnce, Grown
  <2>3. CASE c \notin 1..Len(log) /\ e \notin 1..Len(log) BY <1>2, <2>3
  <2>4. CASE c \notin 1..Len(log) /\ e \in 1..Len(log) BY <1>1, <1>2, <1>3, <2>1, <2>4 DEF Grown
  <2>5. CASE c \in 1..Len(log) /\ e \notin 1..Len(log) BY <1>1, <1>2, <1>3, <2>1, <2>5 DEF Grown
  <2> QED BY <2>2, <2>3, <2>4, <2>5
<1>6. ASSUME NEW p \in Orders, NEW b \in Dispensers, NEW a \in 1..Len(log'), NEW c \in 1..Len(log'),
             AuthorizedAt(a, p)', CreatedAt(c, p, b)'
      PROVE  /\ c < a /\ log'[a].dev = b
             /\ p \notin untimely' => \A i \in 1..Len(log') : c < i /\ i < a => ~IdleAt(i, b)'
  <2>1. a \in 1..Len(log) BY <1>1, <1>2, <1>6 DEF AuthorizedAt
  <2>2. AuthorizedAt(a, p) /\ p # o /\ log'[a] = log[a]
    BY <1>1, <1>3, <1>6, <2>1, OldPlaces DEF AuthorizedAt
  <2>3. c \in 1..Len(log) BY <1>1, <1>2, <1>6, <2>2 DEF CreatedAt
  <2>4. CreatedAt(c, p, b) BY <1>1, <1>6, <2>3, OldPlaces
  <2>5. c < a /\ log[a].dev = b
        /\ (p \notin untimely => \A i \in 1..Len(log) : c < i /\ i < a => ~IdleAt(i, b))
    BY <2>1, <2>2, <2>3, <2>4 DEF JournalInv, AuthorizedLater
  <2>6. ASSUME p \notin untimely', NEW i \in 1..Len(log'), c < i, i < a PROVE ~IdleAt(i, b)'
    <3>1. i \in 1..Len(log) BY <1>0, <2>1, <2>6
    <3> QED BY <1>1, <2>5, <2>6, <3>1, OldPlaces
  <2> QED BY <2>2, <2>5, <2>6
<1>7. AuthorizedLater' BY <1>6 DEF AuthorizedLater
<1>8. /\ srv'[d].order = o /\ srv'[d].ostatus = "READY" /\ srv'[d].status = "NOZZLE_UP"
      /\ \A c \in Dispensers \ {d} : srv'[c] = srv[c]
  BY <1>1 DEF Creates, DataOK
<1>9. Fuelled' BY <1>8 DEF JournalInv, Fuelled
<1>10. ServedOrder(d)'
  <2>1. CreatedAt(n, o, d)' BY <1>1, <1>2 DEF CreatedAt, Created
  <2>2. ASSUME NEW c \in 1..Len(log'), NEW i \in 1..Len(log'), CreatedAt(c, o, d)', c < i
        PROVE  ~IdleAt(i, d)'
    <3>1. c = n BY <1>1, <1>2, <1>3, <2>2 DEF CreatedAt, Grown
    <3> QED BY <1>0, <1>n, <1>1, <2>2, <3>1
  <2> QED BY <1>2, <1>8, <2>1, <2>2 DEF ServedOrder, Begun, Finished
<1>11. ASSUME NEW c \in Dispensers \ {d} PROVE ServedOrder(c)'
  <2>1. ServedOrder(c) /\ srv'[c] = srv[c] BY <1>8, <1>11 DEF JournalInv
  <2>2. \A i \in 1..Len(log') : i \notin 1..Len(log) =>
          ~IdleAt(i, c)' /\ \A p \in Orders : ~CreatedAt(i, p, c)'
    BY <1>1, <1>2, <1>11 DEF IdleAt, CreatedAt
  <2>3. srv[c].ostatus = "READY" /\ srv[c].order \in Orders /\ srv[c].order \notin untimely'
          => srv[c].status # "IDLE"
    BY <2>1 DEF ServedOrder
  <2> QED BY <1>1, <2>1, <2>2, <2>3, ServedKeeps
<1> QED BY <1>4, <1>5, <1>7, <1>9, <1>10, <1>11 DEF JournalInv

LEMMA AuthorizesKeeps ==
  ASSUME DataOK, untimely \subseteq untimely', JournalInv, NEW d, Authorizes(d)
  PROVE  JournalInv'
<1>0. Len(log) \in Nat BY DEF DataOK
<1>n. PICK n \in Nat : n = Len(log) + 1 BY <1>0
<1>1. /\ Grown /\ d \in Dispensers /\ Len(log') = n
      /\ log'[n].id = n /\ log'[n].dev = d /\ log'[n].what = "changed"
      /\ log'[n].status = "AUTHORIZED" /\ log'[n].order = srv[d].order
  BY <1>n DEF Authorizes, Writes
<1>2. n \in 1..Len(log') /\ \A i \in 1..Len(log') : i \notin 1..Len(log) => i = n BY <1>0, <1>n, <1>1
<1>3. \A i \in 1..Len(log) : i < n BY <1>0, <1>n
<1>4. Numbered' BY <1>1, <1>2 DEF JournalInv, Numbered, Grown
<1>5. \A i \in 1..Len(log') : Created(log'[i]) => i \in 1..Len(log) /\ log'[i] = log[i]
  BY <1>1, <1>2 DEF Created, Grown
<1>6. CreatedOnce' BY <1>5 DEF JournalInv, CreatedOnce, Created
<1>7. ASSUME NEW p \in Orders, NEW b \in Dispensers, NEW a \in 1..Len(log'), NEW c \in 1..Len(log'),
             AuthorizedAt(a, p)', CreatedAt(c, p, b)'
      PROVE  /\ c < a /\ log'[a].dev = b
             /\ p \notin untimely' => \A i \in 1..Len(log') : c < i /\ i < a => ~IdleAt(i, b)'
  <2>1. c \in 1..Len(log) BY <1>5, <1>7 DEF CreatedAt
  <2>2. CreatedAt(c, p, b) BY <1>1, <1>7, <2>1, OldPlaces
  <2>3. CASE a \in 1..Len(log)
    <3>1. AuthorizedAt(a, p) /\ log'[a] = log[a] BY <1>1, <1>7, <2>3, OldPlaces
    <3>2. c < a /\ log[a].dev = b
          /\ (p \notin untimely => \A i \in 1..Len(log) : c < i /\ i < a => ~IdleAt(i, b))
      BY <2>1, <2>2, <2>3, <3>1 DEF JournalInv, AuthorizedLater
    <3>3. ASSUME p \notin untimely', NEW i \in 1..Len(log'), c < i, i < a PROVE ~IdleAt(i, b)'
      <4>1. i \in 1..Len(log) BY <1>0, <2>3, <3>3
      <4> QED BY <1>1, <3>2, <3>3, <4>1, OldPlaces
    <3> QED BY <3>1, <3>2, <3>3
  <2>4. CASE a \notin 1..Len(log)
    <3>1. a = n /\ p = srv[d].order BY <1>1, <1>2, <1>7, <2>4 DEF AuthorizedAt
    <3>2. ServedOrder(d) /\ srv[d].order \in Orders BY <1>1, <3>1 DEF JournalInv
    <3>3. PICK e \in 1..Len(log) : CreatedAt(e, p, d) BY <3>1, <3>2 DEF ServedOrder
    <3>4. e = c BY <2>1, <2>2, <3>3 DEF JournalInv, CreatedOnce, CreatedAt
    <3>5. b = d BY <2>2, <3>3, <3>4 DEF CreatedAt
    <3>6. ASSUME p \notin untimely', NEW i \in 1..Len(log'), c < i, i < a PROVE ~IdleAt(i, b)'
      <4>1. i \in 1..Len(log) BY <1>2, <3>1, <3>6
      <4>2. srv[d].ostatus = "READY" /\ p \notin untimely BY <3>6 DEF Authorizes
      <4>3. ~IdleAt(i, d) BY <2>1, <2>2, <3>1, <3>2, <3>5, <3>6, <4>1, <4>2 DEF ServedOrder
      <4> QED BY <1>1, <3>5, <4>1, <4>3, OldPlaces
    <3> QED BY <1>1, <1>3, <2>1, <3>1, <3>5, <3>6
  <2> QED BY <2>3, <2>4
<1>8. AuthorizedLater' BY <1>7 DEF AuthorizedLater
<1>9. /\ srv'[d].order = srv[d].order /\ srv'[d].ostatus = "AUTHORIZED"
      /\ srv'[d].status = srv[d].status
      /\ \A c \in Dispensers \ {d} : srv'[c] = srv[c]
  BY <1>1 DEF Authorizes, DataOK
<1>10. Fuelled' BY <1>9 DEF JournalInv, Fuelled
<1>11. ServedOrder(d)'
  <2>1. SUFFICES ASSUME NEW o \in Orders, srv[d].order = o PROVE ServedOrder(d)'
    BY <1>9 DEF ServedOrder
  <2>2. AuthorizedAt(n, o)' BY <1>1, <1>2, <2>1 DEF AuthorizedAt
  <2>3. Authorized(o)' BY <1>2, <2>2 DEF Authorized
  <2>4. \E c \in 1..Len(log') : CreatedAt(c, o, d)'
    BY <1>1, <2>1, StillCreated DEF JournalInv, ServedOrder
  <2> QED BY <1>9, <2>1, <2>3, <2>4 DEF ServedOrder
<1>12. ASSUME NEW c \in Dispensers \ {d} PROVE ServedOrder(c)'
  <2>1. ServedOrder(c) /\ srv'[c] = srv[c] BY <1>9, <1>12 DEF JournalInv
  <2>2. \A i \in 1..Len(log') : i \notin 1..Len(log) =>
          ~IdleAt(i, c)' /\ \A p \in Orders : ~CreatedAt(i, p, c)'
    BY <1>1, <1>2 DEF IdleAt, CreatedAt, Created
  <2>3. srv[c].ostatus = "READY" /\ srv[c].order \in Orders /\ srv[c].order \notin untimely'
          => srv[c].status # "IDLE"
    BY <2>1 DEF ServedOrder
  <2> QED BY <1>1, <2>1, <2>2, <2>3, ServedKeeps
<1> QED BY <1>4, <1>6, <1>8, <1>10, <1>11, <1>12 DEF JournalInv

\* The histories only grow.
LEMMA HistoriesGrow ==
  ASSUME [Next]_vars
  PROVE  untimely \subseteq untimely' /\ cancelled \subseteq cancelled' /\ repeated \subseteq repeated'
<1> USE DEF payVars, tellVars
<1>1. ASSUME UNCHANGED <<untimely, cancelled, repeated>>
      PROVE  untimely \subseteq untimely' /\ cancelled \subseteq cancelled' /\ repeated \subseteq repeated'
  BY <1>1
<1>2. CASE Display \/ Poll \/ checkTimers
  <2>1. CASE CancelTransactionButton
    BY <2>1 DEF CancelTransactionButton, ImmediatelyCancelTransaction
  <2>2. CASE ~CancelTransactionButton
    <3>1. UNCHANGED <<untimely, cancelled, repeated>>
      BY <1>2, <2>2 DEF Display, handleChooseTRK, ForgetDispenser, createOrder, handleBasicTouch,
                        CloseOrderButton, BeginFuelling, Poll, checkTimers
    <3> QED BY <1>1, <3>1
  <2> QED BY <2>1, <2>2
<1>3. CASE StatusEvent BY <1>3 DEF StatusEvent
<1>4. CASE OrderCreatedEvent BY <1>4 DEF OrderCreatedEvent
<1>5. CASE LowVolumeAnswer BY <1>5 DEF LowVolumeAnswer, ImmediatelyCancelTransaction
<1>6. CASE \/ EventsAnswer \/ OrderChangedEvent \/ StatusWithoutOrder \/ StatusOfDeadOrder
           \/ StatusOfOrder \/ ParametersWithoutTask \/ ParametersBefore \/ ParametersAfter
  <2>1. UNCHANGED <<untimely, cancelled, repeated>>
    BY <1>6 DEF EventsAnswer, OrderChangedEvent, StatusWithoutOrder, StatusOfDeadOrder,
                StatusOfOrder, ParametersWithoutTask, ParametersBefore, ParametersAfter
  <2> QED BY <1>1, <2>1
<1>7. CASE CardTerminal
  BY <1>1, <1>7 DEF CardTerminal, PaymentSuccess, PaymentFailure, ConfirmAnswer, CancelAnswer
<1>8. CASE Controller
  <2>1. CASE ServeAuthorize BY <2>1 DEF ServeAuthorize, Acknowledge
  <2>2. CASE \/ ServeEvents \/ ServeStatus \/ ServeParameters \/ ServeCreate
             \/ ServeClose \/ RequestFails
    <3>1. UNCHANGED <<untimely, cancelled, repeated>>
      BY <2>2 DEF ServeEvents, ServeStatus, ServeParameters, ServeCreate, ServeClose, RequestFails,
                  Answer, Acknowledge
    <3> QED BY <1>1, <3>1
  <2>3. ASSUME NEW d \in Dispensers, Happens(d)
        PROVE  untimely \subseteq untimely' /\ cancelled \subseteq cancelled'
               /\ repeated \subseteq repeated'
    BY <2>3 DEF Happens, LiftNozzle, HangNozzle, StartFuelling, Deliver, Interrupt, Forecourt
  <2> QED BY <1>8, <2>1, <2>2, <2>3 DEF Controller, Happens
<1>9. CASE UNCHANGED vars BY <1>1, <1>9 DEF vars
<1> QED BY <1>2, <1>3, <1>4, <1>5, <1>6, <1>7, <1>8, <1>9 DEF Next, Core

LEMMA HappensMoves ==
  ASSUME DataOK, Fuelled, NEW d \in Dispensers, Happens(d)
  PROVE  Moves(d)
<1>1. srv \in [Dispensers -> [status : Statuses, order : OrderOrNone, ostatus : OrderStatuses]]
  BY DEF DataOK
<1>2. ASSUME NEW s, srv' = [srv EXCEPT ![d].status = s]
      PROVE  /\ srv'[d].status = s /\ srv'[d].order = srv[d].order
             /\ srv'[d].ostatus = srv[d].ostatus
             /\ \A c \in Dispensers \ {d} : srv'[c] = srv[c]
  BY <1>1, <1>2
<1>3. ASSUME NEW s, NEW t, srv' = [srv EXCEPT ![d].status = s, ![d].ostatus = t]
      PROVE  /\ srv'[d].status = s /\ srv'[d].order = srv[d].order /\ srv'[d].ostatus = t
             /\ \A c \in Dispensers \ {d} : srv'[c] = srv[c]
  BY <1>1, <1>3
\* What is written, whichever news it is.
<1> DEFINE Fine(e) == /\ e.dev = d /\ e.what # "created"
                      /\ e.what = "changed" => e.status # "AUTHORIZED"
                      /\ e.what = "status" /\ e.status = "IDLE" => srv'[d].status = "IDLE"
<1>4. ASSUME NEW es \in Seq(News), Logged(es), \A k \in 1..Len(es) : Fine(es[k])
      PROVE  Grown /\ \A i \in 1..Len(log') : i \notin 1..Len(log) => log'[i].id = i /\ Fine(log'[i])
  <2>1. /\ log' \in Seq(Event) /\ Len(log') = Len(log) + Len(es)
        /\ \A i \in 1..Len(log) : log'[i] = log[i]
        /\ \A i \in 1..Len(es) : /\ log'[Len(log) + i].id = Len(log) + i
                                 /\ log'[Len(log) + i].dev = es[i].dev
                                 /\ log'[Len(log) + i].what = es[i].what
                                 /\ log'[Len(log) + i].status = es[i].status
    BY <1>4, LoggedTypes
  <2>2. Len(log) \in Nat /\ Len(es) \in Nat BY DEF DataOK
  <2>3. Grown BY <2>1, <2>2 DEF Grown
  <2>4. ASSUME NEW i \in 1..Len(log'), i \notin 1..Len(log) PROVE log'[i].id = i /\ Fine(log'[i])
    <3>1. PICK k \in 1..Len(es) : i = Len(log) + k
      <4>1. i - Len(log) \in 1..Len(es) /\ i = Len(log) + (i - Len(log)) BY <2>1, <2>2, <2>4
      <4> QED BY <4>1
    <3>2. Fine(es[k]) BY <1>4
    <3>3. /\ log'[i].id = i /\ log'[i].dev = es[k].dev /\ log'[i].what = es[k].what
          /\ log'[i].status = es[k].status
      BY <2>1, <3>1
    <3> QED BY <3>2, <3>3
  <2> QED BY <2>3, <2>4
<1>5. ASSUME NEW s \in Statuses, Logged(<<StatusChanged(d, s)>>), s = "IDLE" => srv'[d].status = "IDLE"
      PROVE  Grown /\ \A i \in 1..Len(log') : i \notin 1..Len(log) => log'[i].id = i /\ Fine(log'[i])
  <2> DEFINE e == StatusChanged(d, s)
  <2>1. e \in News /\ Fine(e) BY <1>5, NewsTypes DEF StatusChanged
  <2> HIDE DEF e, Fine
  <2>2. <<e>> \in Seq(News) /\ \A k \in 1..Len(<<e>>) : Fine(<<e>>[k]) BY <2>1
  <2> QED BY <1>4, <1>5, <2>2 DEF e
<1>6. ASSUME NEW s \in Statuses, NEW t \in Finished, s = "IDLE" => srv'[d].status = "IDLE",
             \/ Logged(<<OrderChanged(d, t), StatusChanged(d, s)>>)
             \/ Logged(<<StatusChanged(d, s), OrderChanged(d, t)>>)
      PROVE  Grown /\ \A i \in 1..Len(log') : i \notin 1..Len(log) => log'[i].id = i /\ Fine(log'[i])
  <2> DEFINE e == StatusChanged(d, s)
             f == OrderChanged(d, t)
  <2>1. e \in News /\ Fine(e) BY <1>6, NewsTypes DEF StatusChanged
  <2>2. f \in News /\ Fine(f) BY <1>6, NewsTypes DEF OrderChanged, Finished
  <2>3. Logged(<<f, e>>) \/ Logged(<<e, f>>) BY <1>6
  <2> HIDE DEF e, f, Fine
  <2>4. /\ <<e, f>> \in Seq(News) /\ \A k \in 1..Len(<<e, f>>) : Fine(<<e, f>>[k])
        /\ <<f, e>> \in Seq(News) /\ \A k \in 1..Len(<<f, e>>) : Fine(<<f, e>>[k])
    BY <2>1, <2>2
  <2> QED BY <1>4, <2>3, <2>4
<1>7. CASE LiftNozzle(d)
  <2>1. srv' = [srv EXCEPT ![d].status = "NOZZLE_UP"] /\ Logged(<<StatusChanged(d, "NOZZLE_UP")>>)
    BY <1>7 DEF LiftNozzle
  <2> QED BY <1>2, <1>5, <2>1 DEF Moves, Statuses
<1>8. CASE HangNozzle(d)
  <2>1. /\ srv' = [srv EXCEPT ![d].status = "IDLE"] /\ Logged(<<StatusChanged(d, "IDLE")>>)
        /\ srv[d].ostatus = "READY" => srv[d].order \in untimely'
    BY <1>8 DEF HangNozzle
  <2> QED BY <1>2, <1>5, <2>1 DEF Moves, Statuses
<1>9. CASE StartFuelling(d)
  <2>1. /\ srv' = [srv EXCEPT ![d].status = "FUELLING"] /\ Logged(<<StatusChanged(d, "FUELLING")>>)
        /\ srv[d].ostatus = "AUTHORIZED"
    BY <1>9 DEF StartFuelling
  <2> QED BY <1>2, <1>5, <2>1 DEF Moves, Statuses
<1>10. CASE Deliver(d)
  <2>1. /\ srv' = [srv EXCEPT ![d].status = "COMPLETE", ![d].ostatus = "DELIVERED"]
        /\ Logged(<<OrderChanged(d, "DELIVERED"), StatusChanged(d, "COMPLETE")>>)
        /\ srv[d].ostatus = "AUTHORIZED"
    BY <1>10 DEF Deliver, Fuelled
  <2> QED BY <1>3, <1>6, <2>1 DEF Moves, Statuses, Finished
<1>11. CASE Interrupt(d)
  <2>1. /\ srv' = [srv EXCEPT ![d].status = "IDLE", ![d].ostatus = "INTERRUPTED"]
        /\ \/ Logged(<<OrderChanged(d, "INTERRUPTED"), StatusChanged(d, "IDLE")>>)
           \/ Logged(<<StatusChanged(d, "IDLE"), OrderChanged(d, "INTERRUPTED")>>)
        /\ srv[d].ostatus = "AUTHORIZED"
    BY <1>11 DEF Interrupt, Fuelled
  <2>2. /\ srv'[d].status = "IDLE" /\ srv'[d].order = srv[d].order
        /\ srv'[d].ostatus = "INTERRUPTED"
        /\ \A c \in Dispensers \ {d} : srv'[c] = srv[c]
    BY <1>3, <2>1
  <2>3. "IDLE" \in Statuses /\ "INTERRUPTED" \in Finished BY DEF Statuses, Finished
  <2>4. Grown /\ \A i \in 1..Len(log') : i \notin 1..Len(log) => log'[i].id = i /\ Fine(log'[i])
    BY <1>6, <2>1, <2>2, <2>3
  <2> QED BY <2>1, <2>2, <2>3, <2>4 DEF Moves
<1> QED BY <1>7, <1>8, <1>9, <1>10, <1>11 DEF Happens

LEMMA OneWritten ==
  ASSUME DataOK, NEW e \in News, Logged(<<e>>)
  PROVE  Writes(e.dev, e.what, e.status, e.order)
<1>1. <<e>> \in Seq(News) /\ Len(<<e>>) = 1 /\ <<e>>[1] = e OBVIOUS
<1>2. Len(log) \in Nat BY DEF DataOK
<1>3. /\ log' \in Seq(Event) /\ Len(log') = Len(log) + 1
      /\ \A i \in 1..Len(log) : log'[i] = log[i]
  BY <1>1, LoggedTypes
<1>4. /\ log'[Len(log) + 1].id = Len(log) + 1 /\ log'[Len(log) + 1].dev = e.dev
      /\ log'[Len(log) + 1].what = e.what /\ log'[Len(log) + 1].status = e.status
      /\ log'[Len(log) + 1].order = e.order
  <2>1. 1 \in 1..Len(<<e>>) BY <1>1
  <2> QED BY <1>1, <2>1, LoggedTypes
<1> QED BY <1>2, <1>3, <1>4 DEF Writes, Grown

\* A step of one of the other threads leaves the controller alone.
LEMMA OthersRest ==
  ASSUME Display \/ Poll \/ checkTimers \/ Core \/ CardTerminal \/ UNCHANGED vars
  PROVE  Rests
<1> USE DEF srvVars, Rests
<1>1. CASE Display \/ Poll \/ checkTimers
  BY <1>1 DEF Display, handleChooseTRK, ForgetDispenser, createOrder, handleBasicTouch,
              CloseOrderButton, BeginFuelling, CancelTransactionButton, Poll, checkTimers
<1>2. CASE Core
  BY <1>2 DEF Core, EventsAnswer, StatusEvent, OrderChangedEvent, OrderCreatedEvent,
              StatusWithoutOrder, StatusOfDeadOrder, StatusOfOrder, ParametersWithoutTask,
              ParametersBefore, ParametersAfter, LowVolumeAnswer
<1>3. CASE CardTerminal
  BY <1>3 DEF CardTerminal, PaymentSuccess, PaymentFailure, ConfirmAnswer, CancelAnswer
<1>4. CASE UNCHANGED vars BY <1>4 DEF vars
<1> QED BY <1>1, <1>2, <1>3, <1>4

\* Every step is of one of these kinds.
LEMMA JournalShapes ==
  ASSUME DataOK, JournalInv, [Next]_vars
  PROVE  \/ Rests \/ (\E d : Closes(d)) \/ (\E d, o : Creates(d, o))
         \/ (\E d : Authorizes(d)) \/ (\E d : Moves(d))
<1>1. CASE Display \/ Poll \/ checkTimers \/ Core \/ CardTerminal \/ UNCHANGED vars
  BY <1>1, OthersRest
<1>2. CASE ServeEvents \/ ServeStatus \/ ServeParameters \/ RequestFails
  BY <1>2 DEF ServeEvents, ServeStatus, ServeParameters, RequestFails, Rests
<1>3. ASSUME requests # <<>>, Head(requests).cmd \in {"CREATE", "authorize", "close"}
      PROVE  Head(requests).dev \in Dispensers
  BY <1>3, FrontTypes, RequestFields
<1>4. CASE ServeCreate
  <2>1. PICK d \in Dispensers : d = Head(requests).dev BY <1>3, <1>4 DEF ServeCreate, Served
  <2>2. CASE UNCHANGED <<srv, log>> BY <2>2 DEF Rests
  <2>3. CASE ~UNCHANGED <<srv, log>>
    <3>1. PICK o \in Orders \ Used :
            /\ CanCreate(d)
            /\ srv' = [srv EXCEPT ![d].order = o, ![d].ostatus = "READY"]
            /\ Logged(<<[dev |-> d, what |-> "created", status |-> "READY", order |-> o]>>)
      BY <1>4, <2>1, <2>3 DEF ServeCreate
    <3>2. [dev |-> d, what |-> "created", status |-> "READY", order |-> o] \in News BY NewsTypes
    <3>3. Writes(d, "created", "READY", o) BY <3>1, <3>2, OneWritten
    <3> QED BY <3>1, <3>3 DEF Creates, CanCreate
  <2> QED BY <2>2, <2>3
<1>5. CASE ServeAuthorize
  <2>1. PICK d \in Dispensers : d = Head(requests).dev BY <1>3, <1>5 DEF ServeAuthorize, Served
  <2>2. CASE UNCHANGED <<srv, log>> BY <2>2 DEF Rests
  <2>3. CASE ~UNCHANGED <<srv, log>>
    <3>1. /\ srv[d].ostatus = "READY"
          /\ srv' = [srv EXCEPT ![d].ostatus = "AUTHORIZED"]
          /\ Logged(<<OrderChanged(d, "AUTHORIZED")>>)
          /\ untimely' = untimely \cup {o \in {srv[d].order} : pay[o] # "paid"}
          /\ pay' = pay
      BY <1>5, <2>1, <2>3 DEF ServeAuthorize, Acknowledge, payVars
    <3>2. OrderChanged(d, "AUTHORIZED") \in News BY NewsTypes
    <3>3. Writes(d, "changed", "AUTHORIZED", srv[d].order)
      BY <3>1, <3>2, OneWritten DEF OrderChanged
    <3> QED BY <3>1, <3>3 DEF Authorizes
  <2> QED BY <2>2, <2>3
<1>6. CASE ServeClose
  <2>1. PICK d \in Dispensers : d = Head(requests).dev BY <1>3, <1>6 DEF ServeClose, Served
  <2> QED BY <1>6, <2>1 DEF ServeClose, Rests, Closes
<1>7. ASSUME NEW d \in Dispensers, Happens(d) PROVE Moves(d)
  BY <1>7, HappensMoves DEF JournalInv
<1> QED BY <1>1, <1>2, <1>4, <1>5, <1>6, <1>7 DEF Next, Controller, Happens

LEMMA JournalStep ==
  ASSUME DataOK, JournalInv, [Next]_vars
  PROVE  JournalInv'
BY HistoriesGrow, JournalShapes, RestsKeeps, MovesKeeps, CreatesKeeps, AuthorizesKeeps

LEMMA InitJournal == Init => JournalInv
<1> SUFFICES ASSUME Init PROVE JournalInv OBVIOUS
<1>0. log = <<>> BY DEF Init
<1>1. Len(log) = 0 /\ ~\E i : i \in 1..Len(log) BY <1>0
<1>2. \A d \in Dispensers : srv[d].order = NoOrder /\ srv[d].status = "IDLE" BY DEF Init
<1> QED BY <1>1, <1>2, PrimeNames DEF JournalInv, Numbered, CreatedOnce, Fuelled, AuthorizedLater,
                                       ServedOrder

\* Only the command of PrimeLogic authorizes an order.
LEMMA NewlyAuthorized ==
  ASSUME DataOK, JournalInv, [Next]_vars, NEW o \in Orders, Authorized(o)', ~Authorized(o)
  PROVE  \E d \in Dispensers : Authorizes(d) /\ srv[d].order = o
<1>1. PICK a \in 1..Len(log') : AuthorizedAt(a, o)' BY DEF Authorized
<1>2. ASSUME log' = log PROVE FALSE BY <1>1, <1>2 DEF Authorized, AuthorizedAt
<1>3. ASSUME Grown, a \in 1..Len(log) PROVE FALSE BY <1>1, <1>3, OldPlaces DEF Authorized
<1>4. ASSUME NEW d, Moves(d) PROVE FALSE BY <1>1, <1>3, <1>4 DEF Moves, AuthorizedAt
<1>5. Len(log) \in Nat BY DEF DataOK
<1>6. ASSUME NEW d, NEW w, NEW s, NEW p, Writes(d, w, s, p)
      PROVE  w = "changed" /\ p = o
  <2>1. Grown /\ Len(log') = Len(log) + 1 BY <1>6 DEF Writes
  <2>2. a = Len(log) + 1 BY <1>3, <1>5, <2>1
  <2> QED BY <1>1, <1>6, <2>2 DEF AuthorizedAt, Writes
<1>7. ASSUME NEW d, NEW p, Creates(d, p) PROVE FALSE BY <1>6, <1>7 DEF Creates
<1>8. ASSUME NEW d, Authorizes(d) PROVE d \in Dispensers /\ srv[d].order = o
  BY <1>6, <1>8 DEF Authorizes
<1> QED BY <1>2, <1>4, <1>7, <1>8, JournalShapes DEF Rests, Closes

-----------------------------------------------------------------------------
(* The charges of the orders.                                              *)

\* The terminal was asked about an order exactly when createPayment() says so.
PayInv ==
  /\ pay \in [Orders -> {"none", "asked", "paid", "failed"}]
  /\ asked \subseteq Orders
  /\ \A o \in Orders : pay[o] # "none" <=> o \in asked

\* An order is paid when it is authorized, unless it is untimely.
PaidInv == \A o \in Orders \ untimely : Authorized(o) => pay[o] = "paid"

\* The terminal's answer to a charge is final.
PayStays(o) == pay[o] \in {"paid", "failed"} => pay'[o] = pay[o]

\* A charge that succeeded or failed stays so, and an order is asked for once.
LEMMA PayStep ==
  ASSUME DataOK, PayInv, [Next]_vars
  PROVE  /\ PayInv' /\ asked \subseteq asked' /\ \A o \in Orders : PayStays(o)
         /\ \A o \in Orders : pay'[o] # pay[o] /\ pay'[o] = "failed" => PaymentFailure(o)
         /\ \A o \in Orders : o \in asked' \ asked => StatusOfOrder /\ Head(responses).order = o
<1> USE DEF payVars, logicVars, PayStays
<1>1. ASSUME pay' = pay, asked' = asked
      PROVE  /\ PayInv' /\ asked \subseteq asked' /\ \A o \in Orders : PayStays(o)
             /\ \A o \in Orders : pay'[o] # pay[o] /\ pay'[o] = "failed" => PaymentFailure(o)
             /\ \A o \in Orders : o \in asked' \ asked => StatusOfOrder /\ Head(responses).order = o
  BY <1>1 DEF PayInv
<1>2. CASE Display \/ Poll \/ checkTimers
  <2>1. pay' = pay /\ asked' = asked
    BY <1>2 DEF Display, handleChooseTRK, ForgetDispenser, createOrder, handleBasicTouch,
                CloseOrderButton, BeginFuelling, CancelTransactionButton, Poll, checkTimers
  <2> QED BY <1>1, <2>1
<1>3. CASE Core /\ ~StatusOfOrder
  <2>1. pay' = pay /\ asked' = asked
    BY <1>3 DEF Core, EventsAnswer, StatusEvent, OrderChangedEvent, OrderCreatedEvent,
                StatusWithoutOrder, StatusOfDeadOrder, ParametersWithoutTask,
                ParametersBefore, ParametersAfter, LowVolumeAnswer
  <2> QED BY <1>1, <2>1
<1>4. CASE StatusOfOrder
  <2>1. PICK o \in Orders : o = Head(responses).order /\ createPayment(o)
    <3>1. Head(responses).order \in OrderOrNone /\ Head(responses).order # NoOrder
      BY <1>4, FrontTypes, Responses DEF StatusOfOrder, Handling
    <3> QED BY <1>4, <3>1 DEF StatusOfOrder, OrderOrNone
  <2> QED BY <1>4, <2>1 DEF PayInv, createPayment
<1>5. ASSUME NEW o \in Orders, PaymentSuccess(o) \/ PaymentFailure(o)
      PROVE  /\ PayInv' /\ asked \subseteq asked' /\ \A p \in Orders : PayStays(p)
             /\ \A p \in Orders : pay'[p] # pay[p] /\ pay'[p] = "failed" => PaymentFailure(p)
             /\ asked' = asked
  <2>1. /\ asked' = asked /\ pay[o] = "asked"
        /\ \/ pay' = [pay EXCEPT ![o] = "paid"]
           \/ pay' = [pay EXCEPT ![o] = "failed"] /\ PaymentFailure(o)
    BY <1>5 DEF PaymentSuccess, PaymentFailure
  <2> QED BY <2>1 DEF PayInv
<1>6. CASE ConfirmAnswer \/ CancelAnswer BY <1>1, <1>6 DEF ConfirmAnswer, CancelAnswer
<1>7. CASE Controller
  <2>1. pay' = pay /\ asked' = asked
    BY <1>7 DEF Controller, ServeEvents, ServeStatus, ServeParameters, ServeCreate, ServeAuthorize,
                ServeClose, RequestFails, Answer, Acknowledge, LiftNozzle, HangNozzle,
                StartFuelling, Deliver, Interrupt, Forecourt
  <2> QED BY <1>1, <2>1
<1>8. CASE UNCHANGED vars BY <1>1, <1>8 DEF vars
<1> QED BY <1>2, <1>3, <1>4, <1>5, <1>6, <1>7, <1>8 DEF Next, Core, CardTerminal

\* ServeAuthorize counts an order that is not paid for as untimely.
LEMMA PaidStep ==
  ASSUME DataOK, JournalInv, PayInv, PaidInv, [Next]_vars
  PROVE  PaidInv'
<1>1. SUFFICES ASSUME NEW o \in Orders, o \notin untimely', Authorized(o)' PROVE pay'[o] = "paid"
  BY DEF PaidInv
<1>2. o \notin untimely BY <1>1, HistoriesGrow
<1>3. CASE Authorized(o) BY <1>2, <1>3, PayStep DEF PaidInv, PayStays
<1>4. CASE ~Authorized(o)
  <2>1. PICK d \in Dispensers : Authorizes(d) /\ srv[d].order = o
    BY <1>1, <1>4, NewlyAuthorized
  <2> QED BY <1>1, <2>1 DEF Authorizes
<1> QED BY <1>3, <1>4

\* The charge of an order that was authorized in time was asked for, and did not fail.
LEMMA AuthorizedAsked ==
  ASSUME PayInv, PaidInv, NEW o \in Orders, o \notin untimely, Authorized(o)
  PROVE  o \in asked /\ pay[o] = "paid"
BY DEF PayInv, PaidInv

-----------------------------------------------------------------------------
(* The answers of STATUS, and what they leave in the records.              *)

\* What an answer tells of an order: it was authorized if it was begun; if the
\* nozzle was hung up, its charge had been asked for.
Tells(r) ==
  r.kind = "status" /\ r.order \in Orders =>
    /\ r.ostatus \in Begun => Authorized(r.order)
    /\ r.status = "IDLE" /\ r.order \notin untimely => r.order \in asked

AnswerInv == \A r \in Response : Told(responses, r) => Tells(r)

\* What an answer of STATUS tells stays true while it waits.
LEMMA TellsStay ==
  ASSUME DataOK, Grown, PayInv, [Next]_vars, NEW r, Tells(r)
  PROVE  Tells(r)'
<1>1. untimely \subseteq untimely' /\ asked \subseteq asked' BY HistoriesGrow, PayStep
<1>2. ASSUME NEW o, Authorized(o) PROVE Authorized(o)' BY <1>2, StillAuthorized
<1>3. CASE r.kind = "status" /\ r.order \in Orders
  <2>1. PICK o \in Orders : o = r.order BY <1>3
  <2>2. r.ostatus \in Begun => Authorized(o)' BY <1>2, <1>3, <2>1 DEF Tells
  <2>3. r.status = "IDLE" /\ o \notin untimely' => o \in asked' BY <1>1, <1>3, <2>1 DEF Tells
  <2> QED BY <2>1, <2>2, <2>3 DEF Tells, Authorized, AuthorizedAt
<1>4. CASE ~(r.kind = "status" /\ r.order \in Orders) BY <1>4 DEF Tells
<1> QED BY <1>3, <1>4

\* What the controller answers to STATUS and EVENTS.
NewAnswer(r) ==
  /\ r \in Response
  /\ r.kind = "status" => /\ r.dev \in Dispensers /\ r.status = srv[r.dev].status
                          /\ r.order = srv[r.dev].order /\ r.ostatus = srv[r.dev].ostatus
  /\ r.kind = "events" => /\ requests # <<>> /\ Head(requests).cmd = "EVENTS"
                          /\ r.events = SubSeq(log, Head(requests).from + 1, Len(log))

\* An answer is taken, or given, or the answers wait.
LEMMA ResponseShapes ==
  ASSUME DataOK, [Next]_vars
  PROVE  \/ responses' = responses
         \/ /\ responses # <<>> /\ batch = <<>> /\ responses' = Tail(responses)
            /\ UNCHANGED <<log, last_event>>
            /\ batch' = IF Head(responses).kind = "events" THEN Head(responses).events ELSE <<>>
         \/ \E r : /\ NewAnswer(r) /\ responses' = Append(responses, r)
                   /\ UNCHANGED <<batch, last_event, log>>
<1> USE DEF pollVars, srvVars
<1>1. CASE Display \/ Poll \/ checkTimers
  BY <1>1 DEF Display, handleChooseTRK, ForgetDispenser, createOrder, handleBasicTouch,
              CloseOrderButton, BeginFuelling, CancelTransactionButton, Poll, checkTimers,
              Touch, Called
<1>2. CASE StatusEvent \/ OrderChangedEvent \/ OrderCreatedEvent
  BY <1>2 DEF StatusEvent, OrderChangedEvent, OrderCreatedEvent
<1>3. CASE EventsAnswer BY <1>3 DEF EventsAnswer, Handling, CoreIdle, Taken
<1>4. CASE \/ StatusWithoutOrder \/ StatusOfDeadOrder \/ StatusOfOrder
           \/ ParametersWithoutTask \/ ParametersBefore \/ ParametersAfter \/ LowVolumeAnswer
  <2>1. /\ responses # <<>> /\ batch = <<>> /\ responses' = Tail(responses) /\ batch' = batch
        /\ UNCHANGED <<log, last_event>> /\ Head(responses).kind # "events"
    BY <1>4 DEF StatusWithoutOrder, StatusOfDeadOrder, StatusOfOrder, ParametersWithoutTask,
                ParametersBefore, ParametersAfter, LowVolumeAnswer, Handling, CoreIdle, Taken
  <2> QED BY <2>1
<1>5. CASE CardTerminal
  BY <1>5 DEF CardTerminal, PaymentSuccess, PaymentFailure, ConfirmAnswer, CancelAnswer, Called
<1>6. ASSUME NEW r, NewAnswer(r), Answer(r), UNCHANGED log
      PROVE  /\ NewAnswer(r) /\ responses' = Append(responses, r)
             /\ UNCHANGED <<batch, last_event, log>>
  BY <1>6 DEF Answer
<1>7. CASE ServeEvents
  <2>1. [kind |-> "events", events |-> SubSeq(log, Head(requests).from + 1, Len(log))] \in Response
    <3>1. Head(requests).from \in Nat BY <1>7, FrontTypes, RequestFields DEF ServeEvents, Served
    <3>2. SubSeq(log, Head(requests).from + 1, Len(log)) \in Seq(Event) BY <3>1 DEF DataOK
    <3> QED BY <3>2, Responses
  <2>2. NewAnswer([kind |-> "events", events |-> SubSeq(log, Head(requests).from + 1, Len(log))])
    BY <1>7, <2>1 DEF NewAnswer, ServeEvents, Served
  <2> QED BY <1>6, <1>7, <2>2 DEF ServeEvents
<1>8. CASE ServeStatus
  <2>1. PICK d \in Dispensers : d = Head(requests).dev
    BY <1>8, FrontTypes, RequestFields DEF ServeStatus, Served
  <2>2. srv[d] \in [status : Statuses, order : OrderOrNone, ostatus : OrderStatuses]
    BY DEF DataOK
  <2>3. NewAnswer([kind |-> "status", dev |-> d, status |-> srv[d].status,
                   order |-> srv[d].order, ostatus |-> srv[d].ostatus])
    BY <2>2, Responses DEF NewAnswer
  <2> QED BY <1>6, <1>8, <2>1, <2>3 DEF ServeStatus
<1>9. CASE ServeParameters
  <2>1. PICK g : g = Head(requests).gauge OBVIOUS
  <2>2. CASE g = NoGauge BY <1>9, <2>1, <2>2 DEF ServeParameters, Acknowledge
  <2>3. CASE g # NoGauge
    <3>1. g \in Gauges BY <1>9, <2>1, <2>3, FrontTypes, RequestFields DEF ServeParameters, Served
    <3>2. NewAnswer([kind |-> "parameters", gauge |-> g]) BY <3>1, Responses DEF NewAnswer
    <3> QED BY <1>6, <1>9, <2>1, <2>3, <3>2 DEF ServeParameters
  <2> QED BY <2>2, <2>3
<1>10. CASE ServeCreate
  <2>1. NewAnswer([kind |-> "low_volume"]) BY Responses DEF NewAnswer
  <2> QED BY <1>6, <1>10, <2>1 DEF ServeCreate, Acknowledge
<1>11. CASE ServeAuthorize \/ ServeClose \/ RequestFails
  BY <1>11 DEF ServeAuthorize, ServeClose, RequestFails, Acknowledge
<1>12. ASSUME NEW d \in Dispensers, Happens(d) PROVE responses' = responses
  BY <1>12, ForecourtNews DEF Forecourt
<1>13. CASE UNCHANGED vars BY <1>13 DEF vars
<1> QED BY <1>1, <1>2, <1>3, <1>4, <1>5, <1>7, <1>8, <1>9, <1>10, <1>11, <1>12, <1>13
        DEF Next, Core, Controller, Happens

\* The controller answers from what its journal tells.
LEMMA AnswerStep ==
  ASSUME DataOK, JournalInv, Grown, PayInv, PaidInv, AnswerInv, [Next]_vars
  PROVE  AnswerInv'
<1>0. responses \in Seq(Response) BY DEF DataOK
<1>1. \A k \in 1..Len(responses) : Tells(responses[k]) BY <1>0 DEF AnswerInv, Told
<1>2. ASSUME NEW r, Tells(r) PROVE Tells(r)' BY <1>2, TellsStay
<1>3. ASSUME NEW k \in 1..Len(responses')
      PROVE  \/ \E j \in 1..Len(responses) : responses'[k] = responses[j]
             \/ NewAnswer(responses'[k])
  BY <1>0, ResponseShapes
<1>4. ASSUME NEW r, NewAnswer(r) PROVE Tells(r)
  <2>1. SUFFICES ASSUME r.kind = "status", r.order \in Orders PROVE Tells(r) BY DEF Tells
  <2>2. PICK d \in Dispensers : d = r.dev BY <1>4, <2>1 DEF NewAnswer
  <2>3. r.order = srv[d].order /\ r.status = srv[d].status /\ r.ostatus = srv[d].ostatus
    BY <1>4, <2>1, <2>2 DEF NewAnswer
  <2>4. ServedOrder(d) BY DEF JournalInv
  <2>5. srv[d].ostatus \in OrderStatuses BY DEF DataOK
  <2>6. r.ostatus \in Begun => Authorized(r.order) BY <2>1, <2>3, <2>4 DEF ServedOrder
  <2>7. ASSUME r.status = "IDLE", r.order \notin untimely PROVE r.order \in asked
    <3>1. srv[d].ostatus # "READY" /\ srv[d].ostatus # "" BY <2>1, <2>3, <2>4, <2>7 DEF ServedOrder
    <3>2. r.ostatus \in Begun BY <2>3, <2>5, <3>1 DEF Begun, OrderStatuses
    <3> QED BY <2>1, <2>6, <2>7, <3>2, AuthorizedAsked
  <2> QED BY <2>1, <2>6, <2>7 DEF Tells
<1>5. ASSUME NEW r \in Response, Told(responses', r) PROVE Tells(r)'
  <2>1. PICK k \in 1..Len(responses') : responses'[k] = r BY <1>5 DEF Told
  <2>2. Tells(r) BY <1>1, <1>3, <1>4, <2>1
  <2> QED BY <1>2, <2>2
<1> QED BY <1>5 DEF AnswerInv, Told

-----------------------------------------------------------------------------
(* The record of an order and its pending sale.                            *)

\* Which step changes what of the records.
LEMMA OrderMoves ==
  ASSUME DataOK, [Next]_vars, ~OrderCreatedEvent, NEW d \in Dispensers
  PROVE  /\ orders'[d].id = orders[d].id
         /\ orders[d].product => orders'[d].product
         /\ orders'[d].closed => \/ orders[d].closed
                                 \/ /\ StatusEvent /\ Head(batch).dev = d
                                    /\ Head(batch).status = "IDLE"
<1> USE DEF logicVars
<1>0. orders \in [Dispensers -> DatabaseOrder] BY DEF DataOK
<1>1. ASSUME orders' = orders
      PROVE  orders'[d] = orders[d]
  BY <1>1
<1>2. CASE Display \/ Poll \/ checkTimers
  <2>1. orders' = orders
    BY <1>2 DEF Display, handleChooseTRK, ForgetDispenser, createOrder, handleBasicTouch,
                CloseOrderButton, BeginFuelling, CancelTransactionButton, Poll, checkTimers
  <2> QED BY <1>1, <2>1
<1>3. CASE StatusEvent
  <2>1. PICK e \in Dispensers : e = Head(batch).dev
    BY <1>3, FrontTypes DEF StatusEvent, Visit
  <2>2. \/ orders' = orders
        \/ orders' = [orders EXCEPT ![e].closed = TRUE] /\ Head(batch).status = "IDLE"
    BY <1>3, <2>1 DEF StatusEvent
  <2> QED BY <1>0, <1>3, <2>1, <2>2 DEF DatabaseOrder
<1>4. CASE OrderChangedEvent
  <2>1. PICK e \in Dispensers : e = Head(batch).dev
    BY <1>4, FrontTypes DEF OrderChangedEvent, Visit
  <2>2. orders' = [orders EXCEPT ![e].status = Head(batch).status]
    BY <1>4, <2>1 DEF OrderChangedEvent
  <2> QED BY <1>0, <2>1, <2>2 DEF DatabaseOrder
<1>5. CASE StatusWithoutOrder \/ StatusOfDeadOrder \/ StatusOfOrder
  <2>0. responses # <<>> /\ Head(responses).kind = "status"
    BY <1>5 DEF StatusWithoutOrder, StatusOfDeadOrder, StatusOfOrder, Handling
  <2>1. PICK r \in Response : r = Head(responses) /\ r.dev \in Dispensers
    BY <2>0, FrontTypes, Responses
  <2>2. orders[r.dev] \in DatabaseOrder BY <1>0, <2>1
  <2> DEFINE o == Observed(r)
  <2>3. /\ o.id = orders[r.dev].id /\ o.product = (orders[r.dev].product \/ r.status # "IDLE")
        /\ o.closed = orders[r.dev].closed
        /\ \A s : /\ [o EXCEPT !.status = s].id = o.id /\ [o EXCEPT !.status = s].closed = o.closed
                  /\ [o EXCEPT !.status = s].product = o.product
                  /\ [[o EXCEPT !.status = s] EXCEPT !.finalized = TRUE].id = o.id
                  /\ [[o EXCEPT !.status = s] EXCEPT !.finalized = TRUE].closed = o.closed
                  /\ [[o EXCEPT !.status = s] EXCEPT !.finalized = TRUE].product = o.product
    BY <2>2 DEF Observed, DatabaseOrder
  <2> HIDE DEF o
  <2>4. \/ orders' = [orders EXCEPT ![r.dev] = o]
        \/ orders' = [orders EXCEPT ![r.dev] = [o EXCEPT !.status = r.ostatus]]
        \/ orders' = [orders EXCEPT ![r.dev] = [[o EXCEPT !.status = r.ostatus] EXCEPT !.finalized = TRUE]]
    BY <1>5, <2>1 DEF StatusWithoutOrder, StatusOfDeadOrder, StatusOfOrder,
                      processOrderFinalization, o
  <2>5. PICK v : /\ orders' = [orders EXCEPT ![r.dev] = v]
                 /\ v.id = o.id /\ v.product = o.product /\ v.closed = o.closed
    <3>1. CASE orders' = [orders EXCEPT ![r.dev] = o] BY <3>1
    <3>2. CASE orders' = [orders EXCEPT ![r.dev] = [o EXCEPT !.status = r.ostatus]]
      <4> DEFINE v == [o EXCEPT !.status = r.ostatus]
      <4>1. v.id = o.id /\ v.product = o.product /\ v.closed = o.closed BY <2>3
      <4>2. orders' = [orders EXCEPT ![r.dev] = v] BY <3>2
      <4> HIDE DEF v
      <4> QED BY <4>1, <4>2
    <3>3. CASE orders' = [orders EXCEPT ![r.dev] = [[o EXCEPT !.status = r.ostatus] EXCEPT !.finalized = TRUE]]
      <4> DEFINE v == [[o EXCEPT !.status = r.ostatus] EXCEPT !.finalized = TRUE]
      <4>1. v.id = o.id /\ v.product = o.product /\ v.closed = o.closed BY <2>3
      <4>2. orders' = [orders EXCEPT ![r.dev] = v] BY <3>3
      <4> HIDE DEF v
      <4> QED BY <4>1, <4>2
    <3> QED BY <2>4, <3>1, <3>2, <3>3
  <2>6. CASE d = r.dev
    <3>1. orders'[d] = v BY <1>0, <2>5, <2>6
    <3> QED BY <2>3, <2>5, <2>6, <3>1
  <2>7. CASE d # r.dev
    <3>1. orders'[d] = orders[d] BY <1>0, <2>5, <2>7
    <3> QED BY <3>1
  <2> QED BY <2>6, <2>7
<1>6. CASE EventsAnswer \/ ParametersWithoutTask \/ ParametersBefore \/ ParametersAfter \/ LowVolumeAnswer
  <2>1. orders' = orders
    BY <1>6 DEF EventsAnswer, ParametersWithoutTask, ParametersBefore, ParametersAfter, LowVolumeAnswer
  <2> QED BY <1>1, <2>1
<1>7. CASE CardTerminal \/ Controller
  <2>1. orders' = orders
    BY <1>7 DEF CardTerminal, PaymentSuccess, PaymentFailure, ConfirmAnswer, CancelAnswer,
                Controller, ServeEvents, ServeStatus, ServeParameters, ServeCreate, ServeAuthorize,
                ServeClose, RequestFails, Answer, Acknowledge, LiftNozzle, HangNozzle,
                StartFuelling, Deliver, Interrupt, Forecourt
  <2> QED BY <1>1, <2>1
<1>8. CASE UNCHANGED vars BY <1>1, <1>8 DEF vars
<1> QED BY <1>2, <1>3, <1>4, <1>5, <1>6, <1>7, <1>8 DEF Next, Core

\* An order that is not untimely has one record at most; without one it is not
\* known to createPayment().
RecordOnce ==
  \A o \in Orders :
    /\ o \notin untimely => records[o] <= 1
    /\ records[o] = 0 => o \notin asked /\ \A d \in Dispensers : orders[d].id # o

\* With a record, a visit of order_created makes an order untimely; so does one
\* that is not heeded.
LEMMA CreatedVisit ==
  ASSUME DataOK, OrderCreatedEvent, NEW d, NEW o, d = Head(batch).dev, o = Head(batch).order
  PROVE  /\ d \in Dispensers /\ o \in Orders /\ Visit("created")
         /\ UNCHANGED <<asked, pay, confirms, reports, sales, gauge_queue, responses, log, srv,
                        cancelled, repeated>>
         /\ o \notin untimely' =>
              /\ o \notin untimely /\ records[o] = 0 /\ untimely' = untimely
              /\ records' = [records EXCEPT ![o] = @ + 1]
              /\ orders' = [orders EXCEPT ![d] = [DefaultOrder EXCEPT !.id = o]]
         /\ \A c \in Dispensers : c # d => orders'[c] = orders[c]
         /\ orders'[d] = orders[d] \/ orders'[d] = [DefaultOrder EXCEPT !.id = o]
         /\ \A p \in Orders : p # o => records'[p] = records[p]
         /\ records'[o] >= records[o]
         /\ orders'[d] = orders[d] \/ records'[o] > records[o]
         /\ \A p \in Orders : p # o => (p \in untimely' <=> p \in untimely)
<1> USE DEF payVars, srvVars
<1>1. /\ batch # <<>> /\ Visit("created") /\ Head(batch).what = "created"
  BY DEF OrderCreatedEvent, Visit
<1>2. d \in Dispensers /\ o \in Orders /\ d = Head(batch).dev /\ o = Head(batch).order
  BY <1>1, FrontTypes
<1>3. UNCHANGED <<asked, pay, confirms, reports, sales, gauge_queue, responses, log, srv,
                  cancelled, repeated>>
  BY DEF OrderCreatedEvent
<1>4. untimely' = untimely \cup {p \in {o} : d # current \/ records[p] > 0}
  BY <1>2 DEF OrderCreatedEvent
<1>5. records \in [Orders -> Nat] /\ orders \in [Dispensers -> DatabaseOrder] BY DEF DataOK
<1>6. \/ /\ d = current
         /\ orders' = [orders EXCEPT ![d] = [DefaultOrder EXCEPT !.id = o]]
         /\ records' = [records EXCEPT ![o] = @ + 1]
      \/ d # current /\ orders' = orders /\ records' = records
  BY <1>2 DEF OrderCreatedEvent
<1>7. o \notin untimely' =>
        /\ o \notin untimely /\ records[o] = 0 /\ untimely' = untimely
        /\ records' = [records EXCEPT ![o] = @ + 1]
        /\ orders' = [orders EXCEPT ![d] = [DefaultOrder EXCEPT !.id = o]]
  BY <1>2, <1>4, <1>5, <1>6
<1>8. /\ \A c \in Dispensers : c # d => orders'[c] = orders[c]
      /\ orders'[d] = orders[d] \/ orders'[d] = [DefaultOrder EXCEPT !.id = o]
      /\ \A p \in Orders : p # o => records'[p] = records[p]
      /\ records'[o] >= records[o]
      /\ orders'[d] = orders[d] \/ records'[o] > records[o]
  BY <1>2, <1>5, <1>6
<1>9. \A p \in Orders : p # o => (p \in untimely' <=> p \in untimely) BY <1>4
<1> QED BY <1>1, <1>2, <1>3, <1>7, <1>8, <1>9

\* Only handleDispenserOrderCreated() writes a record.
LEMMA RecordsRest ==
  ASSUME ~OrderCreatedEvent, [Next]_vars
  PROVE  records' = records
<1> USE DEF tellVars
<1>1. CASE Display \/ Poll \/ checkTimers
  BY <1>1 DEF Display, handleChooseTRK, ForgetDispenser, createOrder, handleBasicTouch,
              CloseOrderButton, BeginFuelling, CancelTransactionButton, Poll, checkTimers
<1>2. CASE Core
  BY <1>2 DEF Core, EventsAnswer, StatusEvent, OrderChangedEvent,
              StatusWithoutOrder, StatusOfDeadOrder, StatusOfOrder, ParametersWithoutTask,
              ParametersBefore, ParametersAfter, LowVolumeAnswer
<1>3. CASE CardTerminal
  BY <1>3 DEF CardTerminal, PaymentSuccess, PaymentFailure, ConfirmAnswer, CancelAnswer
<1>4. CASE Controller
  BY <1>4 DEF Controller, ServeEvents, ServeStatus, ServeParameters, ServeCreate,
              ServeAuthorize, ServeClose, RequestFails, Answer, Acknowledge, LiftNozzle, HangNozzle,
              StartFuelling, Deliver, Interrupt, Forecourt
<1>5. CASE UNCHANGED vars BY <1>5 DEF vars
<1> QED BY <1>1, <1>2, <1>3, <1>4, <1>5 DEF Next

\* A second visit of order_created makes the order untimely.
LEMMA RecordOnceStep ==
  ASSUME DataOK, PayInv, RecordOnce, [Next]_vars
  PROVE  RecordOnce'
<1>0. untimely \subseteq untimely' BY HistoriesGrow
<1>r. records \in [Orders -> Nat] BY DEF DataOK
<1>1. CASE OrderCreatedEvent
  <2>0. PICK d, o : d = Head(batch).dev /\ o = Head(batch).order OBVIOUS
  <2>1. /\ d \in Dispensers /\ o \in Orders /\ asked' = asked
        /\ o \notin untimely' => /\ o \notin untimely /\ records[o] = 0
                                 /\ records' = [records EXCEPT ![o] = @ + 1]
        /\ \A c \in Dispensers : c # d => orders'[c] = orders[c]
        /\ orders'[d] = orders[d] \/ orders'[d] = [DefaultOrder EXCEPT !.id = o]
        /\ \A p \in Orders : p # o => records'[p] = records[p]
        /\ records'[o] >= records[o]
        /\ orders'[d] = orders[d] \/ records'[o] > records[o]
    BY <1>1, <2>0, CreatedVisit
  <2>2. records' \in [Orders -> Nat] BY Types DEF DataOK
  <2>3. [DefaultOrder EXCEPT !.id = o].id = o BY DEF DefaultOrder
  <2>4. ASSUME NEW p \in Orders, p # o
        PROVE  /\ p \notin untimely' => records'[p] <= 1
               /\ records'[p] = 0 => p \notin asked' /\ \A c \in Dispensers : orders'[c].id # p
    BY <1>0, <2>1, <2>3, <2>4 DEF RecordOnce
  <2>5. o \notin untimely' => records'[o] <= 1 BY <1>r, <2>1
  <2>6. ASSUME records'[o] = 0
        PROVE  o \notin asked' /\ \A c \in Dispensers : orders'[c].id # o
    <3>1. records[o] = 0 /\ ~(records'[o] > records[o]) BY <1>r, <2>1, <2>2, <2>6
    <3> QED BY <2>1, <3>1 DEF RecordOnce
  <2> QED BY <2>4, <2>5, <2>6 DEF RecordOnce
<1>2. CASE ~OrderCreatedEvent
  <2>1. \A d \in Dispensers : orders'[d].id = orders[d].id BY <1>2, OrderMoves
  <2>2. records' = records BY <1>2, RecordsRest
  <2>3. ASSUME NEW o \in Orders, o \in asked', records[o] = 0 PROVE FALSE
    <3>1. CASE o \in asked BY <2>3, <3>1 DEF RecordOnce
    <3>2. CASE o \notin asked
      <4>1. StatusOfOrder /\ Head(responses).order = o BY <2>3, <3>2, PayStep
      <4>2. Head(responses).dev \in Dispensers /\ orders[Head(responses).dev].id = o
        BY <4>1, FrontTypes, Responses DEF StatusOfOrder, Handling
      <4> QED BY <2>3, <4>2 DEF RecordOnce
    <3> QED BY <3>1, <3>2
  <2> QED BY <1>0, <2>1, <2>2, <2>3 DEF RecordOnce
<1> QED BY <1>1, <1>2

\* A pending sale keeps the reading and the type it has, until its payment fails or it
\* is sent.
SaleKept(p) ==
  /\ reports[p] # <<>> => reports'[p] # <<>>
  /\ p \in DOMAIN sales =>
       \/ /\ p \in DOMAIN sales'
          /\ sales[p].before => sales'[p].before
          /\ sales[p].type # "" => sales'[p].type # ""
       \/ PaymentFailure(p)
       \/ reports'[p] # <<>>

\* The writers of a pending sale keep what it has.
LEMMA SaleWritten ==
  ASSUME SalesOK, NEW o, reports' = reports,
         \/ sales' = Touched(sales, o)
         \/ sales' = [sales EXCEPT ![o].before = TRUE]
         \/ \E t \in {"Full", "Partial", "Revert"} : sales' = [sales EXCEPT ![o].type = t]
  PROVE  /\ \A p \in Orders : SaleKept(p)
         /\ DOMAIN sales \subseteq DOMAIN sales'
<1>1. CASE sales' = Touched(sales, o) BY <1>1 DEF Touched, With, SaleKept
<1>2. CASE sales' = [sales EXCEPT ![o].before = TRUE] BY <1>2 DEF SalesOK, SalesData, SaleKept
<1>3. ASSUME NEW t \in {"Full", "Partial", "Revert"}, sales' = [sales EXCEPT ![o].type = t]
      PROVE  (\A p \in Orders : SaleKept(p)) /\ DOMAIN sales \subseteq DOMAIN sales'
  BY <1>3 DEF SalesOK, SalesData, SaleKept
<1> QED BY <1>1, <1>2, <1>3

\* A pending sale goes when its payment fails or when it is sent.
LEMMA SaleMoves ==
  ASSUME DataOK, SalesOK, [Next]_vars
  PROVE  \A p \in Orders : SaleKept(p)
<1> USE DEF logicVars, tellVars
<1>1. ASSUME sales' = sales, reports' = reports PROVE \A p \in Orders : SaleKept(p)
  BY <1>1 DEF SaleKept
<1>3. ASSUME ImmediatelyCancelTransaction, reports' = reports PROVE \A p \in Orders : SaleKept(p)
  <2>1. CASE sales' = sales BY <1>1, <1>3, <2>1
  <2>2. CASE sales' # sales
    <3>1. sales' = [sales EXCEPT ![orders[current].id].type = "Revert"]
      BY <1>3, <2>2 DEF ImmediatelyCancelTransaction
    <3> QED BY <1>3, <3>1, SaleWritten
  <2> QED BY <2>1, <2>2
<1>4. CASE Display \/ Poll \/ checkTimers
  <2>1. CASE BeginFuelling
    <3>1. reports' = reports BY <2>1 DEF BeginFuelling
    <3>2. sales' = sales \/ sales' = Touched(sales, orders[current].id)
      BY <2>1 DEF BeginFuelling, printDebetReceipt
    <3> QED BY <1>1, <3>1, <3>2, SaleWritten
  <2>2. CASE CancelTransactionButton BY <1>3, <2>2 DEF CancelTransactionButton
  <2>3. CASE ~BeginFuelling /\ ~CancelTransactionButton
    <3>1. sales' = sales /\ reports' = reports
      BY <1>4, <2>3 DEF Display, handleChooseTRK, ForgetDispenser, createOrder,
                        handleBasicTouch, CloseOrderButton, Poll, checkTimers
    <3> QED BY <1>1, <3>1
  <2> QED BY <2>1, <2>2, <2>3
<1>5. CASE \/ EventsAnswer \/ StatusEvent \/ OrderCreatedEvent \/ StatusWithoutOrder
           \/ StatusOfDeadOrder \/ ParametersWithoutTask
  <2>1. sales' = sales /\ reports' = reports
    BY <1>5 DEF EventsAnswer, StatusEvent, OrderCreatedEvent, StatusWithoutOrder,
                StatusOfDeadOrder, ParametersWithoutTask
  <2> QED BY <1>1, <2>1
<1>6. CASE OrderChangedEvent
  <2>1. reports' = reports /\ (sales' = sales \/ sales' = Touched(sales, orders[Head(batch).dev].id))
    BY <1>6 DEF OrderChangedEvent
  <2> QED BY <1>1, <2>1, SaleWritten
<1>7. CASE StatusOfOrder
  <2> DEFINE r == Head(responses)
             e == [Observed(r) EXCEPT !.status = r.ostatus]
  <2>1. processOrderFinalization(r.dev, e) /\ reports' = reports BY <1>7 DEF StatusOfOrder
  <2> HIDE DEF e
  <2>2. \/ sales' = Touched(sales, e.id)
        \/ \E t \in {"Full", "Partial", "Revert"} : sales' = [sales EXCEPT ![e.id].type = t]
    BY <2>1 DEF processOrderFinalization, TypeSale
  <2> QED BY <2>1, <2>2, SaleWritten
<1>8. CASE ParametersBefore
  <2> DEFINE o == Head(gauge_queue[Head(responses).gauge]).order
  <2>1. reports' = reports /\ (sales' = sales \/ sales' = [sales EXCEPT ![o].before = TRUE])
    BY <1>8 DEF ParametersBefore
  <2> QED BY <1>1, <2>1, SaleWritten
<1>9. CASE ParametersAfter
  <2> DEFINE o == Head(gauge_queue[Head(responses).gauge]).order
             v == [sales[o] EXCEPT !.before = @ \/ sales[o].type = "Revert"]
  <2>1. \/ /\ o \in DOMAIN sales /\ sales' = Without(sales, o)
           /\ reports' = [reports EXCEPT ![o] = Append(@, v)]
        \/ sales' = sales /\ reports' = reports
    BY <1>9 DEF ParametersAfter
  <2>2. CASE /\ o \in DOMAIN sales /\ sales' = Without(sales, o)
             /\ reports' = [reports EXCEPT ![o] = Append(@, v)]
    <3> HIDE DEF v, o
    <3>1. o \in OrderOrNone BY <2>2 DEF SalesOK
    <3>2. Append(reports[o], v) # <<>> BY <3>1 DEF SalesOK
    <3>3. reports'[o] # <<>> /\ \A p \in OrderOrNone \ {o} : reports'[p] = reports[p]
      BY <2>2, <3>1, <3>2 DEF SalesOK
    <3>4. \A p \in DOMAIN sales \ {o} : p \in DOMAIN sales' /\ sales'[p] = sales[p]
      BY <2>2 DEF Without
    <3> QED BY <3>3, <3>4 DEF SaleKept, OrderOrNone
  <2> QED BY <1>1, <2>1, <2>2
<1>10. CASE LowVolumeAnswer BY <1>3, <1>10 DEF LowVolumeAnswer
<1>11. CASE CardTerminal
  <2>1. ASSUME NEW o \in Orders, PaymentFailure(o) PROVE \A p \in Orders : SaleKept(p)
    <3>1. reports' = reports /\ sales' = Without(sales, o) BY <2>1 DEF PaymentFailure
    <3>2. \A p \in DOMAIN sales \ {o} : p \in DOMAIN sales' /\ sales'[p] = sales[p]
      BY <3>1 DEF Without
    <3> QED BY <2>1, <3>1, <3>2 DEF SaleKept
  <2>2. ASSUME NEW o \in Orders, PaymentSuccess(o) PROVE \A p \in Orders : SaleKept(p)
    BY <1>1, <2>2 DEF PaymentSuccess
  <2>3. CASE ConfirmAnswer \/ CancelAnswer BY <1>1, <2>3 DEF ConfirmAnswer, CancelAnswer
  <2> QED BY <1>11, <2>1, <2>2, <2>3 DEF CardTerminal
<1>12. CASE Controller
  <2>1. sales' = sales /\ reports' = reports
    BY <1>12 DEF Controller, ServeEvents, ServeStatus, ServeParameters, ServeCreate, ServeAuthorize,
                 ServeClose, RequestFails, Answer, Acknowledge, LiftNozzle, HangNozzle,
                StartFuelling, Deliver,  Interrupt, Forecourt
  <2> QED BY <1>1, <2>1
<1>13. CASE UNCHANGED vars BY <1>1, <1>13 DEF vars
<1> QED BY <1>4, <1>5, <1>6, <1>7, <1>8, <1>9, <1>10, <1>11, <1>12, <1>13 DEF Next, Core

\* createPayment() leaves a pending sale for every order it asks about.
SaleInv ==
  \A o \in Orders : o \in asked /\ pay[o] # "failed" /\ reports[o] = <<>> => o \in DOMAIN sales

\* What a status answer does to the sale and the record of its order.
LEMMA OrderAnswered ==
  ASSUME DataOK, SalesOK, StatusOfOrder, NEW r, r = Head(responses)
  PROVE  /\ r \in Response /\ r.kind = "status" /\ r.dev \in Dispensers /\ r.order \in Orders
         /\ orders[r.dev].id = r.order /\ r.order \in DOMAIN sales' /\ r.order \in asked'
         /\ batch = <<>> /\ batch' = <<>>
         /\ UNCHANGED <<reports, log, srv, cancelled, repeated, untimely, records, last_event>>
         /\ orders'[r.dev].product = (orders[r.dev].product \/ r.status # "IDLE")
         /\ \A c \in Dispensers : c # r.dev => orders'[c] = orders[c]
<1> USE DEF srvVars, tellVars, pollVars
<1> DEFINE d == r.dev
           e == [Observed(r) EXCEPT !.status = r.ostatus]
<1>1. /\ responses # <<>> /\ r.kind = "status" /\ batch = <<>> /\ batch' = batch
      /\ UNCHANGED <<reports, log, srv, cancelled, repeated, untimely, records, last_event>>
  BY DEF StatusOfOrder, Handling, CoreIdle
<1>2. r \in Response /\ d \in Dispensers /\ r.order \in OrderOrNone BY <1>1, FrontTypes, Responses
<1>3. /\ r.order # NoOrder /\ orders[d].id = r.order
      /\ processOrderFinalization(d, e) /\ createPayment(r.order)
  BY DEF StatusOfOrder
<1>4. r.order \in Orders BY <1>2, <1>3 DEF OrderOrNone
<1>5. orders \in [Dispensers -> DatabaseOrder] /\ orders[d] \in DatabaseOrder BY <1>2 DEF DataOK
<1>6. /\ e.id = r.order /\ e.product = (orders[d].product \/ r.status # "IDLE")
      /\ [e EXCEPT !.finalized = TRUE].product = (orders[d].product \/ r.status # "IDLE")
  BY <1>3, <1>5 DEF Observed, DatabaseOrder
<1> HIDE DEF e
<1>7. /\ orders' = [orders EXCEPT ![d] = e] \/ orders' = [orders EXCEPT ![d] = [e EXCEPT !.finalized = TRUE]]
      /\ \/ sales' = Touched(sales, e.id)
         \/ e.id \in DOMAIN sales /\ sales' = [sales EXCEPT ![e.id].type = TypeSale(e)]
  BY <1>3 DEF processOrderFinalization
<1>8. e.id \in DOMAIN sales' BY <1>7 DEF Touched, With
<1>9. r.order \in asked' BY <1>3 DEF createPayment
<1>10. orders'[d] = e \/ orders'[d] = [e EXCEPT !.finalized = TRUE] BY <1>2, <1>5, <1>7
<1>11. \A c \in Dispensers : c # d => orders'[c] = orders[c] BY <1>5, <1>7
<1> QED BY <1>1, <1>2, <1>3, <1>4, <1>6, <1>8, <1>9, <1>10, <1>11

\* createPayment() is called in the step that creates the pending sale.
LEMMA SaleInvStep ==
  ASSUME DataOK, SalesOK, PayInv, SaleInv, [Next]_vars
  PROVE  SaleInv'
<1> SUFFICES ASSUME NEW o \in Orders, o \in asked', pay'[o] # "failed", reports'[o] = <<>>
             PROVE  o \in DOMAIN sales'
  BY DEF SaleInv
<1>1. CASE o \notin asked
  <2>1. StatusOfOrder /\ Head(responses).order = o BY <1>1, PayStep
  <2> QED BY <2>1, OrderAnswered
<1>2. CASE o \in asked
  <2>1. pay[o] # "failed" BY PayStep DEF PayStays
  <2>2. SaleKept(o) BY SaleMoves
  <2>3. o \in DOMAIN sales BY <1>2, <2>1, <2>2 DEF SaleInv, SaleKept
  <2>4. ~PaymentFailure(o) BY DEF PaymentFailure, PayInv
  <2> QED BY <2>2, <2>3, <2>4 DEF SaleKept
<1> QED BY <1>1, <1>2

\* An order whose charge was asked for is one whose product is known.
ProductInv ==
  \A d \in Dispensers : orders[d].id \in asked \ untimely => orders[d].product

\* A STATUS answer that makes an order asked for shows its nozzle up.
LEMMA ProductStep ==
  ASSUME DataOK, LogInv, Owned, SalesOK, PayInv, AnswerInv, RecordOnce, ProductInv, [Next]_vars
  PROVE  ProductInv'
<1> SUFFICES ASSUME NEW d \in Dispensers, NEW o \in Orders, orders'[d].id = o,
                    o \in asked', o \notin untimely'
             PROVE  orders'[d].product
  <2>1. asked' \subseteq Orders BY PayStep DEF PayInv
  <2> QED BY <2>1 DEF ProductInv
<1>1. o \notin untimely BY HistoriesGrow
<1>2. CASE OrderCreatedEvent
  <2>1. PICK e, p : e = Head(batch).dev /\ p = Head(batch).order OBVIOUS
  <2>2. /\ e \in Dispensers /\ p \in Orders /\ asked' = asked
        /\ p \notin untimely' => p \notin untimely /\ records[p] = 0
        /\ \A c \in Dispensers : c # e => orders'[c] = orders[c]
        /\ orders'[e] = orders[e] \/ orders'[e] = [DefaultOrder EXCEPT !.id = p]
    BY <1>2, <2>1, CreatedVisit
  <2>3. [DefaultOrder EXCEPT !.id = p].id = p BY DEF DefaultOrder
  <2>4. CASE orders'[d] = orders[d] BY <1>1, <2>2, <2>4 DEF ProductInv
  <2>5. CASE orders'[d] # orders[d]
    <3>1. o = p /\ records[o] = 0 BY <2>2, <2>3, <2>5
    <3> QED BY <2>2, <3>1 DEF RecordOnce
  <2> QED BY <2>4, <2>5
<1>3. CASE ~OrderCreatedEvent
  <2>1. orders[d].id = o /\ (orders[d].product => orders'[d].product) BY <1>3, OrderMoves
  <2>2. CASE o \in asked BY <1>1, <2>1, <2>2 DEF ProductInv
  <2>3. CASE o \notin asked
    <3>1. PICK r : r = Head(responses) OBVIOUS
    <3>2. StatusOfOrder /\ r.order = o BY <2>3, <3>1, PayStep
    <3>3. /\ r \in Response /\ r.kind = "status" /\ r.dev \in Dispensers /\ orders[r.dev].id = o
          /\ orders'[r.dev].product = (orders[r.dev].product \/ r.status # "IDLE")
      BY <3>1, <3>2, OrderAnswered
    <3>4. d = r.dev BY <2>1, <3>3, OneOwner
    <3>5. Told(responses, r)
      <4>1. responses # <<>> /\ responses \in Seq(Response) BY <3>2 DEF StatusOfOrder, Handling, DataOK
      <4>2. 1 \in 1..Len(responses) /\ responses[1] = Head(responses) BY <4>1
      <4> QED BY <3>1, <4>2 DEF Told
    <3>6. Tells(r) BY <3>3, <3>5 DEF AnswerInv
    <3>7. r.status # "IDLE" BY <1>1, <2>3, <3>2, <3>3, <3>6 DEF Tells
    <3> QED BY <3>3, <3>4, <3>7
  <2> QED BY <2>2, <2>3
<1> QED BY <1>2, <1>3

\* A confirmed order was authorized, and its pending sale has its type.
ConfirmInv ==
  \A o \in Orders : confirms[o] >= 1 =>
    /\ Authorized(o)
    /\ o \notin untimely /\ reports[o] = <<>> => o \in DOMAIN sales /\ sales[o].type # ""

\* processOrderFinalization() gives the sale its type when it confirms the order.
LEMMA ConfirmMoves ==
  ASSUME DataOK, SalesOK, [Next]_vars, NEW o \in Orders, confirms'[o] # confirms[o],
         NEW r, r = Head(responses)
  PROVE  /\ StatusOfOrder /\ r.order = o /\ r.ostatus \in Finished
         /\ o \in DOMAIN sales => o \in DOMAIN sales' /\ sales'[o].type # ""
<1> USE DEF payVars
<1>1. CASE Display \/ Poll \/ checkTimers
  BY <1>1 DEF Display, handleChooseTRK, ForgetDispenser, createOrder, handleBasicTouch,
              CloseOrderButton, BeginFuelling, CancelTransactionButton, Poll, checkTimers
<1>2. CASE Core /\ ~StatusOfOrder
  BY <1>2 DEF Core, EventsAnswer, StatusEvent, OrderChangedEvent, OrderCreatedEvent,
              StatusWithoutOrder, StatusOfDeadOrder, ParametersWithoutTask,
              ParametersBefore, ParametersAfter, LowVolumeAnswer
<1>3. CASE CardTerminal
  BY <1>3 DEF CardTerminal, PaymentSuccess, PaymentFailure, ConfirmAnswer, CancelAnswer
<1>4. CASE Controller
  BY <1>4 DEF Controller, ServeEvents, ServeStatus, ServeParameters, ServeCreate, ServeAuthorize,
              ServeClose, RequestFails, Answer, Acknowledge, LiftNozzle, HangNozzle, StartFuelling, Deliver,
              Interrupt, Forecourt
<1>5. CASE UNCHANGED vars BY <1>5 DEF vars
<1>6. CASE StatusOfOrder
  <2> DEFINE d == r.dev
             e == [Observed(r) EXCEPT !.status = r.ostatus]
  <2>1. r.kind = "status" /\ d \in Dispensers /\ r.order \in Orders /\ orders[d].id = r.order
    BY <1>6, OrderAnswered
  <2>2. orders[d] \in DatabaseOrder BY <2>1 DEF DataOK
  <2>3. e.id = r.order /\ e.status = r.ostatus BY <2>1, <2>2 DEF Observed, DatabaseOrder
  <2>4. processOrderFinalization(d, e) BY <1>6 DEF StatusOfOrder
  <2> HIDE DEF e
  <2>5. /\ Finalizes(e) /\ confirms' = [confirms EXCEPT ![e.id] = @ + 1]
        /\ e.id \in DOMAIN sales => sales' = [sales EXCEPT ![e.id].type = TypeSale(e)]
    BY <2>4 DEF processOrderFinalization
  <2>6. confirms \in [OrderOrNone -> Nat] /\ o \in OrderOrNone BY DEF DataOK, OrderOrNone
  <2>7. o = e.id BY <2>5, <2>6
  <2>8. TypeSale(e) # "" BY DEF TypeSale
  <2>9. ASSUME o \in DOMAIN sales PROVE o \in DOMAIN sales' /\ sales'[o].type # ""
    <3>1. sales[o] \in SalesData BY <2>9 DEF SalesOK
    <3>2. sales'[o] = [sales[o] EXCEPT !.type = TypeSale(e)] /\ o \in DOMAIN sales'
      BY <2>5, <2>7, <2>9
    <3> QED BY <2>8, <3>1, <3>2 DEF SalesData
  <2> QED BY <1>6, <2>3, <2>5, <2>7, <2>9 DEF Finalizes
<1> QED BY <1>1, <1>2, <1>3, <1>4, <1>5, <1>6 DEF Next

LEMMA ConfirmInvStep ==
  ASSUME DataOK, Grown, SalesOK, PayInv, PaidInv, AnswerInv, SaleInv, ConfirmInv, [Next]_vars
  PROVE  ConfirmInv'
<1> SUFFICES ASSUME NEW o \in Orders, confirms'[o] >= 1
             PROVE  /\ Authorized(o)'
                    /\ o \notin untimely' /\ reports'[o] = <<>> => o \in DOMAIN sales' /\ sales'[o].type # ""
  BY DEF ConfirmInv
<1>1. SaleKept(o) /\ untimely \subseteq untimely' BY SaleMoves, HistoriesGrow
<1>2. CASE confirms'[o] = confirms[o]
  <2>1. Authorized(o) BY <1>2 DEF ConfirmInv
  <2>2. ASSUME o \notin untimely', reports'[o] = <<>> PROVE o \in DOMAIN sales' /\ sales'[o].type # ""
    <3>1. o \notin untimely /\ reports[o] = <<>> BY <1>1, <2>2 DEF SaleKept
    <3>2. o \in DOMAIN sales /\ sales[o].type # "" BY <1>2, <3>1 DEF ConfirmInv
    <3>3. pay[o] = "paid" BY <2>1, <3>1, AuthorizedAsked
    <3>4. ~PaymentFailure(o) BY <3>3 DEF PaymentFailure
    <3> QED BY <1>1, <2>2, <3>2, <3>4 DEF SaleKept
  <2> QED BY <2>1, <2>2, StillAuthorized
<1>3. CASE confirms'[o] # confirms[o]
  <2>0. PICK r : r = Head(responses) OBVIOUS
  <2>1. /\ StatusOfOrder /\ r.order = o /\ r.ostatus \in Finished
        /\ o \in DOMAIN sales => o \in DOMAIN sales' /\ sales'[o].type # ""
    BY <1>3, <2>0, ConfirmMoves
  <2>2. r \in Response /\ r.kind = "status" BY <2>0, <2>1, OrderAnswered
  <2>3. Told(responses, r)
    <3>1. responses # <<>> /\ responses \in Seq(Response) BY <2>1 DEF StatusOfOrder, Handling, DataOK
    <3>2. 1 \in 1..Len(responses) /\ responses[1] = Head(responses) BY <3>1
    <3> QED BY <2>0, <3>2 DEF Told
  <2>4. Authorized(o) BY <2>1, <2>2, <2>3 DEF AnswerInv, Tells, Begun
  <2>5. ASSUME o \notin untimely', reports'[o] = <<>> PROVE o \in DOMAIN sales
    <3>1. o \notin untimely /\ reports[o] = <<>> BY <1>1, <2>5 DEF SaleKept
    <3> QED BY <2>4, <3>1, AuthorizedAsked DEF SaleInv
  <2> QED BY <2>1, <2>4, <2>5, StillAuthorized
<1> QED BY <1>2, <1>3

-----------------------------------------------------------------------------
(* The stream of events.                                                   *)

\* Requests that are no poll.
Plain(rs) == rs \in Seq(Request) /\ \A i \in 1..Len(rs) : rs[i].cmd # "EVENTS"

\* No request but that of Poll asks for events.
LEMMA PlainConcat ==
  ASSUME NEW s, NEW t, Plain(s), Plain(t) PROVE Plain(s \o t)
<1>1. s \in Seq(Request) /\ t \in Seq(Request) BY DEF Plain
<1>2. /\ s \o t \in Seq(Request) /\ Len(s \o t) = Len(s) + Len(t) /\ Len(s) \in Nat /\ Len(t) \in Nat
      /\ \A i \in 1..Len(s) + Len(t) :
           (s \o t)[i] = IF i <= Len(s) THEN s[i] ELSE t[i - Len(s)]
  BY <1>1
<1>3. ASSUME NEW i \in 1..Len(s \o t) PROVE (s \o t)[i].cmd # "EVENTS"
  <2>1. CASE i <= Len(s)
    <3>1. i \in 1..Len(s) BY <1>2, <2>1
    <3> QED BY <1>2, <2>1, <3>1 DEF Plain
  <2>2. CASE ~(i <= Len(s))
    <3>1. i - Len(s) \in 1..Len(t) BY <1>2, <2>2
    <3> QED BY <1>2, <2>2, <3>1 DEF Plain
  <2> QED BY <2>1, <2>2
<1> QED BY <1>2, <1>3 DEF Plain

LEMMA PlainParts ==
  /\ Plain(<<>>)
  /\ \A d \in Dispensers \cup {None} : Plain(Status(d))
  /\ \A d \in Dispensers \cup {None}, c \in {"CREATE", "authorize", "close"} : Plain(Command(c, d))
  /\ \A g \in Gauges \cup {NoGauge} : Plain(Parameters(g))
<1>1. Plain(<<>>) BY Requests DEF Plain
<1>2. \A r \in Request : <<r>> \in Seq(Request) /\ Len(<<r>>) = 1 /\ <<r>>[1] = r OBVIOUS
<1>3. ASSUME NEW r \in Request, r.cmd # "EVENTS" PROVE Plain(<<r>>)
  BY <1>2, <1>3 DEF Plain
<1>4. ASSUME NEW d \in Dispensers \cup {None} PROVE Plain(Status(d))
  <2>1. CASE d = None BY <1>1, <2>1 DEF Status
  <2>2. CASE d # None
    <3>1. [cmd |-> "STATUS", dev |-> d] \in Request BY <2>2 DEF Request
    <3> QED BY <1>3, <2>2, <3>1 DEF Status
  <2> QED BY <2>1, <2>2
<1>5. ASSUME NEW d \in Dispensers \cup {None}, NEW c \in {"CREATE", "authorize", "close"}
      PROVE  Plain(Command(c, d))
  <2>1. CASE d = None BY <1>1, <2>1 DEF Command
  <2>2. CASE d # None
    <3>1. [cmd |-> c, dev |-> d] \in Request BY <2>2 DEF Request
    <3>2. [cmd |-> c, dev |-> d].cmd # "EVENTS" OBVIOUS
    <3> QED BY <1>3, <2>2, <3>1, <3>2 DEF Command
  <2> QED BY <2>1, <2>2
<1>6. ASSUME NEW g \in Gauges \cup {NoGauge} PROVE Plain(Parameters(g))
  <2>1. [cmd |-> "PARAMETERS", gauge |-> g] \in Request BY DEF Request
  <2> QED BY <1>3, <2>1 DEF Parameters
<1> QED BY <1>1, <1>4, <1>5, <1>6

\* Requests are sent at the end of the queue and served at its front.
LEMMA RequestShapes ==
  ASSUME DataOK, [Next]_vars
  PROVE  \/ requests' = requests
         \/ requests # <<>> /\ requests' = Tail(requests) /\ Serves
         \/ \E rs : Plain(rs) /\ requests' = requests \o rs
         \/ Poll
<1>0. current \in Dispensers \cup {None} /\ \A d \in Dispensers : d \in Dispensers \cup {None}
  BY DEF DataOK
<1>1. ASSUME NEW rs, Plain(rs), Send(rs) PROVE \E s : Plain(s) /\ requests' = requests \o s
  BY <1>1 DEF Send
<1>2. ASSUME ImmediatelyCancelTransaction
      PROVE  requests' = requests \/ \E rs : Plain(rs) /\ requests' = requests \o rs
  <2>1. Plain(Command("close", current)) BY <1>0, PlainParts
  <2>2. CASE current = None \/ ~orders[current].product
    BY <1>2, <2>2 DEF ImmediatelyCancelTransaction
  <2>3. CASE ~(current = None \/ ~orders[current].product)
    <3>1. GaugeOf[current] \in Gauges \cup {NoGauge} BY <1>0, <2>3, GaugeIds
    <3>2. Plain(Parameters(GaugeOf[current]) \o Command("close", current))
      BY <2>1, <3>1, PlainParts, PlainConcat
    <3>3. \/ Send(Command("close", current))
          \/ Send(Parameters(GaugeOf[current]) \o Command("close", current))
      BY <1>2, <2>3 DEF ImmediatelyCancelTransaction
    <3> QED BY <1>1, <2>1, <3>2, <3>3
  <2> QED BY <2>2, <2>3
<1>3. CASE Display
  <2>1. CASE (\E d \in Dispensers : handleChooseTRK(d)) \/ ForgetDispenser
    BY <2>1 DEF handleChooseTRK, ForgetDispenser
  <2>2. CASE createOrder BY <1>0, <1>1, <2>2, PlainParts DEF createOrder
  <2>3. CASE handleBasicTouch BY <1>0, <1>1, <2>3, PlainParts DEF handleBasicTouch
  <2>4. CASE CloseOrderButton
    <3>1. PICK q \in {Status(current), <<>>} : Send(Command("close", current) \o q)
      BY <2>4 DEF CloseOrderButton
    <3>2. Plain(q) /\ Plain(Command("close", current)) BY <1>0, PlainParts
    <3> QED BY <1>1, <3>1, <3>2, PlainConcat
  <2>5. CASE BeginFuelling
    <3> DEFINE ts == IF ready /\ TRUE THEN Command("authorize", current) ELSE <<>>
    <3>1. Send(ts \o <<>>) BY <2>5 DEF BeginFuelling, authorizeOnServer
    <3>2. Plain(ts) /\ Plain(<<>>) BY <1>0, PlainParts
    <3> HIDE DEF ts
    <3> QED BY <1>1, <3>1, <3>2, PlainConcat
  <2>6. CASE CancelTransactionButton BY <1>2, <2>6 DEF CancelTransactionButton
  <2> QED BY <1>3, <2>1, <2>2, <2>3, <2>4, <2>5, <2>6 DEF Display
<1>4. CASE StatusEvent
  <2> DEFINE e == Head(batch)
             d == e.dev
             g == getLevelGaugeId(d, disp[d].product \/ e.status # "IDLE")
             back == e.status = "IDLE" /\ disp[d].status \in {"COMPLETE", "FUELLING"}
             s == IF back THEN Command("close", d) ELSE <<>>
             t == IF SendsEnd(d, back) THEN Parameters(g) ELSE <<>>
  <2>1. Send(s \o t) BY <1>4 DEF StatusEvent
  <2>2. d \in Dispensers BY <1>4, FrontTypes DEF StatusEvent, Visit
  <2>3. g \in Gauges \cup {NoGauge} BY <2>2, PrimeNames DEF getLevelGaugeId
  <2>4. Plain(s) /\ Plain(t) BY <1>0, <2>2, <2>3, PlainParts
  <2> HIDE DEF s, t
  <2> QED BY <1>1, <2>1, <2>4, PlainConcat
<1>5. CASE OrderChangedEvent
  <2> DEFINE d == Head(batch).dev
             g == getLevelGaugeId(d, orders[d].product)
  <2>1. d \in Dispensers BY <1>5, FrontTypes DEF OrderChangedEvent, Visit
  <2>2. g \in Gauges \cup {NoGauge} BY <2>1, PrimeNames DEF getLevelGaugeId
  <2>3. Plain(Status(d)) /\ Plain(Parameters(g)) BY <1>0, <2>1, <2>2, PlainParts
  <2>4. Send(Status(d)) \/ Send(Parameters(g)) BY <1>5 DEF OrderChangedEvent, QueryBefore
  <2> QED BY <1>1, <2>3, <2>4
<1>6. CASE OrderCreatedEvent
  <2> DEFINE d == Head(batch).dev
             s == IF TRUE /\ next THEN Command("authorize", current) ELSE <<>>
  <2>1. d \in Dispensers BY <1>6, FrontTypes DEF OrderCreatedEvent, Visit
  <2>2. Plain(s) /\ Plain(Status(d)) BY <1>0, <2>1, PlainParts
  <2>3. requests' = requests \/ Send(s \o Status(d))
    BY <1>6 DEF OrderCreatedEvent, authorizeOnServer
  <2> HIDE DEF s
  <2> QED BY <1>1, <2>2, <2>3, PlainConcat
<1>7. CASE StatusOfDeadOrder
  <2>1. Head(responses).dev \in Dispensers
    BY <1>7, FrontTypes, Responses DEF StatusOfDeadOrder, Handling
  <2> QED BY <1>0, <1>1, <1>7, <2>1, PlainParts DEF StatusOfDeadOrder
<1>8. CASE StatusOfOrder
  <2> DEFINE r == Head(responses)
             e == [Observed(r) EXCEPT !.status = r.ostatus]
             g == getLevelGaugeId(r.dev, e.product)
  <2>1. r.dev \in Dispensers BY <1>8, FrontTypes, Responses DEF StatusOfOrder, Handling
  <2>2. processOrderFinalization(r.dev, e) BY <1>8 DEF StatusOfOrder
  <2> HIDE DEF e
  <2>3. g \in Gauges \cup {NoGauge} BY <2>1, PrimeNames DEF getLevelGaugeId
  <2>4. requests' = requests \/ Send(Parameters(g)) \/ Send(<<>>)
    BY <2>2 DEF processOrderFinalization
  <2>5. Plain(Parameters(g)) /\ Plain(<<>>) BY <2>3, PlainParts
  <2> QED BY <1>1, <2>4, <2>5
<1>9. CASE \/ EventsAnswer \/ StatusWithoutOrder \/ ParametersWithoutTask
           \/ ParametersBefore \/ ParametersAfter
  BY <1>9 DEF EventsAnswer, StatusWithoutOrder, ParametersWithoutTask, ParametersBefore,
              ParametersAfter
<1>10. CASE LowVolumeAnswer BY <1>2, <1>10 DEF LowVolumeAnswer
<1>11. CASE CardTerminal
  <2>1. ASSUME NEW o, PaymentFailure(o) PROVE Send(Command("close", current))
    BY <2>1 DEF PaymentFailure
  <2>2. ASSUME NEW o, PaymentSuccess(o) PROVE requests' = requests BY <2>2 DEF PaymentSuccess
  <2> QED BY <1>0, <1>1, <1>11, <2>1, <2>2, PlainParts
          DEF CardTerminal, ConfirmAnswer, CancelAnswer
<1>12. CASE \/ ServeEvents \/ ServeStatus \/ ServeParameters
            \/ ServeCreate \/ ServeAuthorize \/ ServeClose \/ RequestFails
  BY <1>12, ControllerServes DEF Serves
<1>13. ASSUME NEW d \in Dispensers, Happens(d) PROVE requests' = requests
  BY <1>13, ForecourtNews DEF Forecourt
<1>14. CASE checkTimers BY <1>14 DEF checkTimers
<1>15. CASE UNCHANGED vars BY <1>15 DEF vars
<1> QED BY <1>3, <1>4, <1>5, <1>6, <1>7, <1>8, <1>9, <1>10, <1>11, <1>12, <1>13, <1>14, <1>15
        DEF Next, Core, Controller, Happens

\* A sequence without its first element.
LEMMA TailFacts ==
  ASSUME NEW S, NEW s \in Seq(S), s # <<>>
  PROVE  /\ Tail(s) \in Seq(S) /\ Len(Tail(s)) = Len(s) - 1 /\ Len(s) \in Nat \ {0}
         /\ Head(s) = s[1] /\ Head(s) \in S /\ 1 \in 1..Len(s) /\ Len(s) \in 1..Len(s)
         /\ \A i \in 1..Len(s) - 1 : Tail(s)[i] = s[i + 1] /\ i + 1 \in 1..Len(s) /\ i \in Nat
OBVIOUS

\* The events s are a stretch of the journal l.
StretchOf(s, l) ==
  \A j \in 1..Len(s) : s[j].id \in 1..Len(l) /\ s[j] = l[s[j].id] /\ s[j].id = s[1].id + (j - 1)

\* An answer that carries events, and the last of them.
Filled(r) == r.kind = "events" /\ r.events # <<>>
LastOf(r) == r.events[Len(r.events)].id

\* A stretch of the journal stays one.
LEMMA StretchKept ==
  ASSUME DataOK, Grown, NEW s, StretchOf(s, log)
  PROVE  StretchOf(s, log')
<1>1. \A i \in 1..Len(log) : i \in 1..Len(log') /\ log'[i] = log[i] BY DEF Grown, DataOK
<1> QED BY <1>1 DEF StretchOf

\* The ends of a stretch lie in the journal.
LEMMA StretchEnds ==
  ASSUME NEW s \in Seq(Event), s # <<>>, StretchOf(s, log), log \in Seq(Event)
  PROVE  /\ s[1].id \in 1..Len(log) /\ s[Len(s)].id \in 1..Len(log)
         /\ s[1] = log[s[1].id] /\ Len(s) \in Nat \ {0}
         /\ s[Len(s)].id = s[1].id + (Len(s) - 1)
<1>1. 1 \in 1..Len(s) /\ Len(s) \in 1..Len(s) /\ Len(s) \in Nat \ {0} BY TailFacts
<1> QED BY <1>1 DEF StretchOf

\* A place between the ends of a stretch is in it.
LEMMA StretchHas ==
  ASSUME NEW s \in Seq(Event), s # <<>>, StretchOf(s, log), log \in Seq(Event),
         NEW n \in Nat, s[1].id <= n, n <= s[Len(s)].id
  PROVE  \E k \in 1..Len(s) : s[k].id = n
<1>1. /\ s[1].id \in Nat /\ Len(s) \in Nat \ {0}
      /\ s[Len(s)].id = s[1].id + (Len(s) - 1)
  BY StretchEnds
<1>2. n - s[1].id + 1 \in 1..Len(s) BY <1>1
<1>3. s[n - s[1].id + 1].id = s[1].id + ((n - s[1].id + 1) - 1) BY <1>2 DEF StretchOf
<1>4. s[n - s[1].id + 1].id = n BY <1>1, <1>3
<1> QED BY <1>2, <1>4

\* The rest of a stretch is one.
LEMMA StretchTail ==
  ASSUME NEW s \in Seq(Event), s # <<>>, StretchOf(s, log), log \in Seq(Event)
  PROVE  /\ StretchOf(Tail(s), log)
         /\ Tail(s) # <<>> => /\ Tail(s)[1].id = s[1].id + 1
                              /\ Tail(s)[Len(Tail(s))].id = s[Len(s)].id
         /\ \A k \in 1..Len(Tail(s)) : Tail(s)[k].id > s[1].id
         /\ \A k \in 1..Len(s) : k # 1 => \E j \in 1..Len(Tail(s)) : Tail(s)[j] = s[k]
<1> DEFINE t == Tail(s)
<1>1. /\ t \in Seq(Event) /\ Len(t) = Len(s) - 1 /\ Len(s) \in Nat \ {0}
      /\ \A i \in 1..Len(t) : t[i] = s[i + 1] /\ i + 1 \in 1..Len(s) /\ i \in Nat
  BY TailFacts
<1> HIDE DEF t
<1>2. s[1].id \in Nat BY StretchEnds
<1>3. ASSUME NEW i \in 1..Len(t)
      PROVE  t[i].id \in 1..Len(log) /\ t[i] = log[t[i].id] /\ t[i].id = s[1].id + i
  <2>1. t[i] = s[i + 1] /\ i + 1 \in 1..Len(s) /\ i \in Nat BY <1>1
  <2>2. s[i + 1].id \in 1..Len(log) /\ s[i + 1] = log[s[i + 1].id]
        /\ s[i + 1].id = s[1].id + ((i + 1) - 1)
    BY <2>1 DEF StretchOf
  <2> QED BY <1>2, <2>1, <2>2
<1>4. StretchOf(t, log)
  <2>1. ASSUME NEW i \in 1..Len(t) PROVE t[i].id = t[1].id + (i - 1)
    <3>1. 1 \in 1..Len(t) /\ i \in Nat BY <1>1
    <3> QED BY <1>2, <1>3, <3>1
  <2> QED BY <1>3, <2>1 DEF StretchOf
<1>5. ASSUME t # <<>> PROVE t[1].id = s[1].id + 1 /\ t[Len(t)].id = s[Len(s)].id
  <2>1. 1 \in 1..Len(t) /\ Len(t) \in 1..Len(t) BY <1>1, <1>5
  <2>2. t[Len(t)] = s[Len(t) + 1] /\ Len(t) + 1 = Len(s) BY <1>1, <2>1
  <2> QED BY <1>3, <2>1, <2>2
<1>6. \A k \in 1..Len(t) : t[k].id > s[1].id BY <1>2, <1>3
<1>7. ASSUME NEW k \in 1..Len(s), k # 1 PROVE \E j \in 1..Len(t) : t[j] = s[k]
  <2>1. k - 1 \in 1..Len(t) /\ (k - 1) + 1 = k BY <1>1, <1>7
  <2> QED BY <1>1, <2>1
<1> QED BY <1>4, <1>5, <1>6, <1>7 DEF t

\* What GET_EVENTS answers with: the journal after the event n.
LEMMA StretchAsked ==
  ASSUME log \in Seq(Event), Numbered, NEW n \in Nat, NEW s, s = SubSeq(log, n + 1, Len(log))
  PROVE  /\ StretchOf(s, log)
         /\ s # <<>> => s[1].id = n + 1 /\ s[Len(s)].id = Len(log)
<1>0. Len(log) \in Nat OBVIOUS
<1>1. CASE n <= Len(log)
  <2>1. /\ s \in Seq(Event) /\ Len(s) = Len(log) - n
        /\ \A i \in 1..Len(s) : s[i] = log[n + i]
    BY <1>0, <1>1
  <2>2. \A i \in 1..Len(s) : n + i \in 1..Len(log) /\ i \in Nat BY <1>0, <1>1, <2>1
  <2>3. ASSUME NEW i \in 1..Len(s) PROVE s[i].id = n + i /\ s[i].id \in 1..Len(log) /\ s[i] = log[s[i].id]
    <3>1. n + i \in 1..Len(log) /\ s[i] = log[n + i] BY <2>1, <2>2
    <3>2. log[n + i].id = n + i BY <3>1 DEF Numbered
    <3> QED BY <3>1, <3>2
  <2>4. StretchOf(s, log)
    <3>1. ASSUME NEW i \in 1..Len(s) PROVE s[i].id = s[1].id + (i - 1)
      <4>1. 1 \in 1..Len(s) /\ i \in Nat BY <1>0, <1>1, <2>1
      <4> QED BY <2>3, <4>1
    <3> QED BY <2>3, <3>1 DEF StretchOf
  <2>5. ASSUME s # <<>> PROVE s[1].id = n + 1 /\ s[Len(s)].id = Len(log)
    <3>1. 1 \in 1..Len(s) /\ Len(s) \in 1..Len(s) /\ n + Len(s) = Len(log)
      BY <1>0, <1>1, <2>1, <2>5
    <3> QED BY <2>3, <3>1
  <2> QED BY <2>4, <2>5
<1>2. CASE ~(n <= Len(log))
  <2>1. s = <<>> BY <1>0, <1>2
  <2>2. Len(<<>>) = 0 /\ ~\E i : i \in 1..0 OBVIOUS
  <2>3. ~\E i : i \in 1..Len(s) BY <2>1, <2>2
  <2> QED BY <2>1, <2>3 DEF StretchOf
<1> QED BY <1>1, <1>2

\* What a step does to the events on their way: nothing, one is visited, an answer
\* is taken, an answer is given.
Rest == UNCHANGED <<batch, last_event, responses>>
Visits ==
  /\ batch # <<>> /\ batch' = Tail(batch) /\ last_event' = batch[1].id
  /\ UNCHANGED <<responses, log>>
Takes ==
  /\ responses # <<>> /\ batch = <<>> /\ responses' = Tail(responses)
  /\ UNCHANGED <<log, last_event>>
  /\ batch' = IF responses[1].kind = "events" THEN responses[1].events ELSE <<>>
Gives(r) ==
  NewAnswer(r) /\ responses' = Append(responses, r) /\ UNCHANGED <<batch, last_event, log>>

\* Every step is of one of these kinds.
LEMMA StreamShapes ==
  ASSUME DataOK, [Next]_vars
  PROVE  Rest \/ Visits \/ Takes \/ \E r \in Response : Gives(r)
<1> USE DEF pollVars, srvVars
<1>1. CASE StatusEvent \/ OrderChangedEvent \/ OrderCreatedEvent
  <2>1. /\ batch # <<>> /\ batch' = Tail(batch) /\ last_event' = Head(batch).id
        /\ UNCHANGED <<responses, log>>
    BY <1>1 DEF StatusEvent, OrderChangedEvent, OrderCreatedEvent, Visit
  <2> QED BY <2>1, TailFacts DEF Visits, DataOK
<1>2. CASE Display \/ Poll \/ checkTimers
  BY <1>2 DEF Display, handleChooseTRK, ForgetDispenser, createOrder, handleBasicTouch,
              CloseOrderButton, BeginFuelling, CancelTransactionButton, Poll, checkTimers,
              Touch, Called, Rest
<1>3. CASE CardTerminal
  BY <1>3 DEF CardTerminal, PaymentSuccess, PaymentFailure, ConfirmAnswer, CancelAnswer, Called, Rest
<1>4. CASE Core /\ ~StatusEvent /\ ~OrderChangedEvent /\ ~OrderCreatedEvent
  <2>1. /\ responses # <<>> /\ batch = <<>> /\ responses' = Tail(responses)
        /\ UNCHANGED <<log, last_event>>
        /\ batch' = IF Head(responses).kind = "events" THEN Head(responses).events ELSE <<>>
    BY <1>4 DEF Core, EventsAnswer, StatusWithoutOrder, StatusOfDeadOrder, StatusOfOrder,
                ParametersWithoutTask, ParametersBefore, ParametersAfter, LowVolumeAnswer,
                Handling, CoreIdle, Taken
  <2>2. Head(responses) = responses[1] BY <2>1, TailFacts DEF DataOK
  <2> QED BY <2>1, <2>2 DEF Takes
<1>5. CASE Controller
  <2>1. UNCHANGED <<batch, last_event>>
    BY <1>5 DEF Controller, ServeEvents, ServeStatus, ServeParameters, ServeCreate, ServeAuthorize,
                ServeClose, RequestFails, Answer, Acknowledge, LiftNozzle, HangNozzle,
                StartFuelling, Deliver, Interrupt, Forecourt
  <2>2. \/ responses' = responses \/ (responses # <<>> /\ responses' = Tail(responses))
        \/ \E r : NewAnswer(r) /\ responses' = Append(responses, r) /\ UNCHANGED <<batch, last_event, log>>
    BY ResponseShapes
  <2>3. ASSUME responses # <<>>, responses' = Tail(responses) PROVE FALSE
    <3>1. responses' = responses \/ \E r : responses' = Append(responses, r)
      BY <1>5 DEF Controller, ServeEvents, ServeStatus, ServeParameters, ServeCreate,
                  ServeAuthorize, ServeClose, RequestFails, Answer, Acknowledge, LiftNozzle, HangNozzle,
                  StartFuelling, Deliver, Interrupt, Forecourt
    <3>2. responses \in Seq(Response) BY DEF DataOK
    <3>3. Len(Tail(responses)) = Len(responses) - 1 /\ Len(responses) \in Nat
      BY <2>3, <3>2, TailFacts
    <3>4. ASSUME NEW r, responses' = Append(responses, r) PROVE FALSE
      <4>1. Len(Append(responses, r)) = Len(responses) + 1 BY <3>2
      <4>2. Len(responses) - 1 = Len(responses) + 1 BY <2>3, <3>3, <3>4, <4>1
      <4> QED BY <3>3, <4>2
    <3>5. responses' # responses
      <4>1. \A n \in Nat : n - 1 # n OBVIOUS
      <4> QED BY <2>3, <3>3, <4>1
    <3> QED BY <3>1, <3>4, <3>5
  <2>4. ASSUME NEW r, NewAnswer(r) PROVE r \in Response BY <2>4 DEF NewAnswer
  <2> QED BY <2>1, <2>2, <2>3, <2>4 DEF Rest, Gives
<1>6. CASE UNCHANGED vars BY <1>6 DEF vars, Rest
<1> QED BY <1>1, <1>2, <1>3, <1>4, <1>5, <1>6 DEF Next

\* The events on their way are stretches of the journal, later answers reach as far
\* as earlier ones, and no poll goes beyond the journal.
StreamInv ==
  /\ StretchOf(batch, log)
  /\ \A k \in 1..Len(responses) : Filled(responses[k]) =>
       /\ StretchOf(responses[k].events, log)
       /\ batch # <<>> => batch[Len(batch)].id <= LastOf(responses[k])
  /\ \A j, k \in 1..Len(responses) :
       j < k /\ Filled(responses[j]) /\ Filled(responses[k]) => LastOf(responses[j]) <= LastOf(responses[k])
  /\ last_event <= Len(log)
  /\ \A j \in 1..Len(requests) : requests[j].cmd = "EVENTS" => requests[j].from <= Len(log)

\* The event n is still to be visited for the first time.
NotYet(n) ==
  /\ last_event < n
  /\ batch # <<>> => batch[1].id <= n
  /\ \A k \in 1..Len(responses) : Filled(responses[k]) => responses[k].events[1].id <= n
  /\ \A j \in 1..Len(requests) : requests[j].cmd = "EVENTS" => requests[j].from < n

\* The events on their way do not end before n.
Reached(n) ==
  /\ batch # <<>> => n <= batch[Len(batch)].id
  /\ \A k \in 1..Len(responses) : Filled(responses[k]) => n <= LastOf(responses[k])

\* An answer of GET_EVENTS that waits.
LEMMA AnswerFacts ==
  ASSUME DataOK, StreamInv, NEW k \in 1..Len(responses), Filled(responses[k])
  PROVE  /\ responses[k].events \in Seq(Event) /\ responses[k].events # <<>>
         /\ StretchOf(responses[k].events, log)
         /\ responses[k].events[1].id \in 1..Len(log) /\ LastOf(responses[k]) \in 1..Len(log)
<1>1. responses[k] \in Response /\ log \in Seq(Event) BY DEF DataOK
<1>2. responses[k].events \in Seq(Event) /\ responses[k].events # <<>> BY <1>1, Responses DEF Filled
<1>3. StretchOf(responses[k].events, log) BY DEF StreamInv
<1> QED BY <1>1, <1>2, <1>3, StretchEnds DEF LastOf

\* The event in hand.
LEMMA BatchFacts ==
  ASSUME DataOK, StreamInv, batch # <<>>
  PROVE  /\ batch[1].id \in 1..Len(log) /\ batch[Len(batch)].id \in 1..Len(log)
         /\ batch[1] = log[batch[1].id] /\ batch[1].id <= batch[Len(batch)].id
         /\ batch[1] = Head(batch)
<1>1. batch \in Seq(Event) /\ log \in Seq(Event) /\ StretchOf(batch, log) BY DEF DataOK, StreamInv
<1>2. /\ batch[1].id \in 1..Len(log) /\ batch[Len(batch)].id \in 1..Len(log)
      /\ batch[1] = log[batch[1].id] /\ Len(batch) \in Nat \ {0}
      /\ batch[Len(batch)].id = batch[1].id + (Len(batch) - 1)
  BY <1>1, StretchEnds
<1> QED BY <1>1, <1>2, TailFacts

\* Every poll in the queue was there or asks from the last event visited.
LEMMA PollsLately ==
  ASSUME DataOK, [Next]_vars, NEW i \in 1..Len(requests'), requests'[i].cmd = "EVENTS"
  PROVE  \/ \E j \in 1..Len(requests) : requests'[i] = requests[j]
         \/ requests'[i].from = last_event /\ last_event' = last_event
<1>1. requests \in Seq(Request) BY DEF DataOK
<1>2. CASE requests' = requests BY <1>2
<1>3. CASE requests # <<>> /\ requests' = Tail(requests)
  <2>1. /\ Len(requests') = Len(requests) - 1 /\ Len(requests) \in Nat
        /\ \A j \in 1..Len(requests) - 1 : requests'[j] = requests[j + 1] /\ j + 1 \in 1..Len(requests)
    BY <1>1, <1>3, TailFacts
  <2> QED BY <2>1
<1>4. ASSUME NEW rs \in Seq(Request), requests' = requests \o rs
      PROVE  \/ \E j \in 1..Len(requests) : requests'[i] = requests[j]
             \/ \E j \in 1..Len(rs) : requests'[i] = rs[j]
  <2>1. /\ Len(requests') = Len(requests) + Len(rs) /\ Len(requests) \in Nat /\ Len(rs) \in Nat
        /\ requests'[i] = IF i <= Len(requests) THEN requests[i] ELSE rs[i - Len(requests)]
    BY <1>1, <1>4
  <2>2. CASE i <= Len(requests)
    <3>1. i \in 1..Len(requests) /\ requests'[i] = requests[i] BY <2>1, <2>2
    <3> QED BY <3>1
  <2>3. CASE ~(i <= Len(requests))
    <3>1. i - Len(requests) \in 1..Len(rs) /\ requests'[i] = rs[i - Len(requests)] BY <2>1, <2>3
    <3> QED BY <3>1
  <2> QED BY <2>2, <2>3
<1>5. ASSUME NEW rs, Plain(rs), requests' = requests \o rs
      PROVE  \E j \in 1..Len(requests) : requests'[i] = requests[j]
  BY <1>4, <1>5 DEF Plain
<1>6. CASE Poll
  <2> DEFINE p == [cmd |-> "EVENTS", from |-> last_event]
  <2>1. requests' = requests \o <<p>> /\ last_event' = last_event BY <1>6 DEF Poll, Send, pollVars
  <2>2. <<p>> \in Seq(Request) BY Requests DEF DataOK
  <2>3. \A j \in 1..Len(<<p>>) : <<p>>[j].from = last_event OBVIOUS
  <2> HIDE DEF p
  <2> QED BY <1>4, <2>1, <2>2, <2>3
<1> QED BY <1>2, <1>3, <1>5, <1>6, RequestShapes

\* The answer that is given goes on from a poll to the end of the journal.
LEMMA GivenFacts ==
  ASSUME DataOK, Numbered, NEW r, NewAnswer(r), Filled(r)
  PROVE  /\ StretchOf(r.events, log) /\ LastOf(r) = Len(log)
         /\ requests # <<>> /\ requests[1].cmd = "EVENTS" /\ requests[1].from \in Nat
         /\ 1 \in 1..Len(requests) /\ r.events[1].id = requests[1].from + 1
<1>1. /\ requests # <<>> /\ Head(requests).cmd = "EVENTS"
      /\ r.events = SubSeq(log, Head(requests).from + 1, Len(log)) /\ r.events # <<>>
  BY DEF NewAnswer, Filled
<1>2. Head(requests) = requests[1] /\ 1 \in 1..Len(requests) BY <1>1, TailFacts DEF DataOK
<1>3. Head(requests).from \in Nat BY <1>1, FrontTypes, RequestFields
<1>4. log \in Seq(Event) BY DEF DataOK
<1> QED BY <1>1, <1>2, <1>3, <1>4, StretchAsked DEF LastOf

\* Polls, answers and events stay in the order of the journal.
LEMMA StreamStep ==
  ASSUME DataOK, DataOK', Grown, Numbered, StreamInv, [Next]_vars
  PROVE  StreamInv'
<1>0. /\ log \in Seq(Event) /\ Len(log) \in Nat /\ Len(log') \in Nat /\ Len(log) <= Len(log')
      /\ batch \in Seq(Event) /\ responses \in Seq(Response) /\ requests \in Seq(Request)
      /\ last_event \in Nat
  BY DEF DataOK, Grown
<1>1. ASSUME NEW s, StretchOf(s, log) PROVE StretchOf(s, log') BY <1>1, StretchKept
<1>2. ASSUME NEW i \in 1..Len(requests'), requests'[i].cmd = "EVENTS"
      PROVE  requests'[i].from <= Len(log')
  <2>1. CASE \E j \in 1..Len(requests) : requests'[i] = requests[j]
    <3>1. PICK j \in 1..Len(requests) : requests'[i] = requests[j] BY <2>1
    <3>2. requests[j] \in Request BY <1>0
    <3>3. requests[j].from \in Nat /\ requests[j].from <= Len(log)
      BY <1>2, <3>1, <3>2, RequestFields DEF StreamInv
    <3> QED BY <1>0, <3>1, <3>3
  <2>2. CASE requests'[i].from = last_event BY <1>0, <2>2 DEF StreamInv
  <2> QED BY <1>2, <2>1, <2>2, PollsLately
<1>3. ASSUME last_event' = last_event PROVE last_event' <= Len(log') BY <1>0, <1>3 DEF StreamInv
<1>4. CASE Rest
  <2>1. /\ StretchOf(batch, log')
        /\ \A k \in 1..Len(responses) : Filled(responses[k]) => StretchOf(responses[k].events, log')
    BY <1>1 DEF StreamInv
  <2> QED BY <1>2, <1>3, <1>4, <2>1 DEF StreamInv, Rest
<1>5. CASE Visits
  <2>1. /\ batch # <<>> /\ batch' = Tail(batch) /\ last_event' = batch[1].id
        /\ responses' = responses /\ log' = log /\ StretchOf(batch, log)
    BY <1>5 DEF Visits, StreamInv
  <2>2. /\ StretchOf(batch', log)
        /\ batch' # <<>> => batch'[Len(batch')].id = batch[Len(batch)].id
    BY <1>0, <2>1, StretchTail
  <2>3. batch[1].id \in 1..Len(log) BY <1>0, <2>1, StretchEnds
  <2>4. last_event' <= Len(log') BY <1>0, <2>1, <2>3
  <2> QED BY <1>2, <2>1, <2>2, <2>4 DEF StreamInv
<1>6. CASE Takes
  <2>1. /\ batch = <<>> /\ responses # <<>> /\ responses' = Tail(responses)
        /\ log' = log /\ last_event' = last_event
        /\ batch' = IF responses[1].kind = "events" THEN responses[1].events ELSE <<>>
    BY <1>6 DEF Takes
  <2>2. /\ Len(responses') = Len(responses) - 1 /\ 1 \in 1..Len(responses) /\ Len(responses) \in Nat
        /\ \A i \in 1..Len(responses') :
             responses'[i] = responses[i + 1] /\ i + 1 \in 1..Len(responses) /\ i \in Nat
    BY <1>0, <2>1, TailFacts
  <2>3. ASSUME batch' # <<>>
        PROVE  /\ Filled(responses[1]) /\ batch' = responses[1].events
               /\ batch'[Len(batch')].id = LastOf(responses[1])
    BY <2>1, <2>3 DEF Filled, LastOf
  <2>4. StretchOf(batch', log)
    <3>1. CASE batch' = <<>>
      <4>1. Len(<<>>) = 0 /\ ~\E i : i \in 1..0 OBVIOUS
      <4> QED BY <3>1, <4>1 DEF StretchOf
    <3>2. CASE batch' # <<>> BY <2>2, <2>3, <3>2 DEF StreamInv
    <3> QED BY <3>1, <3>2
  <2>5. ASSUME NEW k \in 1..Len(responses'), Filled(responses'[k])
        PROVE  /\ StretchOf(responses'[k].events, log)
               /\ batch' # <<>> => batch'[Len(batch')].id <= LastOf(responses'[k])
    <3>1. /\ responses'[k] = responses[k + 1] /\ k + 1 \in 1..Len(responses) /\ 1 < k + 1
      BY <2>2
    <3> QED BY <2>2, <2>3, <2>5, <3>1 DEF StreamInv
  <2>6. ASSUME NEW j \in 1..Len(responses'), NEW k \in 1..Len(responses'), j < k,
               Filled(responses'[j]), Filled(responses'[k])
        PROVE  LastOf(responses'[j]) <= LastOf(responses'[k])
    <3>1. /\ responses'[k] = responses[k + 1] /\ k + 1 \in 1..Len(responses)
          /\ responses'[j] = responses[j + 1] /\ j + 1 \in 1..Len(responses) /\ j + 1 < k + 1
      BY <2>2, <2>6
    <3> QED BY <2>6, <3>1 DEF StreamInv
  <2> QED BY <1>2, <1>3, <2>1, <2>4, <2>5, <2>6 DEF StreamInv
<1>7. ASSUME NEW r \in Response, Gives(r) PROVE StreamInv'
  <2>1. /\ responses' = Append(responses, r) /\ batch' = batch /\ last_event' = last_event
        /\ log' = log /\ NewAnswer(r)
    BY <1>7 DEF Gives
  <2>2. /\ Len(responses') = Len(responses) + 1 /\ Len(responses) \in Nat
        /\ \A k \in 1..Len(responses') :
             \/ k \in 1..Len(responses) /\ responses'[k] = responses[k]
             \/ k = Len(responses) + 1 /\ responses'[k] = r
    BY <1>0, <2>1
  <2>3. Filled(r) => StretchOf(r.events, log) /\ LastOf(r) = Len(log) BY <2>1, GivenFacts
  <2>4. batch # <<>> => batch[Len(batch)].id <= Len(log) BY BatchFacts
  <2>5. \A k \in 1..Len(responses) : Filled(responses[k]) => LastOf(responses[k]) <= Len(log)
    BY AnswerFacts
  <2>6. ASSUME NEW k \in 1..Len(responses'), Filled(responses'[k])
        PROVE  /\ StretchOf(responses'[k].events, log)
               /\ batch # <<>> => batch[Len(batch)].id <= LastOf(responses'[k])
    BY <2>2, <2>3, <2>4, <2>6 DEF StreamInv
  <2>7. ASSUME NEW j \in 1..Len(responses'), NEW k \in 1..Len(responses'), j < k,
               Filled(responses'[j]), Filled(responses'[k])
        PROVE  LastOf(responses'[j]) <= LastOf(responses'[k])
    <3>1. j \in 1..Len(responses) /\ responses'[j] = responses[j] BY <2>2, <2>7
    <3> QED BY <2>2, <2>3, <2>5, <2>7, <3>1 DEF StreamInv
  <2> QED BY <1>2, <1>3, <2>1, <2>6, <2>7 DEF StreamInv
<1> QED BY <1>4, <1>5, <1>6, <1>7, StreamShapes

\* An event that is still to be visited stays so until it is.
LEMMA NotYetStays ==
  ASSUME DataOK, DataOK', Grown, Numbered, StreamInv, [Next]_vars,
         NEW n \in Nat, NotYet(n), ~(Visits /\ batch[1].id = n)
  PROVE  NotYet(n)'
<1>0. /\ log \in Seq(Event) /\ batch \in Seq(Event) /\ responses \in Seq(Response)
      /\ requests \in Seq(Request) /\ last_event \in Nat
  BY DEF DataOK
<1>1. ASSUME NEW i \in 1..Len(requests'), requests'[i].cmd = "EVENTS" PROVE requests'[i].from < n
  BY <1>1, PollsLately DEF NotYet
<1>2. CASE Rest BY <1>1, <1>2 DEF Rest, NotYet
<1>3. CASE Visits
  <2>1. /\ batch # <<>> /\ batch' = Tail(batch) /\ last_event' = batch[1].id
        /\ responses' = responses /\ StretchOf(batch, log)
    BY <1>3 DEF Visits, StreamInv
  <2>2. batch' # <<>> => batch'[1].id = batch[1].id + 1 BY <1>0, <2>1, StretchTail
  <2>3. batch[1].id \in Nat /\ batch[1].id <= n /\ batch[1].id # n
    <3>1. batch[1].id \in 1..Len(log) BY <2>1, BatchFacts
    <3>2. Len(log) \in Nat BY <1>0
    <3> QED BY <1>3, <2>1, <3>1, <3>2 DEF NotYet
  <2>4. last_event' < n /\ (batch' # <<>> => batch'[1].id <= n) BY <2>1, <2>2, <2>3
  <2> QED BY <1>1, <2>1, <2>4 DEF NotYet
<1>4. CASE Takes
  <2>1. /\ batch = <<>> /\ responses # <<>> /\ responses' = Tail(responses)
        /\ last_event' = last_event
        /\ batch' = IF responses[1].kind = "events" THEN responses[1].events ELSE <<>>
    BY <1>4 DEF Takes
  <2>2. /\ 1 \in 1..Len(responses) /\ Len(responses') = Len(responses) - 1
        /\ \A i \in 1..Len(responses') : responses'[i] = responses[i + 1] /\ i + 1 \in 1..Len(responses)
    BY <1>0, <2>1, TailFacts
  <2>3. batch' # <<>> => batch'[1].id <= n BY <2>1, <2>2 DEF NotYet, Filled
  <2>4. \A k \in 1..Len(responses') : Filled(responses'[k]) => responses'[k].events[1].id <= n
    BY <2>2 DEF NotYet
  <2> QED BY <1>1, <2>1, <2>3, <2>4 DEF NotYet
<1>5. ASSUME NEW r \in Response, Gives(r) PROVE NotYet(n)'
  <2>1. /\ responses' = Append(responses, r) /\ batch' = batch /\ last_event' = last_event
        /\ NewAnswer(r)
    BY <1>5 DEF Gives
  <2>2. \A k \in 1..Len(responses') :
           \/ k \in 1..Len(responses) /\ responses'[k] = responses[k]
           \/ responses'[k] = r
    BY <1>0, <2>1
  <2>3. ASSUME Filled(r) PROVE r.events[1].id <= n
    <3>1. /\ 1 \in 1..Len(requests) /\ requests[1].cmd = "EVENTS" /\ requests[1].from \in Nat
          /\ r.events[1].id = requests[1].from + 1
      BY <2>1, <2>3, GivenFacts
    <3>2. requests[1].from < n BY <3>1 DEF NotYet
    <3> QED BY <3>1, <3>2
  <2>4. \A k \in 1..Len(responses') : Filled(responses'[k]) => responses'[k].events[1].id <= n
    BY <2>2, <2>3 DEF NotYet
  <2> QED BY <1>1, <2>1, <2>4 DEF NotYet
<1> QED BY <1>2, <1>3, <1>4, <1>5, StreamShapes

\* So is one that is only now in the journal.
LEMMA NotYetNew ==
  ASSUME DataOK, DataOK', StreamInv, [Next]_vars, NEW n \in Nat, n > Len(log), Rest
  PROVE  NotYet(n)'
<1>0. /\ log \in Seq(Event) /\ responses \in Seq(Response) /\ Len(log) \in Nat
      /\ requests \in Seq(Request) /\ last_event \in Nat
  BY DEF DataOK
<1>1. last_event < n BY <1>0 DEF StreamInv
<1>2. ASSUME NEW i \in 1..Len(requests'), requests'[i].cmd = "EVENTS" PROVE requests'[i].from < n
  <2>1. CASE \E j \in 1..Len(requests) : requests'[i] = requests[j]
    <3>1. PICK j \in 1..Len(requests) : requests'[i] = requests[j] BY <2>1
    <3>2. requests[j] \in Request BY <1>0
    <3>3. requests[j].from \in Nat /\ requests[j].from <= Len(log)
      BY <1>2, <3>1, <3>2, RequestFields DEF StreamInv
    <3> QED BY <1>0, <3>1, <3>3
  <2> QED BY <1>1, <1>2, <2>1, PollsLately
<1>3. batch # <<>> => batch[1].id <= n
  <2>1. batch # <<>> => batch[1].id \in 1..Len(log) BY BatchFacts
  <2> QED BY <1>0, <2>1
<1>4. \A k \in 1..Len(responses) : Filled(responses[k]) => responses[k].events[1].id <= n
  <2>1. \A k \in 1..Len(responses) : Filled(responses[k]) => responses[k].events[1].id \in 1..Len(log)
    BY AnswerFacts
  <2> QED BY <1>0, <2>1
<1> QED BY <1>1, <1>2, <1>3, <1>4 DEF NotYet, Rest

\* What reached n reaches it.
LEMMA ReachedStays ==
  ASSUME DataOK, DataOK', Numbered, StreamInv, [Next]_vars, NEW n \in 1..Len(log), Reached(n)
  PROVE  Reached(n)'
<1>0. /\ log \in Seq(Event) /\ batch \in Seq(Event) /\ responses \in Seq(Response)
  BY DEF DataOK
<1>1. CASE Rest BY <1>1 DEF Rest, Reached
<1>2. CASE Visits
  <2>1. /\ batch # <<>> /\ batch' = Tail(batch) /\ responses' = responses /\ StretchOf(batch, log)
    BY <1>2 DEF Visits, StreamInv
  <2>2. batch' # <<>> => batch'[Len(batch')].id = batch[Len(batch)].id BY <1>0, <2>1, StretchTail
  <2> QED BY <2>1, <2>2 DEF Reached
<1>3. CASE Takes
  <2>1. /\ batch = <<>> /\ responses # <<>> /\ responses' = Tail(responses)
        /\ batch' = IF responses[1].kind = "events" THEN responses[1].events ELSE <<>>
    BY <1>3 DEF Takes
  <2>2. /\ 1 \in 1..Len(responses) /\ Len(responses') = Len(responses) - 1
        /\ \A i \in 1..Len(responses') : responses'[i] = responses[i + 1] /\ i + 1 \in 1..Len(responses)
    BY <1>0, <2>1, TailFacts
  <2>3. batch' # <<>> => n <= batch'[Len(batch')].id BY <2>1, <2>2 DEF Reached, Filled, LastOf
  <2>4. \A k \in 1..Len(responses') : Filled(responses'[k]) => n <= LastOf(responses'[k])
    BY <2>2 DEF Reached
  <2> QED BY <2>3, <2>4 DEF Reached
<1>4. ASSUME NEW r \in Response, Gives(r) PROVE Reached(n)'
  <2>1. responses' = Append(responses, r) /\ batch' = batch /\ NewAnswer(r) BY <1>4 DEF Gives
  <2>2. \A k \in 1..Len(responses') :
           \/ k \in 1..Len(responses) /\ responses'[k] = responses[k]
           \/ responses'[k] = r
    BY <1>0, <2>1
  <2>3. Filled(r) => n <= LastOf(r)
    <3>1. Filled(r) => LastOf(r) = Len(log) BY <2>1, GivenFacts
    <3>2. n <= Len(log) BY <1>0
    <3> QED BY <3>1, <3>2
  <2>4. \A k \in 1..Len(responses') : Filled(responses'[k]) => n <= LastOf(responses'[k])
    BY <2>2, <2>3 DEF Reached
  <2> QED BY <2>1, <2>4 DEF Reached
<1> QED BY <1>1, <1>2, <1>3, <1>4, StreamShapes

\* Only the three handlers of processEvent() visit an event.
LEMMA VisitActs ==
  ASSUME DataOK, [Next]_vars, Visits
  PROVE  /\ batch[1].what = "status" => StatusEvent
         /\ batch[1].what = "changed" => OrderChangedEvent
         /\ batch[1].what = "created" => OrderCreatedEvent
<1> USE DEF pollVars
<1>0. batch # <<>> /\ batch' = Tail(batch) /\ batch \in Seq(Event) BY DEF Visits, DataOK
<1>1. batch' # batch /\ Head(batch) = batch[1]
  <2>1. Len(Tail(batch)) = Len(batch) - 1 /\ Len(batch) \in Nat /\ Head(batch) = batch[1]
    BY <1>0, TailFacts
  <2>2. \A n \in Nat : n - 1 # n OBVIOUS
  <2> QED BY <1>0, <2>1, <2>2
<1>2. StatusEvent \/ OrderChangedEvent \/ OrderCreatedEvent
  <2>1. CASE Display \/ Poll \/ checkTimers
    BY <1>1, <2>1 DEF Display, handleChooseTRK, ForgetDispenser, createOrder, handleBasicTouch,
                CloseOrderButton, BeginFuelling, CancelTransactionButton, Poll, checkTimers
  <2>2. CASE Core
    BY <1>0, <2>2 DEF Core, EventsAnswer, StatusWithoutOrder, StatusOfDeadOrder, StatusOfOrder,
                ParametersWithoutTask, ParametersBefore, ParametersAfter, LowVolumeAnswer,
                Handling, CoreIdle
  <2>3. CASE CardTerminal
    BY <1>1, <2>3 DEF CardTerminal, PaymentSuccess, PaymentFailure, ConfirmAnswer, CancelAnswer
  <2>4. CASE Controller
    BY <1>1, <2>4 DEF Controller, ServeEvents, ServeStatus, ServeParameters, ServeCreate,
                ServeAuthorize, ServeClose, RequestFails, Answer, Acknowledge, LiftNozzle, HangNozzle,
                StartFuelling, Deliver, Interrupt, Forecourt
  <2>5. CASE UNCHANGED vars BY <1>1, <2>5 DEF vars
  <2> QED BY <2>1, <2>2, <2>3, <2>4, <2>5 DEF Next
<1> QED BY <1>1, <1>2 DEF StatusEvent, OrderChangedEvent, OrderCreatedEvent, Visit

\* Each of them visits the first event that waits.
LEMMA ActVisits ==
  ASSUME DataOK, StatusEvent \/ OrderChangedEvent \/ OrderCreatedEvent
  PROVE  Visits /\ Head(batch) = batch[1]
<1> USE DEF srvVars
<1>1. /\ batch # <<>> /\ batch' = Tail(batch) /\ last_event' = Head(batch).id
      /\ UNCHANGED <<responses, log>>
  BY DEF StatusEvent, OrderChangedEvent, OrderCreatedEvent, Visit
<1> QED BY <1>1, TailFacts DEF Visits, DataOK

\* The event a visit of order_created is about.
LEMMA CreatedPlace ==
  ASSUME DataOK, StreamInv, OrderCreatedEvent, NEW d, NEW o, d = Head(batch).dev, o = Head(batch).order
  PROVE  CreatedAt(batch[1].id, o, d) /\ Visits
<1>1. Visits /\ Head(batch) = batch[1] BY ActVisits
<1>2. batch # <<>> /\ Head(batch).what = "created" BY DEF OrderCreatedEvent, Visit
<1>3. batch[1].id \in 1..Len(log) /\ batch[1] = log[batch[1].id] BY <1>2, BatchFacts
<1> QED BY <1>1, <1>2, <1>3 DEF CreatedAt, Created

\* The order_created event of an order without a record is still to be visited; the
\* events on their way reach up to that of an order with one.
VisitInv ==
  \A o \in Orders :
    /\ records[o] >= 1 => \E c \in 1..Len(log), d \in Dispensers : CreatedAt(c, o, d)
    /\ \A d \in Dispensers, c \in 1..Len(log) :
         CreatedAt(c, o, d) => /\ records[o] = 0 /\ o \notin untimely => NotYet(c)
                               /\ records[o] >= 1 => Reached(c)

\* An order was created in one place of the journal, for one dispenser.
LEMMA OnePlace ==
  ASSUME JournalInv, NEW o, NEW b, NEW c, NEW d, NEW e, CreatedAt(b, o, c), CreatedAt(d, o, e)
  PROVE  b = d /\ c = e
BY DEF JournalInv, CreatedOnce, CreatedAt

\* Visiting order_created records the order; no step goes back behind it.
LEMMA VisitStep ==
  ASSUME DataOK, DataOK', JournalInv, JournalInv', Grown, StreamInv, VisitInv, [Next]_vars
  PROVE  VisitInv'
<1>r. records \in [Orders -> Nat] /\ records' \in [Orders -> Nat] BY DEF DataOK
<1>u. untimely \subseteq untimely' BY HistoriesGrow
<1>n. Numbered BY DEF JournalInv
<1>l. Len(log) \in Nat /\ Len(log') \in Nat BY DEF DataOK
\* The visit that writes a record.
<1>1. ASSUME NEW o \in Orders, records'[o] # records[o]
      PROVE  /\ OrderCreatedEvent /\ records'[o] > records[o] /\ Visits
             /\ \E d \in Dispensers : CreatedAt(batch[1].id, o, d)
  <2>1. OrderCreatedEvent BY <1>1, RecordsRest
  <2>2. PICK d, p : d = Head(batch).dev /\ p = Head(batch).order OBVIOUS
  <2>3. /\ d \in Dispensers /\ p \in Orders /\ records'[p] >= records[p]
        /\ \A q \in Orders : q # p => records'[q] = records[q]
    BY <2>1, <2>2, CreatedVisit
  <2>4. CreatedAt(batch[1].id, p, d) /\ Visits BY <2>1, <2>2, CreatedPlace
  <2>5. p = o BY <1>1, <2>3
  <2> QED BY <1>1, <1>r, <2>1, <2>3, <2>4, <2>5
<1>2. ASSUME NEW o \in Orders, records'[o] >= 1
      PROVE  \E c \in 1..Len(log), d \in Dispensers : CreatedAt(c, o, d)
  <2>1. CASE records[o] >= 1 BY <2>1 DEF VisitInv
  <2>2. CASE ~(records[o] >= 1)
    <3>1. PICK d \in Dispensers : CreatedAt(batch[1].id, o, d) BY <1>1, <1>2, <2>2
    <3> QED BY <3>1 DEF CreatedAt
  <2> QED BY <2>1, <2>2
<1>3. ASSUME NEW o \in Orders, records'[o] >= 1
      PROVE  \E c \in 1..Len(log'), d \in Dispensers : CreatedAt(c, o, d)'
  <2>1. PICK c \in 1..Len(log), d \in Dispensers : CreatedAt(c, o, d) BY <1>2, <1>3
  <2>2. c \in 1..Len(log') /\ CreatedAt(c, o, d)' BY <2>1, OldPlaces
  <2> QED BY <2>2
<1>4. ASSUME NEW o \in Orders, NEW d \in Dispensers, NEW c \in 1..Len(log'), CreatedAt(c, o, d)'
      PROVE  /\ records'[o] = 0 /\ o \notin untimely' => NotYet(c)'
             /\ records'[o] >= 1 => Reached(c)'
  <2>1. CASE c \notin 1..Len(log)
    <3>1. log' # log BY <2>1
    <3>2. Rest BY <3>1, StreamShapes DEF Visits, Takes, Gives
    <3>3. c \in Nat /\ c > Len(log) BY <1>l, <2>1
    <3>4. NotYet(c)' BY <3>2, <3>3, NotYetNew
    <3>5. ASSUME records'[o] >= 1 PROVE FALSE
      <4>1. PICK e \in 1..Len(log), b \in Dispensers : CreatedAt(e, o, b) BY <1>2, <3>5
      <4>2. e \in 1..Len(log') /\ CreatedAt(e, o, b)' BY <4>1, OldPlaces
      <4>3. e = c BY <1>4, <4>2 DEF JournalInv, CreatedOnce, CreatedAt
      <4> QED BY <2>1, <4>3
    <3> QED BY <3>4, <3>5
  <2>2. CASE c \in 1..Len(log)
    <3>1. CreatedAt(c, o, d) /\ c \in Nat BY <1>4, <2>2, OldPlaces
    <3>2. ASSUME records'[o] = 0, o \notin untimely' PROVE NotYet(c)'
      <4>1. records[o] = 0 /\ o \notin untimely BY <1>1, <1>r, <1>u, <3>2
      <4>2. NotYet(c) BY <2>2, <3>1, <4>1 DEF VisitInv
      <4>3. ASSUME Visits, batch[1].id = c PROVE FALSE
        <5>1. batch # <<>> BY <4>3 DEF Visits
        <5>2. batch[1] = log[c] /\ batch[1] = Head(batch) BY <4>3, <5>1, BatchFacts
        <5>3. batch[1].what = "created" /\ Head(batch).order = o BY <3>1, <5>2 DEF CreatedAt, Created
        <5>4. OrderCreatedEvent BY <4>3, <5>3, VisitActs
        <5>5. PICK b, p : b = Head(batch).dev /\ p = Head(batch).order OBVIOUS
        <5>6. p = o BY <5>3, <5>5
        <5>7. records' = [records EXCEPT ![o] = @ + 1] BY <3>2, <5>4, <5>5, <5>6, CreatedVisit
        <5> QED BY <1>r, <3>2, <4>1, <5>7
      <4> QED BY <1>n, <3>1, <4>2, <4>3, NotYetStays
    <3>3. ASSUME records'[o] >= 1 PROVE Reached(c)'
      <4>1. CASE records[o] >= 1
        <5>1. Reached(c) BY <2>2, <3>1, <4>1 DEF VisitInv
        <5> QED BY <1>n, <2>2, <5>1, ReachedStays
      <4>2. CASE ~(records[o] >= 1)
        <5>1. PICK b \in Dispensers : CreatedAt(batch[1].id, o, b) BY <1>1, <3>3, <4>2
        <5>2. batch[1].id = c BY <3>1, <5>1, OnePlace
        <5>3. Visits BY <1>1, <3>3, <4>2
        <5>4. /\ batch # <<>> /\ batch' = Tail(batch) /\ responses' = responses
              /\ batch \in Seq(Event) /\ log \in Seq(Event) /\ StretchOf(batch, log)
          BY <5>3 DEF Visits, DataOK, StreamInv
        <5>5. batch' # <<>> => batch'[Len(batch')].id = batch[Len(batch)].id BY <5>4, StretchTail
        <5>6. c <= batch[Len(batch)].id /\ batch[Len(batch)].id \in 1..Len(log)
          BY <5>2, <5>4, BatchFacts
        <5>7. \A k \in 1..Len(responses) : Filled(responses[k]) =>
                 batch[Len(batch)].id <= LastOf(responses[k]) /\ LastOf(responses[k]) \in 1..Len(log)
          BY <5>4, AnswerFacts DEF StreamInv
        <5>8. \A k \in 1..Len(responses) : Filled(responses[k]) => c <= LastOf(responses[k])
          BY <1>l, <3>1, <5>6, <5>7
        <5> QED BY <5>4, <5>5, <5>6, <5>8 DEF Reached
      <4> QED BY <4>1, <4>2
    <3> QED BY <3>2, <3>3
  <2> QED BY <2>1, <2>2
<1> QED BY <1>3, <1>4 DEF VisitInv

-----------------------------------------------------------------------------
(* How many messages are ahead of a place in a queue.                      *)

\* How often m is ahead of place j.
CountBefore(s, j, m) == Cardinality({i \in 1..(j - 1) : s[i] = m})

LEMMA CountBeforeNat ==
  ASSUME NEW s, NEW j \in Nat, NEW m
  PROVE  IsFiniteSet({i \in 1..(j - 1) : s[i] = m}) /\ CountBefore(s, j, m) \in Nat
<1>1. IsFiniteSet(1..(j - 1)) BY FS_Interval
<1>2. {i \in 1..(j - 1) : s[i] = m} \in SUBSET (1..(j - 1)) OBVIOUS
<1>3. IsFiniteSet({i \in 1..(j - 1) : s[i] = m}) BY <1>1, <1>2, FS_Subset
<1> QED BY <1>3, FS_CardinalityType DEF CountBefore

LEMMA CountBeforeEnds ==
  ASSUME NEW S, NEW s \in Seq(S), NEW m
  PROVE  CountBefore(s, 1, m) = 0 /\ CountBefore(s, Len(s) + 1, m) = CountOf(s, m)
<1>1. {i \in 1..(1 - 1) : s[i] = m} = {} OBVIOUS
<1>2. Len(s) + 1 - 1 = Len(s) OBVIOUS
<1> QED BY <1>1, <1>2, FS_EmptySet DEF CountBefore, CountOf

\* What comes later is not ahead.
LEMMA CountBeforeConcat ==
  ASSUME NEW S, NEW s \in Seq(S), NEW t \in Seq(S), NEW j \in 1..(Len(s) + 1), NEW m
  PROVE  CountBefore(s \o t, j, m) = CountBefore(s, j, m)
<1>1. \A i \in 1..(j - 1) : i \in 1..Len(s) OBVIOUS
<1>2. \A i \in 1..Len(s) : (s \o t)[i] = s[i] OBVIOUS
<1>3. {i \in 1..(j - 1) : (s \o t)[i] = m} = {i \in 1..(j - 1) : s[i] = m} BY <1>1, <1>2
<1> QED BY <1>3 DEF CountBefore

\* When the first message is taken, one less may be ahead.
LEMMA CountBeforeTail ==
  ASSUME NEW S, NEW s \in Seq(S), s # <<>>, NEW j \in 1..Len(s), NEW m
  PROVE  /\ CountBefore(Tail(s), j, m) + 1 >= CountBefore(s, j + 1, m)
         /\ Head(s) # m => CountBefore(Tail(s), j, m) >= CountBefore(s, j + 1, m)
<1> DEFINE I == {i \in 1..((j + 1) - 1) : s[i] = m}
           K == {i \in 1..(j - 1) : Tail(s)[i] = m}
           J == I \ {1}
           f == [i \in J |-> i - 1]
<1>1. /\ Len(Tail(s)) = Len(s) - 1 /\ Len(s) \in Nat /\ s[1] = Head(s) /\ j \in Nat
      /\ \A i \in 1..Len(s) - 1 : Tail(s)[i] = s[i + 1]
  BY TailFacts
<1>2. IsFiniteSet(I) /\ IsFiniteSet(K) /\ Cardinality(I) \in Nat /\ Cardinality(K) \in Nat
  <2>1. PICK k \in Nat : k = j + 1 BY <1>1
  <2>2. IsFiniteSet({i \in 1..(k - 1) : s[i] = m}) BY CountBeforeNat
  <2>3. IsFiniteSet(I) BY <2>1, <2>2
  <2>4. IsFiniteSet(1..(j - 1)) BY FS_Interval
  <2>5. K \in SUBSET (1..(j - 1)) OBVIOUS
  <2> HIDE DEF I, K
  <2>6. IsFiniteSet(K) BY <2>4, <2>5, FS_Subset
  <2> QED BY <2>3, <2>6, FS_CardinalityType
<1>3. ASSUME NEW i \in J PROVE i - 1 \in K
  <2>1. i \in 1..j /\ i # 1 /\ s[i] = m BY <1>1
  <2>2. i - 1 \in 1..(j - 1) /\ i - 1 \in 1..Len(s) - 1 /\ (i - 1) + 1 = i BY <1>1, <2>1
  <2>3. Tail(s)[i - 1] = s[i] BY <1>1, <2>2
  <2> QED BY <2>1, <2>2, <2>3
<1>4. f \in [J -> K] BY <1>3
<1>5. \A i, k \in J : f[i] = f[k] => i = k BY <1>1
<1>6. f \in Injection(J, K) BY <1>4, <1>5 DEF Injection, IsInjective
<1> HIDE DEF f
<1>7. Cardinality(J) <= Cardinality(K) BY <1>2, <1>6, FS_Injection
<1>8. Cardinality(J) = IF 1 \in I THEN Cardinality(I) - 1 ELSE Cardinality(I)
  BY <1>2, FS_RemoveElement
<1>9. 1 \in I => Head(s) = m BY <1>1
<1>10. CountBefore(s, j + 1, m) = Cardinality(I) /\ CountBefore(Tail(s), j, m) = Cardinality(K)
  BY DEF CountBefore
<1> HIDE DEF I, J, K
<1> QED BY <1>2, <1>7, <1>8, <1>9, <1>10

-----------------------------------------------------------------------------
(* The tasks of a gauge.                                                   *)

\* The task of the reading before the fuelling; a queue that stays, or gets a task.
Before(o) == [order |-> o, task |-> "BEFORE"]

Keeps(g) == gauge_queue'[g] = gauge_queue[g]
Adds(g, m) == gauge_queue'[g] = Append(gauge_queue[g], m)

\* A step that queues a task for the reading before, or for the one after the fuelling
\* of the order of e: when it is cancelled, when its nozzle is hung up, or when it is
\* found delivered with the nozzle back.
AddsBefore(g, e) ==
  /\ e \in Dispensers /\ OrderChangedEvent /\ Head(batch).dev = e
  /\ g = GaugeOf[e] /\ Adds(g, Before(orders[e].id))

HangsUp(e) ==
  /\ StatusEvent /\ Head(batch).dev = e /\ Head(batch).status = "IDLE"
  /\ orders[e].id \in Orders /\ confirms[orders[e].id] >= 1

FoundDelivered(e) ==
  /\ StatusOfOrder /\ Head(responses).dev = e /\ Head(responses).order = orders[e].id
  /\ Head(responses).ostatus \in Finished /\ orders[e].closed /\ orders[e].id \in Orders

AddsAfter(g, e) ==
  /\ e \in Dispensers /\ ~OrderCreatedEvent
  /\ g = GaugeOf[e] /\ Adds(g, After(orders[e].id))
  /\ orders[e].id \in cancelled' \/ HangsUp(e) \/ FoundDelivered(e)

\* A reading is given to the first task.
Pops(g) ==
  /\ responses # <<>> /\ Head(responses) = Reading(g) /\ responses' = Tail(responses)
  /\ batch = <<>> /\ gauge_queue[g] # <<>>
  /\ LET t == Head(gauge_queue[g])
     IN  \/ /\ t.task = "BEFORE" /\ gauge_queue'[g] = Tail(gauge_queue[g])
            /\ t.order \in DOMAIN sales => t.order \in DOMAIN sales' /\ sales'[t.order].before
         \/ t.task = "AFTER" /\ gauge_queue'[g] \in {<<>>, Tail(gauge_queue[g])}

\* A task is queued for one gauge.
LEMMA PushedAt ==
  ASSUME DataOK, NEW h \in Gauges \cup {NoGauge}, NEW o, NEW t,
         gauge_queue' = PushTask(gauge_queue, h, o, t), NEW g \in Gauges
  PROVE  /\ g # h => Keeps(g)
         /\ g = h => Adds(g, [order |-> o, task |-> t])
BY DEF PushTask, DataOK, Keeps, Adds

\* handleImmediatelyCancelTransaction() queues a task for the order it cancels.
LEMMA CancelShapes ==
  ASSUME DataOK, ImmediatelyCancelTransaction, ~OrderCreatedEvent, NEW g \in Gauges
  PROVE  Keeps(g) \/ \E e : AddsAfter(g, e)
<1>1. CASE gauge_queue' = gauge_queue BY <1>1 DEF Keeps
<1>2. CASE gauge_queue' # gauge_queue
  <2>1. PICK e, o, h : e = current /\ o = orders[e].id /\ h = GaugeOf[e] OBVIOUS
  <2>2. /\ e # None /\ cancelled' = cancelled \cup {o}
        /\ gauge_queue' = PushTask(gauge_queue, h, o, "AFTER")
    BY <1>2, <2>1 DEF ImmediatelyCancelTransaction
  <2>3. e \in Dispensers /\ h \in Gauges BY <2>1, <2>2, GaugeIds DEF DataOK
  <2>4. CASE g = h
    <3>1. Adds(g, After(o)) BY <2>2, <2>3, <2>4, PushedAt DEF After
    <3>2. AddsAfter(g, e) BY <2>1, <2>2, <2>3, <2>4, <3>1 DEF AddsAfter
    <3> QED BY <3>2
  <2>5. CASE g # h BY <2>2, <2>3, <2>5, PushedAt
  <2> QED BY <2>4, <2>5
<1> QED BY <1>1, <1>2

\* What a step does to the tasks of a gauge.
LEMMA QueueShapes ==
  ASSUME DataOK, SalesOK, FinalInv, [Next]_vars, NEW g \in Gauges
  PROVE  Keeps(g) \/ (\E e : AddsBefore(g, e)) \/ (\E e : AddsAfter(g, e)) \/ Pops(g)
<1> USE DEF logicVars
<1>1. ASSUME gauge_queue' = gauge_queue PROVE Keeps(g) BY <1>1 DEF Keeps
<1>2. CASE Display \/ Poll \/ checkTimers
  <2>1. CASE CancelTransactionButton
    <3>1. ~OrderCreatedEvent
      BY <2>1 DEF CancelTransactionButton, Touch, CoreIdle, OrderCreatedEvent, Visit
    <3> QED BY <2>1, <3>1, CancelShapes DEF CancelTransactionButton
  <2>2. CASE ~CancelTransactionButton
    <3>1. gauge_queue' = gauge_queue
      BY <1>2, <2>2 DEF Display, handleChooseTRK, ForgetDispenser, createOrder, handleBasicTouch,
                        CloseOrderButton, BeginFuelling, Poll, checkTimers
    <3> QED BY <1>1, <3>1
  <2> QED BY <2>1, <2>2
<1>3. CASE CardTerminal \/ Controller \/ UNCHANGED vars
  <2>1. gauge_queue' = gauge_queue
    BY <1>3 DEF CardTerminal, PaymentSuccess, PaymentFailure, ConfirmAnswer, CancelAnswer, vars,
                Controller, ServeEvents, ServeStatus, ServeParameters, ServeCreate,
                ServeAuthorize, ServeClose, RequestFails, Answer, Acknowledge, LiftNozzle, HangNozzle,
                StartFuelling, Deliver, Interrupt, Forecourt
  <2> QED BY <1>1, <2>1
<1>4. CASE \/ EventsAnswer \/ ParametersWithoutTask \/ OrderCreatedEvent
           \/ StatusWithoutOrder \/ StatusOfDeadOrder
  <2>1. gauge_queue' = gauge_queue
    BY <1>4 DEF EventsAnswer, ParametersWithoutTask, OrderCreatedEvent, StatusWithoutOrder,
                StatusOfDeadOrder
  <2> QED BY <1>1, <2>1
<1>5. CASE LowVolumeAnswer
  <2>1. ~OrderCreatedEvent
    BY <1>5 DEF LowVolumeAnswer, Handling, CoreIdle, OrderCreatedEvent, Visit
  <2> QED BY <1>5, <2>1, CancelShapes DEF LowVolumeAnswer
<1>6. CASE OrderChangedEvent
  <2>1. PICK d, o, h : /\ d = Head(batch).dev /\ o = orders[d].id
                       /\ h = getLevelGaugeId(d, orders[d].product)
    OBVIOUS
  <2>2. d \in Dispensers BY <1>6, <2>1, FrontTypes DEF OrderChangedEvent, Visit
  <2>3. h \in Gauges \cup {NoGauge} /\ (h \in Gauges => h = GaugeOf[d])
    BY <2>1, <2>2, PrimeNames DEF getLevelGaugeId
  <2>4. gauge_queue' = gauge_queue \/ gauge_queue' = PushTask(gauge_queue, h, o, "BEFORE")
    BY <1>6, <2>1 DEF OrderChangedEvent
  <2>5. CASE gauge_queue' = PushTask(gauge_queue, h, o, "BEFORE")
    <3>1. CASE g = h
      <4>1. Adds(g, Before(o)) BY <2>3, <2>5, <3>1, PushedAt DEF Before
      <4>2. AddsBefore(g, d) BY <1>6, <2>1, <2>2, <2>3, <3>1, <4>1 DEF AddsBefore
      <4> QED BY <4>2
    <3>2. CASE g # h BY <2>3, <2>5, <3>2, PushedAt
    <3> QED BY <3>1, <3>2
  <2> QED BY <1>1, <2>4, <2>5
<1>7. CASE StatusEvent
  <2>1. PICK d : d = Head(batch).dev OBVIOUS
  <2> DEFINE e == Head(batch)
             known == disp[d].product \/ e.status # "IDLE"
             back == e.status = "IDLE" /\ disp[d].status \in {"COMPLETE", "FUELLING"}
             report == SendsEnd(d, back)
  <2>2. PICK h, o : h = getLevelGaugeId(d, known) /\ o = disp[d].order_id OBVIOUS
  <2>3. d \in Dispensers /\ ~OrderCreatedEvent
    BY <1>7, <2>1, FrontTypes DEF StatusEvent, Visit, OrderCreatedEvent
  <2>4. h \in Gauges \cup {NoGauge} /\ (h \in Gauges => h = GaugeOf[d])
    BY <2>2, <2>3, PrimeNames DEF getLevelGaugeId
  <2>5. gauge_queue' = IF report THEN PushTask(gauge_queue, h, o, "AFTER") ELSE gauge_queue
    BY <1>7, <2>1, <2>2 DEF StatusEvent
  <2>6. report => orders[d].finalized /\ e.status = "IDLE" BY DEF SendsEnd
  <2> HIDE DEF report
  <2>7. CASE report
    <3>1. gauge_queue' = PushTask(gauge_queue, h, o, "AFTER") BY <2>5, <2>7
    <3>2. orders[d].id \in Orders /\ o = orders[d].id /\ confirms[orders[d].id] >= 1
      BY <2>2, <2>3, <2>6, <2>7 DEF FinalInv
    <3>3. CASE g = h
      <4>1. Adds(g, After(o)) BY <2>4, <3>1, <3>3, PushedAt DEF After
      <4>2. HangsUp(d) BY <1>7, <2>1, <2>6, <2>7, <3>2 DEF HangsUp
      <4>3. AddsAfter(g, d) BY <2>3, <2>4, <3>2, <3>3, <4>1, <4>2 DEF AddsAfter
      <4> QED BY <4>3
    <3>4. CASE g # h BY <2>4, <3>1, <3>4, PushedAt
    <3> QED BY <3>3, <3>4
  <2> QED BY <1>1, <2>5, <2>7
<1>8. CASE StatusOfOrder
  <2>1. PICK r : r = Head(responses) OBVIOUS
  <2>2. r \in Response /\ r.dev \in Dispensers /\ r.order \in Orders /\ orders[r.dev].id = r.order
    BY <1>8, <2>1, OrderAnswered
  <2> DEFINE e == [Observed(r) EXCEPT !.status = r.ostatus]
  <2>3. orders[r.dev] \in DatabaseOrder BY <2>2 DEF DataOK
  <2>4. /\ e.id = r.order /\ e.status = r.ostatus /\ e.closed = orders[r.dev].closed
        /\ e.product \in BOOLEAN
    BY <2>2, <2>3 DEF Observed, DatabaseOrder
  <2>5. processOrderFinalization(r.dev, e) /\ ~OrderCreatedEvent
    BY <1>8, <2>1 DEF StatusOfOrder, Handling, CoreIdle, OrderCreatedEvent, Visit
  <2> HIDE DEF e
  <2>6. PICK h : h = getLevelGaugeId(r.dev, e.product) OBVIOUS
  <2>7. h \in Gauges \cup {NoGauge} /\ (h \in Gauges => h = GaugeOf[r.dev])
    BY <2>2, <2>6, PrimeNames DEF getLevelGaugeId
  <2>8. \/ gauge_queue' = gauge_queue
        \/ /\ gauge_queue' = PushTask(gauge_queue, h, e.id, "AFTER")
           /\ e.closed /\ e.status \in Finished
    BY <2>5, <2>6 DEF processOrderFinalization, Finalizes
  <2>9. CASE /\ gauge_queue' = PushTask(gauge_queue, h, e.id, "AFTER")
             /\ e.closed /\ e.status \in Finished
    <3>1. FoundDelivered(r.dev) BY <1>8, <2>1, <2>2, <2>4, <2>9 DEF FoundDelivered
    <3>2. CASE g = h
      <4>1. Adds(g, After(e.id)) BY <2>7, <2>9, <3>2, PushedAt DEF After
      <4>2. AddsAfter(g, r.dev) BY <2>2, <2>4, <2>5, <2>7, <3>1, <3>2, <4>1 DEF AddsAfter
      <4> QED BY <4>2
    <3>3. CASE g # h BY <2>7, <2>9, <3>3, PushedAt
    <3> QED BY <3>2, <3>3
  <2> QED BY <1>1, <2>8, <2>9
<1>9. CASE ParametersBefore \/ ParametersAfter
  <2>1. PICK h, q : h = Head(responses).gauge /\ q = gauge_queue[h] OBVIOUS
  <2>2. /\ responses # <<>> /\ Head(responses).kind = "parameters" /\ q # <<>> /\ batch = <<>>
        /\ responses' = Tail(responses)
    BY <1>9, <2>1 DEF ParametersBefore, ParametersAfter, Handling, CoreIdle, Taken
  <2>3. h \in Gauges /\ Head(responses) = Reading(h)
    BY <2>1, <2>2, FrontTypes, Responses DEF Reading
  <2>4. q \in Seq(PendingGaugeTask) /\ Head(q) \in PendingGaugeTask BY <2>1, <2>2, <2>3 DEF DataOK
  <2>5. gauge_queue' = [gauge_queue EXCEPT ![h] = <<>>] \/ gauge_queue' = [gauge_queue EXCEPT ![h] = Tail(q)]
    BY <1>9, <2>1 DEF ParametersBefore, ParametersAfter
  <2>6. CASE g # h BY <2>3, <2>5, <2>6 DEF DataOK, Keeps
  <2>7. CASE g = h
    <3>1. gauge_queue'[g] \in {<<>>, Tail(q)} BY <2>3, <2>5, <2>7 DEF DataOK
    <3>2. CASE ParametersAfter
      <4>1. Head(q).task = "AFTER" BY <2>1, <3>2 DEF ParametersAfter
      <4> QED BY <2>1, <2>2, <2>3, <2>7, <3>1, <4>1 DEF Pops
    <3>3. CASE ParametersBefore
      <4>1. /\ Head(q).task = "BEFORE" /\ gauge_queue' = [gauge_queue EXCEPT ![h] = Tail(q)]
            /\ sales' = IF Head(q).order \in DOMAIN sales
                          THEN [sales EXCEPT ![Head(q).order].before = TRUE] ELSE sales
        BY <2>1, <3>3 DEF ParametersBefore
      <4>2. gauge_queue'[g] = Tail(q) BY <2>3, <2>7, <4>1 DEF DataOK
      <4>3. ASSUME NEW o, o = Head(q).order, o \in DOMAIN sales
            PROVE  o \in DOMAIN sales' /\ sales'[o].before
        <5>1. sales[o] \in SalesData BY <4>3 DEF SalesOK
        <5>2. sales'[o] = [sales[o] EXCEPT !.before = TRUE] /\ o \in DOMAIN sales' BY <4>1, <4>3
        <5> QED BY <5>1, <5>2 DEF SalesData
      <4> QED BY <2>1, <2>2, <2>3, <2>7, <4>1, <4>2, <4>3 DEF Pops
    <3> QED BY <1>9, <3>2, <3>3
  <2> QED BY <2>6, <2>7
<1> QED BY <1>2, <1>3, <1>4, <1>5, <1>6, <1>7, <1>8, <1>9 DEF Next, Core

\* A reading that is taken goes to the first task of its gauge, if there is one.
LEMMA ReadingTaken ==
  ASSUME DataOK, SalesOK, FinalInv, [Next]_vars, NEW g \in Gauges,
         responses # <<>>, Head(responses) = Reading(g), responses' = Tail(responses)
  PROVE  Pops(g) \/ (gauge_queue[g] = <<>> /\ gauge_queue'[g] = <<>>)
<1>1. Head(responses).kind = "parameters" /\ Head(responses).gauge = g BY DEF Reading
<1>2. responses' # responses
  <2>1. Len(Tail(responses)) = Len(responses) - 1 /\ Len(responses) \in Nat
    BY TailFacts DEF DataOK
  <2>2. \A n \in Nat : n - 1 # n OBVIOUS
  <2> QED BY <2>1, <2>2
<1>3. ParametersWithoutTask \/ ParametersBefore \/ ParametersAfter
  <2> USE DEF pollVars
  <2>1. CASE Display \/ Poll \/ checkTimers
    BY <1>2, <2>1 DEF Display, handleChooseTRK, ForgetDispenser, createOrder, handleBasicTouch,
                CloseOrderButton, BeginFuelling, CancelTransactionButton, Poll, checkTimers,
                Touch, Called
  <2>2. CASE Core
    BY <1>1, <1>2, <2>2 DEF Core, EventsAnswer, StatusEvent, OrderChangedEvent, OrderCreatedEvent,
                StatusWithoutOrder, StatusOfDeadOrder, StatusOfOrder, LowVolumeAnswer, Handling
  <2>3. CASE CardTerminal
    BY <1>2, <2>3 DEF CardTerminal, PaymentSuccess, PaymentFailure, ConfirmAnswer, CancelAnswer, Called
  <2>4. CASE Controller
    <3>1. responses' = responses \/ \E r : responses' = Append(responses, r)
      BY <2>4 DEF Controller, ServeEvents, ServeStatus, ServeParameters, ServeCreate,
                  ServeAuthorize, ServeClose, RequestFails, Answer, Acknowledge, LiftNozzle, HangNozzle,
                  StartFuelling, Deliver, Interrupt, Forecourt
    <3>2. ASSUME NEW r, responses' = Append(responses, r) PROVE FALSE
      <4>1. responses \in Seq(Response) BY DEF DataOK
      <4>2. Len(Tail(responses)) = Len(responses) - 1 /\ Len(responses) \in Nat
        BY <4>1, TailFacts
      <4>3. Len(Append(responses, r)) = Len(responses) + 1 BY <4>1
      <4>4. Len(responses) - 1 = Len(responses) + 1 BY <3>2, <4>2, <4>3
      <4> QED BY <4>2, <4>4
    <3> QED BY <1>2, <3>1, <3>2
  <2>5. CASE UNCHANGED vars BY <1>2, <2>5 DEF vars
  <2> QED BY <2>1, <2>2, <2>3, <2>4, <2>5 DEF Next
<1>4. PICK q : q = gauge_queue[g] OBVIOUS
<1>5. CASE q = <<>>
  BY <1>1, <1>3, <1>4, <1>5 DEF ParametersWithoutTask, ParametersBefore, ParametersAfter, logicVars
<1>6. CASE q # <<>>
  <2>1. gauge_queue' = [gauge_queue EXCEPT ![g] = <<>>] \/ gauge_queue' = [gauge_queue EXCEPT ![g] = Tail(q)]
    BY <1>1, <1>3, <1>4, <1>6 DEF ParametersWithoutTask, ParametersBefore, ParametersAfter
  <2>2. gauge_queue'[g] \in {<<>>, Tail(q)} BY <2>1 DEF DataOK
  <2>3. q \in Seq(PendingGaugeTask) BY <1>4 DEF DataOK
  <2>4. Len(gauge_queue'[g]) < Len(q) /\ Len(q) \in Nat
    <3>1. Len(Tail(q)) = Len(q) - 1 /\ Len(q) \in Nat \ {0} BY <1>6, <2>3, TailFacts
    <3>2. Len(<<>>) = 0 OBVIOUS
    <3>3. Len(Tail(q)) < Len(q) /\ Len(<<>>) < Len(q) BY <3>1, <3>2
    <3> QED BY <2>2, <3>1, <3>3
  <2>5. ASSUME Keeps(g) PROVE FALSE BY <1>4, <2>4, <2>5 DEF Keeps
  <2>6. ASSUME NEW m, Adds(g, m) PROVE FALSE
    <3>1. Len(Append(q, m)) = Len(q) + 1 BY <2>3
    <3> QED BY <1>4, <2>4, <2>6, <3>1 DEF Adds
  <2> QED BY <2>5, <2>6, QueueShapes DEF AddsBefore, AddsAfter
<1> QED BY <1>4, <1>5, <1>6

-----------------------------------------------------------------------------
(* Everything the argument about complete sales rests on.                  *)

Ground ==
  /\ DataOK /\ FailedOK /\ RecordInv /\ ReportInv /\ EveryTaskIsAsked /\ JournalInv
  /\ PayInv /\ PaidInv /\ AnswerInv /\ RecordOnce /\ SaleInv /\ ProductInv /\ ConfirmInv
  /\ StreamInv /\ VisitInv

LEMMA GroundFacts ==
  ASSUME Ground
  PROVE  /\ DataOK /\ LogInv /\ Owned /\ CountInv /\ SalesOK /\ FinalInv /\ AfterInv
         /\ DeliveryReportedOnce /\ EveryTaskIsAsked /\ JournalInv
         /\ PayInv /\ PaidInv /\ AnswerInv /\ RecordOnce /\ SaleInv /\ ProductInv /\ ConfirmInv
         /\ StreamInv /\ VisitInv /\ Numbered /\ RecordInv /\ ReportInv /\ FailedOK
BY DEF Ground, RecordInv, Owned, ReportInv, JournalInv

\* All of it is kept by every step.
LEMMA GroundStep ==
  ASSUME Ground, [Next]_vars
  PROVE  Ground' /\ Grown /\ FailuresKept
<1> USE GroundFacts
<1>1. DataOK' /\ RecordInv' BY RecordsStep
<1>2. ReportInv' BY ReportsStep
<1>3. Grown BY LogStep
<1>4. EveryTaskIsAsked' /\ FailedOK' /\ FailuresKept BY TasksStep, FailuresStep
<1>5. JournalInv' BY JournalStep
<1>6. PayInv' BY PayStep
<1>7. PaidInv' BY PaidStep
<1>8. AnswerInv' BY <1>3, AnswerStep
<1>9. RecordOnce' BY RecordOnceStep
<1>10. SaleInv' BY SaleInvStep
<1>11. ProductInv' BY ProductStep
<1>12. ConfirmInv' BY <1>3, ConfirmInvStep
<1>13. StreamInv' BY <1>1, <1>3, StreamStep
<1>14. VisitInv' BY <1>1, <1>3, <1>5, VisitStep
<1> QED BY <1>1, <1>2, <1>3, <1>4, <1>5, <1>6, <1>7, <1>8, <1>9, <1>10, <1>11, <1>12, <1>13, <1>14
        DEF Ground

LEMMA InitGround == Init => Ground
<1> SUFFICES ASSUME Init PROVE Ground OBVIOUS
<1>1. DataOK /\ FailedOK /\ RecordInv /\ ReportInv /\ EveryTaskIsAsked /\ JournalInv
  BY InitTypes, InitFailed, InitRecords, InitReports, InitTasks, InitJournal
<1>2. Len(<<>>) = 0 /\ ~\E k : k \in 1..0 OBVIOUS
<1>3. log = <<>> /\ batch = <<>> /\ responses = <<>> /\ requests = <<>> BY DEF Init
<1>4. \A o : ~Authorized(o) BY <1>2, <1>3 DEF Authorized
<1>5. PayInv
  <2>1. pay = [o \in Orders |-> "none"] /\ asked = {} BY DEF Init
  <2> QED BY <2>1 DEF PayInv
<1>6. PaidInv BY <1>4 DEF PaidInv
<1>7. AnswerInv BY <1>2, <1>3 DEF AnswerInv, Told
<1>8. \A d \in Dispensers : orders[d].id = NoOrder BY DEF Init, DefaultOrder
<1>9. RecordOnce
  <2>1. \A o \in Orders : records[o] = 0 /\ o \notin asked BY DEF Init
  <2> QED BY <1>8, <2>1, PrimeNames DEF RecordOnce
<1>10. SaleInv BY DEF SaleInv, Init
<1>11. ProductInv BY DEF ProductInv, Init
<1>12. ConfirmInv
  <2>1. \A o \in Orders : confirms[o] = 0 BY DEF Init, OrderOrNone
  <2>2. \A o \in Orders : ~(confirms[o] >= 1) BY <2>1
  <2> QED BY <2>2 DEF ConfirmInv
<1>13. StreamInv
  <2>1. last_event = 0 BY DEF Init
  <2> QED BY <1>2, <1>3, <2>1 DEF StreamInv, StretchOf
<1>14. VisitInv
  <2>1. \A o \in Orders : records[o] = 0 BY DEF Init
  <2> QED BY <1>2, <1>3, <2>1 DEF VisitInv
<1> QED BY <1>1, <1>5, <1>6, <1>7, <1>9, <1>10, <1>11, <1>12, <1>13, <1>14 DEF Ground

\* The reading before the fuelling of o is taken, or will be before any sale of g is sent.
WaitsFirst(o, g) ==
  \E k \in 1..Len(gauge_queue[g]) :
    /\ gauge_queue[g][k] = Before(o)
    /\ \A j \in 1..(k - 1) : gauge_queue[g][j].task = "BEFORE"

Ready(o, g) ==
  reports[o] # <<>> \/ (o \in DOMAIN sales /\ sales[o].before) \/ WaitsFirst(o, g)

\* Of an order that was authorized in time, the reading is not lost.
LEMMA ReadyStays ==
  ASSUME Ground, [Next]_vars, NEW o \in Orders, NEW g \in Gauges, o \notin untimely,
         Authorized(o), Ready(o, g)
  PROVE  Ready(o, g)'
<1>1. DataOK /\ SalesOK /\ FinalInv /\ PayInv /\ PaidInv /\ SaleInv BY GroundFacts
<1>2. o \in asked /\ pay[o] = "paid" BY <1>1, AuthorizedAsked
<1>3. SaleKept(o) /\ ~PaymentFailure(o) BY <1>1, <1>2, SaleMoves DEF PaymentFailure
<1>4. CASE reports[o] # <<>> BY <1>3, <1>4 DEF SaleKept, Ready
<1>5. CASE o \in DOMAIN sales /\ sales[o].before BY <1>3, <1>5 DEF SaleKept, Ready
<1>6. CASE reports[o] = <<>> /\ WaitsFirst(o, g)
  <2>1. o \in DOMAIN sales BY <1>1, <1>2, <1>6 DEF SaleInv
  <2>2. PICK q : q = gauge_queue[g] OBVIOUS
  <2>3. q \in Seq(PendingGaugeTask) BY <1>1, <2>2 DEF DataOK
  <2>4. PICK k \in 1..Len(q) : q[k] = Before(o) /\ \A j \in 1..(k - 1) : q[j].task = "BEFORE"
    BY <1>6, <2>2 DEF WaitsFirst
  <2>5. CASE Keeps(g)
    <3>1. WaitsFirst(o, g)' BY <2>2, <2>4, <2>5 DEF WaitsFirst, Keeps
    <3> QED BY <3>1 DEF Ready
  <2>6. ASSUME NEW m, Adds(g, m) PROVE Ready(o, g)'
    <3>1. PICK t : t = Append(q, m) OBVIOUS
    <3>2. gauge_queue'[g] = t BY <2>2, <2>6, <3>1 DEF Adds
    <3>3. Len(t) = Len(q) + 1 /\ Len(q) \in Nat /\ \A j \in 1..Len(q) : t[j] = q[j] BY <2>3, <3>1
    <3>4. k \in 1..Len(t) /\ t[k] = Before(o) /\ \A j \in 1..(k - 1) : t[j].task = "BEFORE"
      BY <2>4, <3>3
    <3>5. WaitsFirst(o, g)' BY <3>2, <3>4 DEF WaitsFirst
    <3> QED BY <3>5 DEF Ready
  <2>7. CASE Pops(g)
    <3>1. q # <<>> BY <2>2, <2>7 DEF Pops
    <3>2. /\ Len(Tail(q)) = Len(q) - 1 /\ Len(q) \in Nat \ {0} /\ Head(q) = q[1]
          /\ \A j \in 1..Len(q) - 1 : Tail(q)[j] = q[j + 1]
      BY <2>3, <3>1, TailFacts
    <3>3. CASE k = 1
      <4>1. Head(q).task = "BEFORE" /\ Head(q).order = o BY <2>4, <3>2, <3>3 DEF Before
      <4>2. o \in DOMAIN sales' /\ sales'[o].before BY <2>1, <2>2, <2>7, <4>1 DEF Pops
      <4> QED BY <4>2 DEF Ready
    <3>4. CASE k # 1
      <4>1. Head(q).task = "BEFORE" BY <2>4, <3>2, <3>4
      <4>2. gauge_queue'[g] = Tail(q) BY <2>2, <2>7, <4>1 DEF Pops
      <4>3. k - 1 \in 1..Len(q) - 1 /\ (k - 1) + 1 = k BY <2>4, <3>2, <3>4
      <4>4. k - 1 \in 1..Len(Tail(q)) /\ Tail(q)[k - 1] = Before(o) BY <2>4, <3>2, <4>3
      <4>5. ASSUME NEW j \in 1..((k - 1) - 1) PROVE Tail(q)[j].task = "BEFORE"
        <5>1. j \in 1..Len(q) - 1 /\ j + 1 \in 1..(k - 1) BY <2>4, <3>2, <4>3
        <5> QED BY <2>4, <3>2, <5>1
      <4>6. PICK t, n : t = Tail(q) /\ n = k - 1 OBVIOUS
      <4>7. n \in 1..Len(t) /\ t[n] = Before(o) /\ \A j \in 1..(n - 1) : t[j].task = "BEFORE"
        BY <4>4, <4>5, <4>6
      <4>8. WaitsFirst(o, g)' BY <4>2, <4>6, <4>7 DEF WaitsFirst
      <4> QED BY <4>8 DEF Ready
    <3> QED BY <3>3, <3>4
  <2> QED BY <1>1, <2>5, <2>6, <2>7, QueueShapes DEF AddsBefore, AddsAfter
<1> QED BY <1>4, <1>5, <1>6 DEF Ready

-----------------------------------------------------------------------------
(* The record of an order that is under way.                               *)

\* An order the property speaks of, whose order_created event does not wait in batch:
\* it is live when its record is in m_orders.
Clean(o, c) ==
  /\ o \notin cancelled \cup untimely \cup repeated /\ failed[GaugeOf[log[c].dev]] = 0
  /\ \A k \in 1..Len(batch) : batch[k].id # c

Live(o, c, d) == CreatedAt(c, o, d) /\ orders[d].id = o /\ Clean(o, c)

\* The event that creates the record of o is visited.
Starts(o, c, d) ==
  /\ OrderCreatedEvent /\ Visits /\ batch[1].id = c /\ CreatedAt(c, o, d)
  /\ Head(batch).order = o /\ Head(batch).dev = d
  /\ records[o] = 0 /\ o \notin untimely /\ orders'[d].closed = FALSE
  /\ UNCHANGED <<gauge_queue, log, responses>>

\* Such an order was one before the step, or its record starts in it.
LEMMA CleanFrom ==
  ASSUME Ground, [Next]_vars, NEW o \in Orders, NEW d \in Dispensers, NEW c \in Nat,
         CreatedAt(c, o, d), Clean(o, c)'
  PROVE  Clean(o, c) \/ Starts(o, c, d)
<1>1. DataOK /\ StreamInv /\ JournalInv BY GroundFacts
<1>2. o \notin cancelled \cup untimely \cup repeated /\ failed[GaugeOf[log[c].dev]] = 0
  <2>1. o \notin cancelled \cup untimely \cup repeated BY HistoriesGrow DEF Clean
  <2>2. log'[c] = log[c] /\ log[c].dev = d BY GroundStep DEF CreatedAt, Grown
  <2>3. GaugeOf[d] \in Gauges /\ failed'[GaugeOf[d]] = 0 BY <2>2, GaugeIds DEF Clean
  <2>4. failed[GaugeOf[d]] = 0 BY <2>3, GroundStep DEF FailuresKept
  <2> QED BY <2>1, <2>2, <2>4
<1>3. CASE Visits /\ batch[1].id = c
  <2>1. batch[1] = log[c] /\ batch[1] = Head(batch) BY <1>1, <1>3, BatchFacts DEF Visits
  <2>2. batch[1].what = "created" /\ batch[1].order = o /\ batch[1].dev = d
    BY <2>1 DEF CreatedAt, Created
  <2>3. OrderCreatedEvent BY <1>1, <1>3, <2>2, VisitActs
  <2>4. o \notin untimely' BY DEF Clean
  <2>5. /\ records[o] = 0 /\ orders' = [orders EXCEPT ![d] = [DefaultOrder EXCEPT !.id = o]]
        /\ UNCHANGED <<gauge_queue, log, responses>>
    <3>1. d = Head(batch).dev /\ o = Head(batch).order BY <2>1, <2>2
    <3> QED BY <1>1, <2>3, <2>4, <3>1, CreatedVisit
  <2>6. orders'[d].closed = FALSE BY <1>1, <2>5 DEF DataOK, DefaultOrder
  <2> QED BY <1>2, <1>3, <2>1, <2>2, <2>3, <2>5, <2>6 DEF Starts
<1>4. CASE ~(Visits /\ batch[1].id = c)
  <2>1. ASSUME NEW k \in 1..Len(batch), batch[k].id = c PROVE FALSE
    <3>1. \A j \in 1..Len(batch') : batch'[j].id # c BY DEF Clean
    <3>2. batch # <<>>
      <4>1. Len(<<>>) = 0 /\ ~\E j : j \in 1..0 OBVIOUS
      <4> QED BY <2>1, <4>1
    <3>3. batch' # batch BY <2>1, <3>1
    <3>4. Visits
      BY <1>1, <3>2, <3>3, StreamShapes DEF Rest, Takes, Gives
    <3>5. k # 1 BY <1>4, <2>1, <3>4
    <3>6. \E j \in 1..Len(Tail(batch)) : Tail(batch)[j] = batch[k]
      BY <1>1, <3>2, <3>5, StretchTail DEF DataOK, StreamInv
    <3> QED BY <2>1, <3>1, <3>4, <3>6 DEF Visits
  <2> QED BY <1>2, <2>1 DEF Clean
<1> QED BY <1>3, <1>4

LEMMA LiveFrom ==
  ASSUME Ground, Ground', Grown, [Next]_vars, NEW o \in Orders, NEW d \in Dispensers, NEW c \in Nat,
         Live(o, c, d)'
  PROVE  /\ CreatedAt(c, o, d)
         /\ Starts(o, c, d) \/ (Live(o, c, d) /\ (OrderCreatedEvent => orders'[d] = orders[d]))
<1>1. /\ DataOK /\ StreamInv /\ JournalInv /\ Owned /\ JournalInv'
  BY GroundFacts DEF Ground
<1>2. CreatedAt(c, o, d)' /\ Clean(o, c)' /\ orders'[d].id = o BY DEF Live
<1>3. CASE OrderCreatedEvent
  <2>1. PICK e, p : e = Head(batch).dev /\ p = Head(batch).order OBVIOUS
  <2>2. /\ log' = log /\ \A x \in Dispensers : x # e => orders'[x] = orders[x]
        /\ orders'[e] = orders[e] \/ orders'[e] = [DefaultOrder EXCEPT !.id = p]
        /\ p \in Orders
    BY <1>1, <1>3, <2>1, CreatedVisit
  <2>3. CreatedAt(c, o, d) BY <1>2, <2>2 DEF CreatedAt, Created
  <2>4. Clean(o, c) \/ Starts(o, c, d) BY <1>2, <2>3, CleanFrom
  <2>5. ASSUME Clean(o, c), orders'[d] # orders[d] PROVE Starts(o, c, d)
    <3>1. e = d /\ orders'[d] = [DefaultOrder EXCEPT !.id = p] BY <2>2, <2>5
    <3>2. p = o BY <1>2, <3>1 DEF DefaultOrder
    <3>3. CreatedAt(batch[1].id, o, d) /\ Visits BY <1>1, <1>3, <2>1, <3>1, <3>2, CreatedPlace
    <3>4. batch[1].id = c BY <1>1, <2>3, <3>3, OnePlace
    <3>5. 1 \in 1..Len(batch) BY <1>1, <3>3, TailFacts DEF Visits, DataOK
    <3> QED BY <2>5, <3>4, <3>5 DEF Clean
  <2> QED BY <1>2, <2>3, <2>4, <2>5 DEF Live
<1>4. CASE ~OrderCreatedEvent
  <2>1. orders[d].id = o BY <1>1, <1>2, <1>4, OrderMoves
  <2>2. PICK i \in 1..Len(log) : CreatedAt(i, o, d)
    BY <1>1, <2>1 DEF Owned, OwnOrder, CreatedAt
  <2>3. CreatedAt(i, o, d)' BY <1>1, <2>2, OldPlaces
  <2>4. i = c BY <1>1, <1>2, <2>3 DEF JournalInv, CreatedOnce, CreatedAt
  <2>5. CreatedAt(c, o, d) BY <2>2, <2>4
  <2>6. ~Starts(o, c, d) BY <1>4 DEF Starts
  <2> QED BY <1>2, <1>4, <2>1, <2>5, <2>6, CleanFrom DEF Live
<1> QED BY <1>3, <1>4

\* Nothing of an order whose record starts was done before.
LEMMA StartsFresh ==
  ASSUME Ground, NEW o \in Orders, NEW d \in Dispensers, NEW c, Starts(o, c, d)
  PROVE  ~Authorized(o) /\ confirms[o] = 0 /\ NotYet(c)
<1>1. DataOK /\ PayInv /\ PaidInv /\ RecordOnce /\ CountInv /\ VisitInv BY GroundFacts
<1>2. records[o] = 0 /\ o \notin untimely /\ CreatedAt(c, o, d) BY DEF Starts
<1>3. o \notin asked BY <1>1, <1>2 DEF RecordOnce
<1>4. ~Authorized(o) BY <1>1, <1>2, <1>3, AuthorizedAsked
<1>5. confirms[o] \in Nat /\ confirms[o] <= 0 BY <1>1, <1>2 DEF CountInv, DataOK, OrderOrNone
<1>6. NotYet(c) BY <1>1, <1>2 DEF VisitInv, CreatedAt
<1> QED BY <1>4, <1>5, <1>6

\* No tank is used by two dispensers, and Cancel was not touched without an order.
Alone == OneOnTank /\ NoOrder \notin cancelled

\* Both only ever cease to hold.
LEMMA StillAlone ==
  ASSUME DataOK, Grown, [Next]_vars, Alone'
  PROVE  Alone
<1>1. \A i \in 1..Len(log) : i \in 1..Len(log') /\ log'[i] = log[i] BY DEF Grown, DataOK
<1>2. OneOnTank BY <1>1 DEF Alone, OneOnTank
<1>3. NoOrder \notin cancelled BY HistoriesGrow DEF Alone
<1> QED BY <1>2, <1>3 DEF Alone

\* A task in the queue of g that will send the sale of another order.
Other(o, g, k) ==
  k \in 1..Len(gauge_queue[g]) /\ gauge_queue[g][k].task = "AFTER" /\ gauge_queue[g][k].order # o

\* The dispenser of o queues no such task.
LEMMA OtherFrom ==
  ASSUME Ground, [Next]_vars, Alone, Alone', NEW o \in Orders, NEW d \in Dispensers, NEW c \in Nat,
         Live(o, c, d), NEW k \in Nat, NEW g, g = GaugeOf[d], Other(o, g, k)'
  PROVE  /\ Pops(g) => Other(o, g, k + 1)
         /\ ~Pops(g) => Other(o, g, k)
<1>1. DataOK /\ SalesOK /\ FinalInv /\ Owned BY GroundFacts
<1>2. g \in Gauges BY PrimeNames
<1>3. PICK q, t : q = gauge_queue[g] /\ t = gauge_queue'[g] OBVIOUS
<1>4. q \in Seq(PendingGaugeTask) BY <1>1, <1>2, <1>3 DEF DataOK
<1>5. k \in 1..Len(t) /\ t[k].task = "AFTER" /\ t[k].order # o BY <1>3 DEF Other
<1>6. CASE Pops(g)
  <2>1. q # <<>> /\ t \in {<<>>, Tail(q)} BY <1>3, <1>6 DEF Pops
  <2>2. t = Tail(q)
    <3>1. Len(<<>>) = 0 /\ ~\E j : j \in 1..0 OBVIOUS
    <3> QED BY <1>5, <2>1, <3>1
  <2>3. /\ Len(Tail(q)) = Len(q) - 1 /\ Len(q) \in Nat \ {0}
        /\ \A j \in 1..Len(q) - 1 : Tail(q)[j] = q[j + 1] /\ j + 1 \in 1..Len(q)
    BY <1>4, <2>1, TailFacts
  <2>4. k + 1 \in 1..Len(q) /\ q[k + 1] = t[k] BY <1>5, <2>2, <2>3
  <2> QED BY <1>3, <1>5, <1>6, <2>4 DEF Other
<1>7. CASE Keeps(g) /\ ~Pops(g) BY <1>3, <1>5, <1>7 DEF Other, Keeps
<1>8. ASSUME NEW m, Adds(g, m), ~(m.task = "AFTER" /\ m.order # o) PROVE Other(o, g, k)
  <2>1. t = Append(q, m) BY <1>3, <1>8 DEF Adds
  <2>2. Len(t) = Len(q) + 1 /\ t[Len(q) + 1] = m /\ Len(q) \in Nat /\ \A j \in 1..Len(q) : t[j] = q[j]
    BY <1>4, <2>1
  <2>3. k # Len(q) + 1 BY <1>5, <1>8, <2>2
  <2>4. k \in 1..Len(q) /\ q[k] = t[k] BY <1>5, <2>2, <2>3
  <2> QED BY <1>3, <1>5, <2>4 DEF Other
<1>9. ASSUME NEW e, AddsBefore(g, e) PROVE Other(o, g, k)
  <2>1. PICK m : m = Before(orders[e].id) OBVIOUS
  <2>2. Adds(g, m) /\ m.task = "BEFORE" BY <1>9, <2>1 DEF AddsBefore, Before
  <2> QED BY <1>8, <2>2
<1>10. ASSUME NEW e, AddsAfter(g, e) PROVE Other(o, g, k)
  <2>1. PICK m : m = After(orders[e].id) OBVIOUS
  <2>2. Adds(g, m) /\ m.order = orders[e].id /\ e \in Dispensers /\ g = GaugeOf[e]
    BY <1>10, <2>1 DEF AddsAfter, After
  <2>3. orders[e].id = o
    <3>1. orders[e].id \in OrderOrNone BY <1>1, <2>2 DEF DataOK, DatabaseOrder
    <3>2. orders[e].id # NoOrder
      BY <1>10, PrimeNames DEF AddsAfter, HangsUp, FoundDelivered, Alone
    <3>3. orders[e].id \in Orders BY <3>1, <3>2 DEF OrderOrNone
    <3>4. PICK i \in 1..Len(log) : Created(log[i]) /\ log[i].dev = e
      BY <1>1, <2>2, <3>3 DEF Owned, OwnOrder
    <3>5. c \in 1..Len(log) /\ Created(log[c]) /\ log[c].dev = d BY DEF Live, CreatedAt
    <3>6. e = d BY <2>2, <3>4, <3>5 DEF Alone, OneOnTank, Created
    <3> QED BY <3>6 DEF Live
  <2> QED BY <1>8, <2>2, <2>3
<1>11. Keeps(g) \/ (\E e : AddsBefore(g, e)) \/ (\E e : AddsAfter(g, e)) \/ Pops(g)
  BY <1>1, <1>2, QueueShapes
<1> QED BY <1>6, <1>7, <1>9, <1>10, <1>11

\* The readings on their way are fewer by the one that is taken.
LEMMA ReadingsMove ==
  ASSUME Ground, [Next]_vars, NEW g \in Gauges, gauge_queue'[g] # <<>>
  PROVE  /\ CountOf(responses, Reading(g)) \in Nat /\ CountOf(responses', Reading(g)) \in Nat
         /\ \/ CountOf(responses', Reading(g)) >= CountOf(responses, Reading(g))
            \/ Pops(g) /\ CountOf(responses', Reading(g)) + 1 >= CountOf(responses, Reading(g))
<1>1. DataOK /\ SalesOK /\ FinalInv BY GroundFacts
<1>2. DataOK' BY <1>1, Types
<1>3. responses \in Seq(Response) /\ responses' \in Seq(Response) BY <1>1, <1>2 DEF DataOK
<1>4. CountOf(responses, Reading(g)) \in Nat /\ CountOf(responses', Reading(g)) \in Nat
  BY <1>3, CountIsNat
<1>5. CASE responses' = responses BY <1>4, <1>5
<1>6. ASSUME NEW r \in Response, responses' = Append(responses, r)
      PROVE CountOf(responses', Reading(g)) >= CountOf(responses, Reading(g))
  <2>1. responses' = responses \o <<r>> /\ <<r>> \in Seq(Response) BY <1>3, <1>6
  <2> QED BY <1>3, <2>1, CountConcat
<1>7. CASE responses # <<>> /\ responses' = Tail(responses)
  <2>1. CASE Head(responses) = Reading(g)
    <3>1. Pops(g) BY <1>1, <1>7, <2>1, ReadingTaken
    <3>2. CountOf(Tail(responses), Reading(g)) + 1 >= CountOf(responses, Reading(g))
      BY <1>3, <1>7, CountTail
    <3> QED BY <1>4, <1>7, <3>1, <3>2
  <2>2. CASE Head(responses) # Reading(g)
    <3>1. CountOf(Tail(responses), Reading(g)) >= CountOf(responses, Reading(g))
      BY <1>3, <1>7, <2>2, CountTail
    <3> QED BY <1>4, <1>7, <3>1
  <2> QED BY <2>1, <2>2
<1> QED BY <1>1, <1>4, <1>5, <1>6, <1>7, StreamShapes DEF Rest, Visits, Takes, Gives

-----------------------------------------------------------------------------
(* A task of another order gets its reading before the events of o come.   *)

\* A task of another order in place k gets its reading before the answer to any poll
\* from after the creation of o is handled, and o's AUTHORIZED event waits in no batch
\* meanwhile: the reading was asked for before that poll left (EveryTaskIsAsked).
BeforePolls(c, g, k) ==
  \A j \in 1..Len(requests) :
    requests[j].cmd = "EVENTS" =>
      (requests[j].from >= c =>
         k <= CountOf(responses, Reading(g)) + CountBefore(requests, j, Question(g)))

BeforeAnswers(c, g, k) ==
  \A j \in 1..Len(responses) :
    Filled(responses[j]) /\ responses[j].events[1].id > c => k <= CountBefore(responses, j, Reading(g))

Unheard(o) == \A j \in 1..Len(batch) : ~AuthorizedAt(batch[j].id, o)

Earlier(o, c, g) ==
  \A k \in Nat : Other(o, g, k) => BeforePolls(c, g, k) /\ BeforeAnswers(c, g, k) /\ Unheard(o)

\* When the record starts, nothing from after its creation is on its way.
LEMMA EarlierStarts ==
  ASSUME Ground, Ground', [Next]_vars, NEW o \in Orders, NEW d \in Dispensers, NEW c \in Nat,
         Starts(o, c, d), NEW g
  PROVE  Earlier(o, c, g)'
<1>1. DataOK /\ DataOK' /\ StreamInv /\ StreamInv' BY GroundFacts DEF Ground
<1>2. ~Authorized(o) /\ NotYet(c) BY StartsFresh
<1>3. responses' = responses /\ log' = log BY DEF Starts
<1>4. ASSUME NEW j \in 1..Len(requests'), requests'[j].cmd = "EVENTS" PROVE ~(requests'[j].from >= c)
  <2>1. CASE requests'[j].from = last_event BY <1>1, <1>2, <2>1 DEF NotYet, DataOK
  <2>2. ASSUME NEW i \in 1..Len(requests), requests'[j] = requests[i] PROVE ~(requests'[j].from >= c)
    <3>1. requests[i].cmd = "EVENTS" BY <1>4, <2>2
    <3>2. requests[i].from < c BY <1>2, <3>1 DEF NotYet
    <3>3. requests[i] \in Request BY <1>1 DEF DataOK
    <3>4. requests[i].from \in Nat BY <3>1, <3>3 DEF Request
    <3> QED BY <2>2, <3>2, <3>4
  <2> QED BY <1>1, <1>4, <2>1, <2>2, PollsLately
<1>5. ASSUME NEW j \in 1..Len(responses), Filled(responses[j]) PROVE ~(responses[j].events[1].id > c)
  <2>1. responses[j].events[1].id <= c BY <1>2, <1>5 DEF NotYet
  <2>2. responses[j].events[1].id \in 1..Len(log) BY <1>1, <1>5, AnswerFacts
  <2>3. responses[j].events[1].id \in Nat BY <2>2
  <2> QED BY <2>1, <2>3
<1>6. Unheard(o)' BY <1>2, <1>3 DEF Unheard, AuthorizedAt, Authorized
<1> QED BY <1>3, <1>4, <1>5, <1>6 DEF Earlier, BeforePolls, BeforeAnswers, Filled

\* What is known of a task of another order when it waits after the step.
Waited(o, c, g, k) == Other(o, g, k) /\ BeforePolls(c, g, k) /\ BeforeAnswers(c, g, k) /\ Unheard(o)

\* The task waited already, behind the task that gets the reading of the step, if any.
LEMMA WaitedBefore ==
  ASSUME Ground, [Next]_vars, Alone, Alone', NEW o \in Orders, NEW d \in Dispensers, NEW c \in Nat,
         Live(o, c, d), NEW k \in Nat, NEW g, g = GaugeOf[d], Other(o, g, k)', Earlier(o, c, g)
  PROVE  /\ Pops(g) => Waited(o, c, g, k + 1)
         /\ ~Pops(g) => Waited(o, c, g, k)
         /\ gauge_queue'[g] # <<>> /\ k >= 1
<1>1. /\ Pops(g) => Other(o, g, k + 1)
      /\ ~Pops(g) => Other(o, g, k)
  BY OtherFrom
<1>2. k \in 1..Len(gauge_queue'[g]) BY DEF Other
<1>3. gauge_queue'[g] # <<>>
  <2>1. Len(<<>>) = 0 /\ ~\E j : j \in 1..0 OBVIOUS
  <2> QED BY <1>2, <2>1
<1>4. k + 1 \in Nat /\ k >= 1 BY <1>2
<1> QED BY <1>1, <1>3, <1>4 DEF Waited, Earlier

\* A new poll leaves behind the questions of all tasks.
LEMMA PollsStep ==
  ASSUME Ground, [Next]_vars, Alone, Alone', NEW o \in Orders, NEW d \in Dispensers, NEW c \in Nat,
         Live(o, c, d), Live(o, c, d)', NEW k \in Nat, NEW g, g = GaugeOf[d], Other(o, g, k)', Earlier(o, c, g)
  PROVE  BeforePolls(c, g, k)'
<1> SUFFICES ASSUME NEW i \in 1..Len(requests'), requests'[i].cmd = "EVENTS", requests'[i].from >= c
    PROVE  k <= CountOf(responses', Reading(g)) + CountBefore(requests', i, Question(g))
  BY DEF BeforePolls
<1>1. DataOK /\ FailedOK /\ EveryTaskIsAsked BY GroundFacts
<1>2. DataOK' BY <1>1, Types
<1>3. g \in Gauges BY PrimeNames
<1>0. failed[g] = 0 /\ failed'[g] = 0 BY DEF Live, Clean, CreatedAt
<1>4. requests \in Seq(Request) /\ requests' \in Seq(Request) /\ Len(requests) \in Nat /\ i \in Nat
  <2>1. requests \in Seq(Request) /\ requests' \in Seq(Request) BY <1>1, <1>2 DEF DataOK
  <2> QED BY <2>1
<1>5. /\ Pops(g) => Waited(o, c, g, k + 1)
      /\ ~Pops(g) => Waited(o, c, g, k)
      /\ gauge_queue'[g] # <<>>
  BY WaitedBefore
<1>6. PICK A, B, n : A = CountOf(responses, Reading(g)) /\ B = CountOf(responses', Reading(g))
                     /\ n = CountBefore(requests', i, Question(g))
  OBVIOUS
<1>7. A \in Nat /\ B \in Nat /\ n \in Nat /\ (B >= A \/ (Pops(g) /\ B + 1 >= A))
  BY <1>3, <1>4, <1>5, <1>6, ReadingsMove, CountBeforeNat
<1>8. ASSUME i \in 1..Len(requests), NEW rs \in Seq(Request), requests' = requests \o rs
      PROVE  k <= B + n
  <2>1. n = CountBefore(requests, i, Question(g))
    <3>1. i \in 1..(Len(requests) + 1) BY <1>4, <1>8
    <3> QED BY <1>4, <1>6, <1>8, <3>1, CountBeforeConcat
  <2>2. requests[i].cmd = "EVENTS" /\ requests[i].from >= c
    <3>1. requests'[i] = requests[i] BY <1>4, <1>8
    <3> QED BY <3>1
  <2>3. CASE Pops(g)
    <3>1. k + 1 <= A + n BY <1>5, <1>6, <1>8, <2>1, <2>2, <2>3 DEF Waited, BeforePolls
    <3> QED BY <1>7, <3>1
  <2>4. CASE ~Pops(g)
    <3>1. k <= A + n BY <1>5, <1>6, <1>8, <2>1, <2>2, <2>4 DEF Waited, BeforePolls
    <3> QED BY <1>7, <2>4, <3>1
  <2> QED BY <2>3, <2>4
<1>9. CASE requests' = requests
  <2>1. PICK rs \in Seq(Request) : rs = <<>>
    <3>1. <<>> \in Seq(Request) OBVIOUS
    <3> QED BY <3>1
  <2>2. requests' = requests \o rs BY <1>4, <1>9, <2>1
  <2> QED BY <1>6, <1>8, <1>9, <2>2
<1>10. ASSUME NEW rs, Plain(rs), requests' = requests \o rs PROVE k <= B + n
  <2>1. rs \in Seq(Request) /\ \A j \in 1..Len(rs) : rs[j].cmd # "EVENTS" BY <1>10 DEF Plain
  <2>2. /\ Len(requests') = Len(requests) + Len(rs) /\ Len(rs) \in Nat
        /\ \A j \in 1..Len(requests) : requests'[j] = requests[j]
        /\ \A j \in 1..Len(requests') : j \notin 1..Len(requests) =>
             requests'[j] = rs[j - Len(requests)] /\ j - Len(requests) \in 1..Len(rs)
    BY <1>4, <1>10, <2>1
  <2>3. i \in 1..Len(requests) BY <2>1, <2>2
  <2> QED BY <1>8, <1>10, <2>1, <2>3
<1>11. CASE Poll
  <2>1. PICK m : m = [cmd |-> "EVENTS", from |-> last_event] OBVIOUS
  <2>2. requests' = requests \o <<m>> /\ <<m>> \in Seq(Request) /\ gauge_queue' = gauge_queue /\ responses' = responses
    <3>1. m \in Request BY <1>1, <2>1 DEF Request, DataOK
    <3> QED BY <1>11, <2>1, <3>1 DEF Poll, Send, logicVars
  <2>3. /\ Len(requests') = Len(requests) + 1
        /\ \A j \in 1..Len(requests) : requests'[j] = requests[j]
    BY <1>4, <2>2
  <2>4. CASE i \in 1..Len(requests) BY <1>6, <1>8, <2>2, <2>4
  <2>5. CASE i \notin 1..Len(requests)
    <3>1. i = Len(requests) + 1 BY <1>4, <2>3, <2>5
    <3>2. n = CountBefore(requests, i, Question(g))
      <4>1. i \in 1..(Len(requests) + 1) BY <1>4, <3>1
      <4> QED BY <1>4, <1>6, <2>2, <4>1, CountBeforeConcat
    <3>3. n = CountOf(requests, Question(g)) BY <1>4, <3>1, <3>2, CountBeforeEnds
    <3>4. Len(gauge_queue[g]) <= n + A
      <4>1. Len(gauge_queue[g]) <= n + A + failed[g]
        BY <1>1, <1>3, <1>6, <3>3 DEF EveryTaskIsAsked, Question, Reading
      <4> QED BY <1>0, <1>7, <4>1
    <3>5. k \in 1..Len(gauge_queue[g]) BY <2>2 DEF Other
    <3>6. gauge_queue[g] \in Seq(PendingGaugeTask) BY <1>1, <1>3 DEF DataOK
    <3>7. A = B /\ Len(gauge_queue[g]) \in Nat BY <1>6, <2>2, <3>6
    <3> QED BY <1>6, <1>7, <3>4, <3>5, <3>7
  <2> QED BY <2>4, <2>5
<1>12. CASE requests # <<>> /\ requests' = Tail(requests) /\ Serves
  <2>1. /\ Len(Tail(requests)) = Len(requests) - 1
        /\ \A j \in 1..Len(requests) - 1 : Tail(requests)[j] = requests[j + 1] /\ j + 1 \in 1..Len(requests)
    BY <1>4, <1>12, TailFacts
  <2>2. /\ i + 1 \in 1..Len(requests) /\ requests'[i] = requests[i + 1] /\ i \in 1..Len(requests)
    BY <1>4, <1>12, <2>1
  <2>3. gauge_queue' = gauge_queue BY <1>12 DEF Serves
  <2>4. Other(o, g, k) BY <2>3 DEF Other
  <2>5. PICK N : N = CountBefore(requests, i + 1, Question(g)) OBVIOUS
  <2>6. k <= A + N /\ N \in Nat
    <3>1. BeforePolls(c, g, k) BY <2>4 DEF Earlier
    <3>2. PICK j \in 1..Len(requests) : j = i + 1 BY <2>2
    <3>3. k <= A + CountBefore(requests, j, Question(g)) BY <1>6, <2>2, <3>1, <3>2 DEF BeforePolls
    <3>4. CountBefore(requests, j, Question(g)) \in Nat
      <4>1. j \in Nat BY <1>4, <3>2
      <4> QED BY <4>1, CountBeforeNat
    <3> QED BY <2>5, <3>2, <3>3, <3>4
  <2>7. n + 1 >= N /\ (Head(requests) # Question(g) => n >= N)
    BY <1>4, <1>6, <1>12, <2>2, <2>5, CountBeforeTail
  <2>8. CASE Head(requests) # Question(g)
    <3>1. B >= A
      <4>1. CASE responses' = responses BY <1>6, <1>7, <4>1
      <4>2. ASSUME NEW r \in Response, responses' = Append(responses, r) PROVE B >= A
        <5>1. responses \in Seq(Response) /\ <<r>> \in Seq(Response) /\ responses' = responses \o <<r>>
          BY <1>1, <4>2 DEF DataOK
        <5> QED BY <1>6, <5>1, CountConcat
      <4> QED BY <1>12, <4>1, <4>2 DEF Serves
    <3> QED BY <1>6, <1>7, <2>6, <2>7, <2>8, <3>1
  <2>9. CASE Head(requests) = Question(g)
    <3>0. ASSUME NEW h \in Gauges, Head(requests) = Question(h), failed' = [failed EXCEPT ![h] = @ + 1]
          PROVE  FALSE
      <4>1. h = g BY <2>9, <3>0 DEF Question
      <4>2. failed'[g] = failed[g] + 1 BY <1>1, <3>0, <4>1 DEF FailedOK
      <4> QED BY <1>0, <4>2
    <3>1. responses' = Append(responses, Reading(g)) /\ Reading(g) \in Response
      BY <1>3, <1>12, <2>9, <3>0 DEF Serves
    <3>2. B >= A + 1
      <4>1. PICK m : m = Reading(g) OBVIOUS
      <4>2. responses \in Seq(Response) /\ <<m>> \in Seq(Response) /\ responses' = responses \o <<m>>
        BY <1>1, <3>1, <4>1 DEF DataOK
      <4>3. 1 \in 1..Len(<<m>>) /\ <<m>>[1] = m OBVIOUS
      <4> QED BY <1>6, <4>1, <4>2, <4>3, CountConcat
    <3> QED BY <1>6, <1>7, <2>6, <2>7, <3>2
  <2> QED BY <2>8, <2>9
<1> QED BY <1>1, <1>6, <1>9, <1>10, <1>11, <1>12, RequestShapes

\* An answer is given behind the readings that were asked for before its poll.
LEMMA AnswersStep ==
  ASSUME Ground, [Next]_vars, Alone, Alone', NEW o \in Orders, NEW d \in Dispensers, NEW c \in Nat,
         Live(o, c, d), NEW k \in Nat, NEW g, g = GaugeOf[d], Other(o, g, k)', Earlier(o, c, g)
  PROVE  BeforeAnswers(c, g, k)'
<1> SUFFICES ASSUME NEW j \in 1..Len(responses'), Filled(responses'[j]), responses'[j].events[1].id > c
    PROVE  k <= CountBefore(responses', j, Reading(g))
  BY DEF BeforeAnswers, Filled
<1>1. DataOK /\ Numbered /\ StreamInv /\ SalesOK /\ FinalInv BY GroundFacts
<1>2. DataOK' BY <1>1, Types
<1>3. g \in Gauges BY PrimeNames
<1>4. responses \in Seq(Response) /\ responses' \in Seq(Response) /\ Len(responses) \in Nat /\ j \in Nat
  <2>1. responses \in Seq(Response) /\ responses' \in Seq(Response) BY <1>1, <1>2 DEF DataOK
  <2> QED BY <2>1
<1>5. /\ Pops(g) => Waited(o, c, g, k + 1)
      /\ ~Pops(g) => Waited(o, c, g, k)
      /\ gauge_queue'[g] # <<>>
  BY WaitedBefore
<1>6. PICK n : n = CountBefore(responses', j, Reading(g)) OBVIOUS
<1>7. n \in Nat BY <1>4, <1>6, CountBeforeNat
<1>8. ASSUME j \in 1..Len(responses), NEW rs \in Seq(Response), responses' = responses \o rs
      PROVE  k <= n
  <2>1. n = CountBefore(responses, j, Reading(g))
    <3>1. j \in 1..(Len(responses) + 1) BY <1>4, <1>8
    <3> QED BY <1>4, <1>6, <1>8, <3>1, CountBeforeConcat
  <2>2. Filled(responses[j]) /\ responses[j].events[1].id > c
    <3>1. responses'[j] = responses[j] BY <1>4, <1>8
    <3> QED BY <3>1
  <2>3. Pops(g) => k + 1 <= n BY <1>5, <1>8, <2>1, <2>2 DEF Waited, BeforeAnswers
  <2>4. ~Pops(g) => k <= n BY <1>5, <1>8, <2>1, <2>2 DEF Waited, BeforeAnswers
  <2> QED BY <1>7, <2>3, <2>4
<1>9. CASE responses' = responses
  <2>1. PICK rs \in Seq(Response) : rs = <<>>
    <3>1. <<>> \in Seq(Response) OBVIOUS
    <3> QED BY <3>1
  <2>2. responses' = responses \o rs BY <1>4, <1>9, <2>1
  <2> QED BY <1>6, <1>8, <1>9, <2>2
<1>10. CASE Takes
  <2>1. responses # <<>> /\ responses' = Tail(responses) BY <1>10 DEF Takes
  <2>2. /\ Len(Tail(responses)) = Len(responses) - 1
        /\ \A i \in 1..Len(responses) - 1 : Tail(responses)[i] = responses[i + 1] /\ i + 1 \in 1..Len(responses)
    BY <1>4, <2>1, TailFacts
  <2>3. j + 1 \in 1..Len(responses) /\ responses'[j] = responses[j + 1] /\ j \in 1..Len(responses)
    BY <1>4, <2>1, <2>2
  <2>4. PICK N : N = CountBefore(responses, j + 1, Reading(g)) OBVIOUS
  <2>5. n + 1 >= N /\ (Head(responses) # Reading(g) => n >= N)
    BY <1>4, <1>6, <2>1, <2>3, <2>4, CountBeforeTail
  <2>6. PICK i \in 1..Len(responses) : i = j + 1 BY <2>3
  <2>7. N \in Nat
    <3>1. i \in Nat BY <1>4, <2>6
    <3> QED BY <2>4, <2>6, <3>1, CountBeforeNat
  <2>8. Filled(responses[i]) /\ responses[i].events[1].id > c BY <2>3, <2>6
  <2>9. Pops(g) => k + 1 <= N BY <1>5, <2>4, <2>6, <2>8 DEF Waited, BeforeAnswers
  <2>10. ~Pops(g) => k <= N BY <1>5, <2>4, <2>6, <2>8 DEF Waited, BeforeAnswers
  <2>11. Head(responses) = Reading(g) => Pops(g) BY <1>1, <1>3, <1>5, <2>1, ReadingTaken
  <2> QED BY <1>6, <1>7, <2>5, <2>7, <2>9, <2>10, <2>11
<1>11. ASSUME NEW r \in Response, Gives(r) PROVE k <= n
  <2>1. responses' = Append(responses, r) /\ NewAnswer(r) BY <1>11 DEF Gives
  <2>2. /\ Len(responses') = Len(responses) + 1 /\ responses'[Len(responses) + 1] = r
        /\ responses' = responses \o <<r>> /\ <<r>> \in Seq(Response)
    BY <1>4, <2>1
  <2>3. CASE j \in 1..Len(responses) BY <1>8, <2>2, <2>3
  <2>4. CASE j \notin 1..Len(responses)
    <3>1. j = Len(responses) + 1 BY <1>4, <2>2, <2>4
    <3>2. Filled(r) /\ r.events[1].id > c BY <2>2, <3>1
    <3>3. /\ requests[1].cmd = "EVENTS" /\ requests[1].from \in Nat /\ 1 \in 1..Len(requests)
          /\ r.events[1].id = requests[1].from + 1
      BY <1>1, <2>1, <3>2, GivenFacts
    <3>4. requests[1].from >= c BY <3>2, <3>3
    <3>5. n = CountBefore(responses, j, Reading(g))
      <4>1. j \in 1..(Len(responses) + 1) BY <1>4, <3>1
      <4>2. PICK t \in Seq(Response) : responses' = responses \o t BY <2>2
      <4> QED BY <1>4, <1>6, <4>1, <4>2, CountBeforeConcat
    <3>6. n = CountOf(responses, Reading(g)) BY <1>4, <3>1, <3>5, CountBeforeEnds
    <3>7. CountBefore(requests, 1, Question(g)) = 0 BY <1>1, CountBeforeEnds DEF DataOK
    <3>8. Pops(g) => k + 1 <= n + 0 BY <1>5, <3>3, <3>4, <3>6, <3>7 DEF Waited, BeforePolls
    <3>9. ~Pops(g) => k <= n + 0 BY <1>5, <3>3, <3>4, <3>6, <3>7 DEF Waited, BeforePolls
    <3> QED BY <1>7, <3>8, <3>9
  <2> QED BY <2>3, <2>4
<1> QED BY <1>1, <1>6, <1>9, <1>10, <1>11, StreamShapes DEF Rest, Visits

\* An answer that starts after the creation of o would come behind the task's reading,
\* and one that starts before it would bring the order_created event again.
LEMMA UnheardStep ==
  ASSUME Ground, Ground', Grown, [Next]_vars, Alone, Alone', NEW o \in Orders, NEW d \in Dispensers,
         NEW c \in Nat, Live(o, c, d), Live(o, c, d)',
         NEW k \in Nat, NEW g, g = GaugeOf[d], Other(o, g, k)', Earlier(o, c, g)
  PROVE  Unheard(o)'
<1>1. DataOK /\ StreamInv /\ RecordOnce /\ VisitInv /\ JournalInv BY GroundFacts
<1>2. PICK n \in Nat : n >= 1 /\ Waited(o, c, g, n)
  <2>1. /\ Pops(g) => Waited(o, c, g, k + 1)
        /\ ~Pops(g) => Waited(o, c, g, k)
        /\ k >= 1
    BY WaitedBefore
  <2> QED BY <2>1
<1>3. \A j \in 1..Len(batch) : ~AuthorizedAt(batch[j].id, o) BY <1>2 DEF Waited, Unheard
<1>4. ASSUME NEW j \in 1..Len(batch'), NEW m, m = batch'[j].id, batch' = batch
      PROVE  ~AuthorizedAt(m, o)'
  <2>1. m \in 1..Len(log) BY <1>1, <1>4 DEF StreamInv, StretchOf
  <2> QED BY <1>1, <1>3, <1>4, <2>1, OldPlaces
<1>5. ASSUME NEW j \in 1..Len(batch'), NEW m, m = batch'[j].id, Visits PROVE ~AuthorizedAt(m, o)'
  <2>1. batch # <<>> /\ batch' = Tail(batch) /\ log' = log BY <1>5 DEF Visits
  <2>2. /\ Len(Tail(batch)) = Len(batch) - 1
        /\ \A i \in 1..Len(batch) - 1 : Tail(batch)[i] = batch[i + 1] /\ i + 1 \in 1..Len(batch)
    BY <1>1, <2>1, TailFacts DEF DataOK
  <2>3. j + 1 \in 1..Len(batch) /\ batch'[j] = batch[j + 1] BY <2>1, <2>2
  <2>4. ~AuthorizedAt(m, o) BY <1>3, <1>5, <2>3
  <2> QED BY <2>1, <2>4 DEF AuthorizedAt
<1>6. ASSUME NEW j \in 1..Len(batch'), Takes PROVE FALSE
  <2>1. PICK r : r = responses[1] OBVIOUS
  <2>2. batch' # <<>>
    <3>1. Len(<<>>) = 0 /\ ~\E i : i \in 1..0 OBVIOUS
    <3> QED BY <1>6, <3>1
  <2>3. batch' = r.events /\ r.kind = "events" /\ responses # <<>> /\ log' = log
    BY <1>6, <2>1, <2>2 DEF Takes
  <2>4. Filled(r) /\ 1 \in 1..Len(responses)
    BY <1>1, <2>2, <2>3, TailFacts DEF Filled, DataOK
  <2>5. /\ r.events \in Seq(Event) /\ StretchOf(r.events, log) /\ r.events # <<>>
        /\ r.events[1].id \in 1..Len(log)
    BY <1>1, <2>1, <2>4, AnswerFacts
  <2>6. ~(r.events[1].id > c)
    <3>1. CountBefore(responses, 1, Reading(g)) = 0 BY <1>1, CountBeforeEnds DEF DataOK
    <3>2. r.events[1].id > c => n <= 0
      BY <1>2, <2>1, <2>4, <3>1 DEF Waited, BeforeAnswers
    <3> QED BY <1>2, <3>2
  <2>7. r.events[1].id <= c BY <2>5, <2>6
  <2>8. c <= LastOf(r)
    <3>1. records[o] \in Nat /\ records[o] # 0 BY <1>1 DEF Live, RecordOnce, DataOK
    <3>2. Reached(c) BY <1>1, <3>1 DEF VisitInv, Live, CreatedAt
    <3> QED BY <2>1, <2>4, <3>2 DEF Reached
  <2>9. \E i \in 1..Len(r.events) : r.events[i].id = c
    BY <1>1, <2>5, <2>7, <2>8, StretchHas DEF DataOK, LastOf
  <2> QED BY <2>3, <2>9 DEF Live, Clean
<1>7. ASSUME NEW j \in 1..Len(batch'), NEW m, m = batch'[j].id PROVE ~AuthorizedAt(m, o)'
  BY <1>1, <1>4, <1>5, <1>6, <1>7, StreamShapes DEF Rest, Gives
<1> QED BY <1>7 DEF Unheard, AuthorizedAt

LEMMA EarlierStep ==
  ASSUME Ground, Ground', Grown, [Next]_vars, Alone, Alone', NEW o \in Orders, NEW d \in Dispensers,
         NEW c \in Nat, Live(o, c, d), Live(o, c, d)', NEW g, g = GaugeOf[d], Earlier(o, c, g)
  PROVE  Earlier(o, c, g)'
BY PollsStep, AnswersStep, UnheardStep DEF Earlier

-----------------------------------------------------------------------------
(* What holds of an order under way, whose record is that of d.            *)

\* The order_changed event AUTHORIZED queued the reading, or was not visited yet.
Begins(o, d) ==
  \A a \in 1..Len(log) : AuthorizedAt(a, o) => Ready(o, GaugeOf[d]) \/ NotYet(a)

\* The nozzle that is back was hung up after the order was authorized.
Closing(o, c, d) ==
  orders[d].closed =>
    /\ \E i \in 1..Len(log) : c < i /\ IdleAt(i, d)
    /\ Authorized(o) => Ready(o, GaugeOf[d])

\* A task that sends the sale of o stands behind the reading before it.
Ending(o, d) == Told(gauge_queue[GaugeOf[d]], After(o)) => Ready(o, GaugeOf[d])

\* The inductive invariant for one order.
Sound(o, c, d) ==
  /\ Live(o, c, d) => Begins(o, d) /\ Closing(o, c, d) /\ Earlier(o, c, GaugeOf[d])
  /\ CreatedAt(c, o, d) /\ Clean(o, c) => Ending(o, d)

\* Visiting the AUTHORIZED event queues the reading; no task that sends a sale is ahead.
LEMMA BeginsStep ==
  ASSUME Ground, Ground', Grown, [Next]_vars, NEW o \in Orders, NEW d \in Dispensers, NEW c \in Nat,
         Live(o, c, d), Live(o, c, d)', Sound(o, c, d)
  PROVE  Begins(o, d)'
<1>1. PICK g : g = GaugeOf[d] OBVIOUS
<1>2. /\ DataOK /\ DataOK' /\ StreamInv /\ JournalInv /\ Numbered /\ PayInv /\ PaidInv /\ ProductInv
      /\ g \in Gauges
  BY <1>1, GroundFacts, PrimeNames DEF Ground
<1>3. o \notin untimely /\ orders[d].id = o /\ CreatedAt(c, o, d) /\ Clean(o, c)
  BY DEF Live, Clean
<1>4. Begins(o, d) /\ Earlier(o, c, g) /\ Ending(o, d) BY <1>1, <1>3 DEF Sound
<1> SUFFICES ASSUME NEW a \in 1..Len(log'), AuthorizedAt(a, o)'
    PROVE  Ready(o, g)' \/ NotYet(a)'
  BY <1>1 DEF Begins
<1>5. a \in Nat BY <1>2 DEF DataOK
<1>6. CASE a \notin 1..Len(log)
  <2>1. a > Len(log) BY <1>2, <1>5, <1>6 DEF DataOK
  <2>2. log' # log BY <1>6
  <2>3. Rest BY <1>2, <2>2, StreamShapes DEF Visits, Takes, Gives
  <2> QED BY <1>2, <1>5, <2>1, <2>3, NotYetNew
<1>7. CASE a \in 1..Len(log)
  <2>1. AuthorizedAt(a, o) BY <1>2, <1>7, OldPlaces
  <2>2. Authorized(o) BY <1>7, <2>1 DEF Authorized
  <2>3. ASSUME Ready(o, g) PROVE Ready(o, g)' BY <1>2, <1>3, <2>2, <2>3, ReadyStays
  <2>4. CASE NotYet(a) /\ ~(Visits /\ batch[1].id = a)
    BY <1>2, <1>5, <2>4, NotYetStays
  <2>5. CASE Visits /\ batch[1].id = a
    <3>1. batch[1] = log[a] /\ batch[1] = Head(batch) BY <1>2, <2>5, BatchFacts DEF Visits
    <3>2. log[a].dev = d BY <1>2, <1>3, <1>7, <2>1 DEF JournalInv, AuthorizedLater, CreatedAt
    <3>3. OrderChangedEvent BY <1>2, <2>1, <2>5, <3>1, VisitActs DEF AuthorizedAt
    <3>4. Head(batch).dev = d /\ Head(batch).status = "AUTHORIZED" BY <2>1, <3>1, <3>2 DEF AuthorizedAt
    <3>5. orders[d].product BY <1>2, <1>3, <2>2, AuthorizedAsked DEF ProductInv
    <3>6. gauge_queue' = PushTask(gauge_queue, getLevelGaugeId(d, orders[d].product), orders[d].id, "BEFORE")
      BY <3>3, <3>4 DEF OrderChangedEvent, Finished
    <3>7. gauge_queue' = PushTask(gauge_queue, g, o, "BEFORE")
      BY <1>1, <1>3, <3>5, <3>6 DEF getLevelGaugeId
    <3>8. Adds(g, Before(o)) BY <1>2, <3>7, PushedAt DEF Before
    <3>9. PICK q, t : q = gauge_queue[g] /\ t = gauge_queue'[g] OBVIOUS
    <3>10. q \in Seq(PendingGaugeTask) BY <1>2, <3>9 DEF DataOK
    <3>11. /\ Len(t) = Len(q) + 1 /\ t[Len(q) + 1] = Before(o) /\ Len(q) \in Nat
           /\ \A j \in 1..Len(q) : t[j] = q[j]
      BY <3>8, <3>9, <3>10 DEF Adds
    <3>12. CASE \A j \in 1..Len(q) : q[j].task = "BEFORE"
      <4>1. PICK k : k = Len(q) + 1 OBVIOUS
      <4>2. k \in 1..Len(t) /\ t[k] = Before(o) /\ \A j \in 1..(k - 1) : t[j].task = "BEFORE"
        BY <3>11, <3>12, <4>1
      <4>3. WaitsFirst(o, g)' BY <3>9, <4>2 DEF WaitsFirst
      <4> QED BY <4>3 DEF Ready
    <3>13. ASSUME NEW j \in 1..Len(q), q[j].task # "BEFORE" PROVE Ready(o, g)'
      <4>1. q[j] \in PendingGaugeTask /\ j \in Nat BY <3>10, <3>13
      <4>2. q[j].task = "AFTER" BY <3>13, <4>1 DEF PendingGaugeTask
      <4>3. CASE q[j].order = o
        <5>1. q[j] = After(o) BY <4>1, <4>2, <4>3 DEF PendingGaugeTask, After
        <5>2. Told(gauge_queue[g], After(o)) BY <3>9, <3>13, <5>1 DEF Told
        <5> QED BY <1>1, <1>4, <2>3, <5>2 DEF Ending
      <4>4. CASE q[j].order # o
        <5>1. Other(o, g, j) BY <3>9, <3>13, <4>2, <4>4 DEF Other
        <5>2. Unheard(o) BY <1>4, <4>1, <5>1 DEF Earlier
        <5>3. 1 \in 1..Len(batch) BY <1>2, <2>5, TailFacts DEF Visits, DataOK
        <5> QED BY <2>1, <2>5, <5>2, <5>3 DEF Unheard
      <4> QED BY <4>3, <4>4
    <3> QED BY <3>12, <3>13
  <2> QED BY <1>1, <1>4, <1>7, <2>1, <2>3, <2>4, <2>5 DEF Begins
<1> QED BY <1>6, <1>7

\* The nozzle of an order under way is hung up.
LEMMA IdleVisit ==
  ASSUME Ground, NEW o \in Orders, NEW d \in Dispensers, NEW c \in Nat,
         Live(o, c, d), Begins(o, d), StatusEvent, Head(batch).dev = d, Head(batch).status = "IDLE"
  PROVE  /\ \E i \in 1..Len(log) : c < i /\ IdleAt(i, d)
         /\ Authorized(o) => Ready(o, GaugeOf[d])
<1>1. DataOK /\ StreamInv /\ JournalInv /\ RecordOnce /\ VisitInv BY GroundFacts
<1>2. Visits /\ batch # <<>> BY <1>1, ActVisits DEF Visits
<1>3. PICK i : i = batch[1].id OBVIOUS
<1>4. /\ i \in 1..Len(log) /\ batch[1] = log[i] /\ batch[1] = Head(batch)
      /\ batch[Len(batch)].id \in 1..Len(log)
  BY <1>1, <1>2, <1>3, BatchFacts
<1>5. IdleAt(i, d) BY <1>4 DEF IdleAt, StatusEvent, Visit
<1>6. o \notin untimely /\ CreatedAt(c, o, d) /\ \A k \in 1..Len(batch) : batch[k].id # c
  BY DEF Live, Clean
<1>7. c < i
  <2>1. records[o] \in Nat /\ records[o] # 0 BY <1>1 DEF Live, RecordOnce, DataOK
  <2>2. Reached(c) BY <1>1, <1>6, <2>1 DEF VisitInv, CreatedAt
  <2>3. c <= batch[Len(batch)].id BY <1>2, <2>2 DEF Reached
  <2>4. ~(batch[1].id <= c)
    BY <1>1, <1>2, <1>6, <2>3, StretchHas DEF DataOK, StreamInv
  <2> QED BY <1>3, <1>4, <2>4
<1>8. ASSUME NEW a \in 1..Len(log), AuthorizedAt(a, o) PROVE Ready(o, GaugeOf[d])
  <2>1. ASSUME NotYet(a) PROVE FALSE
    <3>1. i <= a BY <1>2, <1>3, <2>1 DEF NotYet
    <3>2. i # a BY <1>5, <1>8 DEF IdleAt, AuthorizedAt
    <3>3. i < a BY <1>4, <3>1, <3>2
    <3>4. ~IdleAt(i, d)
      BY <1>1, <1>4, <1>6, <1>7, <1>8, <3>3 DEF JournalInv, AuthorizedLater, CreatedAt
    <3> QED BY <1>5, <3>4
  <2> QED BY <1>8, <2>1 DEF Begins
<1> QED BY <1>4, <1>5, <1>7, <1>8 DEF Authorized

\* The record is closed by such a visit, and the order is not authorized after it.
LEMMA ClosingStep ==
  ASSUME Ground, Ground', Grown, [Next]_vars, NEW o \in Orders, NEW d \in Dispensers, NEW c \in Nat,
         Live(o, c, d), Live(o, c, d)', OrderCreatedEvent => orders'[d] = orders[d], Sound(o, c, d)
  PROVE  Closing(o, c, d)'
<1>1. PICK g : g = GaugeOf[d] OBVIOUS
<1>2. DataOK /\ JournalInv /\ JournalInv' /\ g \in Gauges
  BY <1>1, GroundFacts, PrimeNames DEF Ground
<1>3. /\ o \notin untimely /\ o \notin untimely' /\ CreatedAt(c, o, d)' /\ Begins(o, d)
      /\ Closing(o, c, d)
  BY DEF Live, Clean, Sound
<1> SUFFICES ASSUME orders'[d].closed
    PROVE  /\ \E i \in 1..Len(log') : c < i /\ IdleAt(i, d)'
           /\ Authorized(o)' => Ready(o, g)'
  BY <1>1 DEF Closing
<1>4. \/ orders[d].closed
      \/ StatusEvent /\ Head(batch).dev = d /\ Head(batch).status = "IDLE"
  BY <1>2, OrderMoves
<1>5. /\ \E i \in 1..Len(log) : c < i /\ IdleAt(i, d)
      /\ Authorized(o) => Ready(o, g)
  BY <1>1, <1>3, <1>4, IdleVisit DEF Closing
<1>6. PICK i \in 1..Len(log) : c < i /\ IdleAt(i, d) BY <1>5
<1>7. i \in 1..Len(log') /\ IdleAt(i, d)' BY <1>2, <1>6, OldPlaces
<1>8. ASSUME Authorized(o)' PROVE Ready(o, g)'
  <2>1. CASE Authorized(o) BY <1>2, <1>3, <1>5, <2>1, ReadyStays
  <2>2. CASE ~Authorized(o)
    <3>1. PICK a \in 1..Len(log') : AuthorizedAt(a, o)' BY <1>8 DEF Authorized
    <3>2. a \notin 1..Len(log)
      <4>1. ASSUME a \in 1..Len(log) PROVE AuthorizedAt(a, o) BY <1>2, <3>1, <4>1, OldPlaces
      <4> QED BY <2>2, <4>1 DEF Authorized
    <3>3. i < a BY <1>2, <3>1, <3>2 DEF DataOK, Grown
    <3>4. ~IdleAt(i, d)'
      BY <1>2, <1>3, <1>6, <1>7, <3>1, <3>3 DEF JournalInv, AuthorizedLater, CreatedAt
    <3> QED BY <1>7, <3>4
  <2> QED BY <2>1, <2>2
<1> QED BY <1>6, <1>7, <1>8

\* A task that sends a sale is queued.
LEMMA ToldFrom ==
  ASSUME Ground, [Next]_vars, NEW o \in Orders, NEW g \in Gauges, Told(gauge_queue'[g], After(o))
  PROVE  Told(gauge_queue[g], After(o)) \/ \E e : AddsAfter(g, e) /\ orders[e].id = o
<1>1. DataOK /\ SalesOK /\ FinalInv BY GroundFacts
<1>2. PICK q, t : q = gauge_queue[g] /\ t = gauge_queue'[g] OBVIOUS
<1>3. q \in Seq(PendingGaugeTask) BY <1>1, <1>2 DEF DataOK
<1>4. PICK k \in 1..Len(t) : t[k] = After(o) BY <1>2 DEF Told
<1>5. CASE Keeps(g) BY <1>5 DEF Keeps
<1>6. ASSUME NEW m, Adds(g, m) PROVE Told(gauge_queue[g], After(o)) \/ m = After(o)
  <2>1. t = Append(q, m) BY <1>2, <1>6 DEF Adds
  <2>2. Len(t) = Len(q) + 1 /\ t[Len(q) + 1] = m /\ Len(q) \in Nat /\ \A j \in 1..Len(q) : t[j] = q[j]
    BY <1>3, <2>1
  <2>3. CASE k = Len(q) + 1 BY <1>4, <2>2, <2>3
  <2>4. CASE k # Len(q) + 1
    <3>1. k \in 1..Len(q) /\ q[k] = After(o) BY <1>4, <2>2, <2>4
    <3> QED BY <1>2, <3>1 DEF Told
  <2> QED BY <2>3, <2>4
<1>7. ASSUME NEW e, AddsBefore(g, e) PROVE Told(gauge_queue[g], After(o))
  <2>1. PICK m : m = Before(orders[e].id) OBVIOUS
  <2>2. Adds(g, m) /\ m.task = "BEFORE" BY <1>7, <2>1 DEF AddsBefore, Before
  <2>3. m # After(o) BY <2>2 DEF After
  <2> QED BY <1>6, <2>2, <2>3
<1>8. ASSUME NEW e, AddsAfter(g, e), ~Told(gauge_queue[g], After(o)) PROVE orders[e].id = o
  <2>1. PICK m : m = After(orders[e].id) OBVIOUS
  <2>2. Adds(g, m) /\ m.order = orders[e].id BY <1>8, <2>1 DEF AddsAfter, After
  <2>3. m = After(o) BY <1>6, <1>8, <2>2
  <2> QED BY <2>2, <2>3 DEF After
<1>9. CASE Pops(g)
  <2>1. q # <<>> /\ t \in {<<>>, Tail(q)} BY <1>2, <1>9 DEF Pops
  <2>2. t = Tail(q)
    <3>1. Len(<<>>) = 0 /\ ~\E j : j \in 1..0 OBVIOUS
    <3> QED BY <1>4, <2>1, <3>1
  <2>3. /\ Len(Tail(q)) = Len(q) - 1
        /\ \A j \in 1..Len(q) - 1 : Tail(q)[j] = q[j + 1] /\ j + 1 \in 1..Len(q)
    BY <1>3, <2>1, TailFacts
  <2>4. k + 1 \in 1..Len(q) /\ q[k + 1] = After(o) BY <1>4, <2>2, <2>3
  <2> QED BY <1>2, <2>4 DEF Told
<1>10. Keeps(g) \/ (\E e : AddsBefore(g, e)) \/ (\E e : AddsAfter(g, e)) \/ Pops(g)
  BY <1>1, QueueShapes
<1> QED BY <1>5, <1>7, <1>8, <1>9, <1>10

\* The end of an order is queued when it was cancelled, hung up or found delivered.
LEMMA EndingStep ==
  ASSUME Ground, Ground', Grown, [Next]_vars, NEW o \in Orders, NEW d \in Dispensers, NEW c \in Nat,
         CreatedAt(c, o, d)', Clean(o, c)', Sound(o, c, d)
  PROVE  Ending(o, d)'
<1>1. PICK g : g = GaugeOf[d] OBVIOUS
<1>2. /\ DataOK /\ JournalInv /\ JournalInv' /\ Owned /\ AfterInv /\ ConfirmInv /\ AnswerInv /\ SalesOK
      /\ g \in Gauges
  BY <1>1, GroundFacts, PrimeNames DEF Ground
<1>3. o \notin cancelled' /\ o \notin cancelled /\ o \notin untimely /\ o \notin repeated
  BY HistoriesGrow DEF Clean
<1> SUFFICES ASSUME Told(gauge_queue'[g], After(o)) PROVE Ready(o, g)' BY <1>1 DEF Ending
<1>4. ASSUME NEW i \in 1..Len(log), NEW e, CreatedAt(i, o, e) PROVE i = c /\ e = d
  <2>1. CreatedAt(i, o, e)' BY <1>2, <1>4, OldPlaces
  <2>2. i = c BY <1>2, <2>1 DEF JournalInv, CreatedOnce, CreatedAt
  <2> QED BY <2>1, <2>2 DEF CreatedAt
<1>5. CASE Told(gauge_queue[g], After(o))
  <2>1. Due(o, g) BY <1>2, <1>5 DEF AfterInv
  <2>2. PICK i \in 1..Len(log) : CreatedAt(i, o, log[i].dev) BY <2>1 DEF Due, CreatedAt
  <2>3. PICK e : e = log[i].dev OBVIOUS
  <2>4. CreatedAt(c, o, d) BY <1>4, <2>2, <2>3
  <2>5. confirms[o] >= 1
    <3>1. Len(reports[o]) < confirms[o] BY <1>3, <2>1 DEF Due
    <3>2. Len(reports[o]) \in Nat /\ confirms[o] \in Nat BY <1>2 DEF SalesOK, DataOK, OrderOrNone
    <3> QED BY <3>1, <3>2
  <2>6. Authorized(o) BY <1>2, <2>5 DEF ConfirmInv
  <2>7. ~Starts(o, c, d) BY <2>6, StartsFresh
  <2>8. Clean(o, c) BY <2>4, <2>7, CleanFrom
  <2>9. Ready(o, g) BY <1>1, <1>5, <2>4, <2>8 DEF Sound, Ending
  <2> QED BY <1>2, <1>3, <2>6, <2>9, ReadyStays
<1>6. CASE ~Told(gauge_queue[g], After(o))
  <2>1. PICK e : AddsAfter(g, e) /\ orders[e].id = o BY <1>2, <1>6, ToldFrom
  <2>2. PICK i \in 1..Len(log) : CreatedAt(i, o, e)
    BY <1>2, <2>1 DEF Owned, OwnOrder, CreatedAt, AddsAfter
  <2>3. e = d /\ CreatedAt(c, o, d) BY <1>4, <2>2
  <2>4. ~Starts(o, c, d) BY <2>1 DEF AddsAfter, Starts
  <2>5. Clean(o, c) BY <2>3, <2>4, CleanFrom
  <2>6. Live(o, c, d) BY <2>1, <2>3, <2>5 DEF Live
  <2>7. Begins(o, d) /\ Closing(o, c, d) BY <2>6 DEF Sound
  <2>8. CASE HangsUp(d)
    <3>1. Authorized(o) BY <1>2, <2>1, <2>3, <2>8 DEF HangsUp, ConfirmInv
    <3>2. Ready(o, g) BY <1>1, <2>6, <2>7, <2>8, <3>1, IdleVisit DEF HangsUp
    <3> QED BY <1>2, <1>3, <3>1, <3>2, ReadyStays
  <2>9. CASE FoundDelivered(d)
    <3>1. PICK r : r = Head(responses) OBVIOUS
    <3>2. /\ r \in Response /\ r.kind = "status" /\ r.order = o /\ r.ostatus \in Finished
          /\ responses # <<>> /\ orders[d].closed
      BY <1>2, <2>1, <2>3, <2>9, <3>1, OrderAnswered DEF FoundDelivered, StatusOfOrder, Handling
    <3>3. Told(responses, r) BY <1>2, <3>1, <3>2, TailFacts DEF Told, DataOK
    <3>4. Authorized(o) BY <1>2, <3>2, <3>3 DEF AnswerInv, Tells, Begun
    <3>5. Ready(o, g) BY <1>1, <2>7, <3>2, <3>4 DEF Closing
    <3> QED BY <1>2, <1>3, <3>4, <3>5, ReadyStays
  <2> QED BY <1>3, <2>1, <2>3, <2>8, <2>9 DEF AddsAfter
<1> QED BY <1>5, <1>6

\* Every step keeps the invariant.
LEMMA SoundStep ==
  ASSUME Ground, Ground', Grown, [Next]_vars, Alone, Alone',
         NEW o \in Orders, NEW d \in Dispensers, NEW c \in Nat, Sound(o, c, d)
  PROVE  Sound(o, c, d)'
<1>1. ASSUME Live(o, c, d)'
      PROVE  Begins(o, d)' /\ Closing(o, c, d)' /\ Earlier(o, c, GaugeOf[d])'
  <2>1. Starts(o, c, d) \/ (Live(o, c, d) /\ (OrderCreatedEvent => orders'[d] = orders[d]))
    BY <1>1, LiveFrom
  <2>2. CASE Starts(o, c, d)
    <3>1. ~Authorized(o) /\ log' = log /\ orders'[d].closed = FALSE
      BY <2>2, StartsFresh DEF Starts
    <3>2. Begins(o, d)' BY <3>1 DEF Begins, Authorized, AuthorizedAt
    <3>3. Closing(o, c, d)' BY <3>1 DEF Closing
    <3> QED BY <2>2, <3>2, <3>3, EarlierStarts
  <2>3. CASE Live(o, c, d) /\ (OrderCreatedEvent => orders'[d] = orders[d])
    BY <1>1, <2>3, BeginsStep, ClosingStep, EarlierStep DEF Sound
  <2> QED BY <2>1, <2>2, <2>3
<1>2. ASSUME CreatedAt(c, o, d)', Clean(o, c)' PROVE Ending(o, d)' BY <1>2, EndingStep
<1> QED BY <1>1, <1>2 DEF Sound

\* It holds of all orders as long as each tank has one dispenser.
AllSound == Alone => \A o \in Orders, d \in Dispensers, c \in Nat : Sound(o, c, d)

\* Only a reading given to an AFTER task sends a sale.
LEMMA ReportSent ==
  ASSUME DataOK, SalesOK, [Next]_vars, NEW o \in Orders, reports'[o] # reports[o]
  PROVE  \E g \in Gauges :
           /\ batch = <<>> /\ gauge_queue[g] # <<>> /\ Head(gauge_queue[g]) = After(o)
           /\ o \in DOMAIN sales
           /\ reports'[o] = Append(reports[o],
                [sales[o] EXCEPT !.before = @ \/ sales[o].type = "Revert"])
<1>1. ParametersAfter
  <2>1. CASE Display \/ Poll \/ checkTimers
    BY <2>1 DEF Display, handleChooseTRK, ForgetDispenser, createOrder, handleBasicTouch, tellVars,
                CloseOrderButton, BeginFuelling, CancelTransactionButton, Poll, checkTimers
  <2>2. CASE Core
    BY <2>2 DEF Core, EventsAnswer, StatusEvent, OrderChangedEvent, OrderCreatedEvent, tellVars,
                StatusWithoutOrder, StatusOfDeadOrder, StatusOfOrder, LowVolumeAnswer,
                ParametersWithoutTask, ParametersBefore
  <2>3. CASE CardTerminal
    BY <2>3 DEF CardTerminal, PaymentSuccess, PaymentFailure, ConfirmAnswer, CancelAnswer, tellVars
  <2>4. CASE Controller
    BY <2>4 DEF Controller, ServeEvents, ServeStatus, ServeParameters, ServeCreate, tellVars,
                ServeAuthorize, ServeClose, RequestFails, Answer, Acknowledge, LiftNozzle, HangNozzle,
                StartFuelling, Deliver, Interrupt, Forecourt
  <2>5. CASE UNCHANGED vars BY <2>5 DEF vars, tellVars
  <2> QED BY <2>1, <2>2, <2>3, <2>4, <2>5 DEF Next
<1>2. PICK g, q, p, s : g = Head(responses).gauge /\ q = gauge_queue[g] /\ p = Head(q).order /\ s = sales[p]
  OBVIOUS
<1>3. /\ batch = <<>> /\ responses # <<>> /\ Head(responses).kind = "parameters"
      /\ q # <<>> /\ Head(q).task = "AFTER" /\ p \in DOMAIN sales
      /\ reports' = [reports EXCEPT ![p] = Append(@, [s EXCEPT !.before = @ \/ s.type = "Revert"])]
  BY <1>1, <1>2 DEF ParametersAfter, Handling, CoreIdle
<1>4. g \in Gauges BY <1>2, <1>3, FrontTypes, Responses
<1>5. p = o /\ reports'[o] = Append(reports[o], [s EXCEPT !.before = @ \/ s.type = "Revert"])
  BY <1>3 DEF SalesOK, OrderOrNone
<1>6. q \in Seq(PendingGaugeTask) BY <1>2, <1>4 DEF DataOK
<1>7. Head(q) \in PendingGaugeTask BY <1>3, <1>6
<1>8. Head(q) = After(o) BY <1>2, <1>3, <1>5, <1>7 DEF PendingGaugeTask, After
<1> QED BY <1>2, <1>3, <1>4, <1>5, <1>8

\* A tank of which a query failed stays one.
LEMMA UnreadStep ==
  ASSUME DataOK, Grown, FailuresKept
  PROVE  Unread \subseteq Unread'
<1> SUFFICES ASSUME NEW o \in Orders, NEW i \in 1..Len(log), log[i].what = "created",
                    log[i].order = o, failed[GaugeOf[log[i].dev]] > 0
    PROVE  o \in Unread'
  BY DEF Unread
<1>1. log[i].dev \in Dispensers
  <2>1. log[i] \in Event BY DEF DataOK
  <2> QED BY <2>1 DEF Event
<1>2. failed'[GaugeOf[log[i].dev]] > 0 BY <1>1, GaugeIds DEF FailuresKept
<1>3. i \in 1..Len(log') /\ log'[i] = log[i] BY DEF Grown, DataOK
<1> QED BY <1>2, <1>3 DEF Unread

\* The sale that is sent has its type and its reading.
LEMMA CompleteStep ==
  ASSUME Ground, [Next]_vars, AllSound, SaleIsComplete
  PROVE  SaleIsComplete'
<1>1. DataOK /\ SalesOK /\ AfterInv /\ CountInv /\ RecordOnce /\ ConfirmInv BY GroundFacts
<1>2. Ground' /\ Grown /\ FailuresKept /\ FailedOK BY GroundStep, GroundFacts
<1> SUFFICES ASSUME Alone', NEW o \in Orders, o \notin cancelled', o \notin untimely', o \notin repeated',
                    o \notin Unread', NEW i \in 1..Len(reports'[o])
    PROVE  reports'[o][i].type # "" /\ reports'[o][i].before
  BY DEF SaleIsComplete, Alone, OneOnTank
<1>3. Alone BY <1>1, <1>2, StillAlone
<1>4. o \notin cancelled /\ o \notin untimely /\ o \notin repeated /\ o \notin Unread
  <2>1. o \notin cancelled /\ o \notin untimely /\ o \notin repeated BY HistoriesGrow
  <2>2. o \notin Unread BY <1>1, <1>2, UnreadStep
  <2> QED BY <2>1, <2>2
<1>5. ASSUME NEW j \in 1..Len(reports[o]) PROVE reports[o][j].type # "" /\ reports[o][j].before
  BY <1>3, <1>4 DEF SaleIsComplete, Alone
<1>6. CASE reports'[o] = reports[o] BY <1>5, <1>6
<1>7. CASE reports'[o] # reports[o]
  <2>1. PICK s, v : s = sales[o] /\ v = [s EXCEPT !.before = @ \/ s.type = "Revert"] OBVIOUS
  <2>2. PICK g \in Gauges :
           /\ batch = <<>> /\ gauge_queue[g] # <<>> /\ Head(gauge_queue[g]) = After(o)
           /\ o \in DOMAIN sales /\ reports'[o] = Append(reports[o], v)
    BY <1>1, <1>7, <2>1, ReportSent
  <2>3. PICK q : q = gauge_queue[g] OBVIOUS
  <2>4. q \in Seq(PendingGaugeTask) /\ q # <<>> BY <1>1, <2>2, <2>3 DEF DataOK
  <2>5. 1 \in 1..Len(q) /\ q[1] = After(o) /\ Len(q) \in Nat
    BY <2>2, <2>3, <2>4, TailFacts
  <2>6. Told(gauge_queue[g], After(o)) BY <2>3, <2>5 DEF Told
  <2>7. Due(o, g) BY <1>1, <2>6 DEF AfterInv
  <2>8. PICK c \in 1..Len(log) : Created(log[c]) /\ log[c].order = o /\ GaugeOf[log[c].dev] = g
    BY <2>7 DEF Due
  <2>9. PICK d : d = log[c].dev OBVIOUS
  <2>10. d \in Dispensers /\ GaugeOf[d] = g /\ CreatedAt(c, o, d) /\ c \in Nat
    <3>1. log \in Seq(Event) BY <1>1 DEF DataOK
    <3>2. log[c] \in Event /\ c \in Nat BY <3>1
    <3> QED BY <2>8, <2>9, <3>2 DEF Event, CreatedAt
  <2>11. reports[o] \in Seq(SalesData) BY <1>1 DEF SalesOK, OrderOrNone
  <2>12. reports[o] = <<>> /\ confirms[o] >= 1
    <3>1. Len(reports[o]) < confirms[o] BY <1>4, <2>7 DEF Due
    <3>2. confirms[o] <= records[o] /\ records[o] <= 1 BY <1>1, <1>4 DEF CountInv, RecordOnce
    <3>3. /\ confirms[o] \in Nat /\ records[o] \in Nat BY <1>1 DEF DataOK, OrderOrNone
    <3>4. Len(reports[o]) \in Nat BY <2>11
    <3>5. Len(reports[o]) = 0 /\ confirms[o] >= 1 BY <3>1, <3>2, <3>3, <3>4
    <3> QED BY <2>11, <3>5
  <2>13. Clean(o, c)
    <3>1. Len(<<>>) = 0 /\ ~\E j : j \in 1..0 OBVIOUS
    <3>2. failed[g] = 0
      <4>1. ~(failed[g] > 0) BY <1>4, <2>8 DEF Unread, Created
      <4>2. failed[g] \in Nat BY <1>2 DEF FailedOK
      <4> QED BY <4>1, <4>2
    <3> QED BY <1>4, <2>2, <2>8, <3>1, <3>2 DEF Clean
  <2>14. Ready(o, g)
    <3>1. Sound(o, c, d) BY <1>3, <2>10 DEF AllSound
    <3> QED BY <2>6, <2>10, <2>13, <3>1 DEF Sound, Ending
  <2>15. ~WaitsFirst(o, g)
    <3>1. SUFFICES ASSUME NEW k \in 1..Len(q), q[k] = Before(o),
                          \A j \in 1..(k - 1) : q[j].task = "BEFORE"
          PROVE  FALSE
      BY <2>3 DEF WaitsFirst
    <3>2. CASE k = 1 BY <2>5, <3>1, <3>2 DEF Before, After
    <3>3. CASE k # 1
      <4>1. 1 \in 1..(k - 1) BY <2>5, <3>3
      <4>2. q[1].task = "BEFORE" BY <3>1, <4>1
      <4> QED BY <2>5, <4>2 DEF After
    <3> QED BY <3>2, <3>3
  <2>16. s.before /\ s.type # ""
    BY <1>1, <1>4, <2>1, <2>12, <2>14, <2>15 DEF Ready, ConfirmInv
  <2>17. s \in SalesData BY <1>1, <2>1, <2>2 DEF SalesOK
  <2>18. v.type # "" /\ v.before BY <2>1, <2>16, <2>17 DEF SalesData
  <2>19. Len(reports'[o]) = 1 /\ reports'[o][1] = v BY <2>2, <2>11, <2>12
  <2>20. i = 1 BY <2>19
  <2> QED BY <2>18, <2>19, <2>20
<1> QED BY <1>6, <1>7

\* The sale of an order that was never cancelled reaches BOS with its type and with
\* the gauge reading from before the fuelling (processParameters()), for any number
\* of dispensers, tanks, orders, polls, payments, touches and failed requests, if no
\* query of its own gauge failed: each tank having one dispenser, no task of another
\* order can take the reading of its own away.
THEOREM SaleComplete == Spec => []SaleIsComplete
<1>1. Init => Ground /\ AllSound /\ SaleIsComplete
  <2> SUFFICES ASSUME Init PROVE AllSound /\ SaleIsComplete BY InitGround
  <2>1. Len(<<>>) = 0 /\ ~\E k : k \in 1..0 OBVIOUS
  <2>2. \A c, o, d : ~CreatedAt(c, o, d)
    <3>1. log = <<>> BY DEF Init
    <3> QED BY <2>1, <3>1 DEF CreatedAt
  <2>3. AllSound BY <2>2 DEF AllSound, Sound, Live
  <2>4. SaleIsComplete
    <3>1. \A o \in Orders : reports[o] = <<>> BY DEF Init, OrderOrNone
    <3> QED BY <2>1, <3>1 DEF SaleIsComplete
  <2> QED BY <2>3, <2>4
<1>2. ASSUME Ground, AllSound, SaleIsComplete, [Next]_vars
      PROVE  Ground' /\ AllSound' /\ SaleIsComplete'
  <2>1. Ground' /\ Grown BY <1>2, GroundStep
  <2>2. ASSUME Alone', NEW o \in Orders, NEW d \in Dispensers, NEW c \in Nat PROVE Sound(o, c, d)'
    <3>1. Alone BY <1>2, <2>1, <2>2, StillAlone, GroundFacts
    <3>2. Sound(o, c, d) BY <1>2, <3>1 DEF AllSound
    <3> QED BY <1>2, <2>1, <2>2, <3>1, <3>2, SoundStep
  <2>3. AllSound' BY <2>2 DEF AllSound
  <2> QED BY <1>2, <2>1, <2>3, CompleteStep
<1> QED BY <1>1, <1>2, PTL DEF Spec
=============================================================================
