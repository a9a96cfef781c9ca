---------------------------- MODULE FuelReception ----------------------------
(***************************************************************************)
(* Level gauges in src/logic/PrimeLogic: the service menu pages through    *)
(* them, a fuel reception reads the gauge of its tank when it is accepted, *)
(* every second while it runs and when it is finished, and the orders wait *)
(* for readings before and after fuelling.  All of them ask the controller *)
(* with the same request, and an answer does not say who asked.            *)
(*                                                                         *)
(* A reading is known by its gauge, by how often the tank had changed when *)
(* it was taken, and by the whole cubic metres of its total volume.  Of an *)
(* order only the two events that queue a gauge task are kept; PrimeLogic  *)
(* models the rest.  Controller, trucks and customers are external.        *)
(***************************************************************************)
EXTENDS Integers, Sequences

CONSTANTS
  GaugeSeq,       \* the devices named "vlg", in the order the controller lists them
  Orders,
  GaugeOf,        \* the gauge of the tank each order draws from
  Docs,           \* document numbers
  NoGauge, NoDoc, NoReading,
  Deliveries,     \* cubic metres a truck may bring
  MaxTouches,     \* bound: touches of the display
  MaxPours,       \* bound: deliveries of trucks
  MaxFaults,      \* bound: requests that end in an error
  MaxHttp         \* bound: requests and answers waiting when a touch or tick comes

Gauges == {GaugeSeq[i] : i \in DOMAIN GaugeSeq}

ASSUME ReceptionConstants ==
  /\ GaugeSeq \in Seq(Gauges) \ {<<>>}
  /\ GaugeOf \in [Orders -> Gauges]
  /\ NoGauge \notin Gauges /\ NoDoc \notin Docs
  /\ NoReading \notin [gauge : Gauges, at : Nat, m3 : Nat]
  /\ Deliveries \subseteq Nat
  /\ {MaxTouches, MaxPours, MaxFaults, MaxHttp} \subseteq Nat

VARIABLES
  alive,      \* the process runs
  gauges,     \* m_level_gauge is filled
  tankers,    \* m_tankers is filled
  reading,    \* the values of m_level_gauge
  index,      \* m_current_level_gauge_index, counted from 1
  active,     \* m_reception_active
  rgauge,     \* m_reception_level_gauge_id
  doc,        \* m_reception_document_number
  initial,    \* m_reception_initial_state
  tasks,      \* m_pending_level_gauge_orders
  sales,      \* m_pending_info_sales: is it there, and the reading before
  waiting,    \* m_waitingResponse
  last,       \* m_lastId
  batch,      \* ids of the events that processEvent() has still to visit
  requests, responses,   \* the HTTP worker's queue and the core queue
  tank,       \* the tanks: changes so far and cubic metres
  log,        \* the controller's events
  started,    \* history: changes of the tank when the reception was accepted
  reports,    \* history: receptions reported
  sold,       \* history: sales reported, with their readings
  ended,      \* history: changes of the tank when each order ended, 0 before
  touches, pours, faults

gaugeVars     == <<gauges, tankers, reading>>
receptionVars == <<active, rgauge, doc, initial, started, reports>>
orderVars     == <<tasks, sales, sold>>
srvVars       == <<tank, log, ended, pours>>
pollVars      == <<last, batch>>
vars == <<alive, gaugeVars, index, receptionVars, orderVars, waiting, pollVars, requests,
          responses, srvVars, touches, faults>>

Reading == [gauge : Gauges, at : Nat, m3 : Nat]
AnyReading == Reading \cup {NoReading}
PendingGaugeTask == [order : Orders, task : {"BEFORE", "AFTER"}]
Request ==
       [what : {"devices", "tankers"}]
  \cup [what : {"events"}, from : Nat]
  \cup [what : {"parameters"}, gauge : Gauges]
Response ==
       [what : {"devices", "tankers", "error"}]
  \cup [what : {"events"}, from : Nat, upto : Nat]
  \cup [what : {"parameters"}, reading : Reading]

TypeOK ==
  /\ alive \in BOOLEAN /\ gauges \in BOOLEAN /\ tankers \in BOOLEAN
  /\ reading \in [Gauges -> AnyReading]
  /\ index \in DOMAIN GaugeSeq
  /\ active \in BOOLEAN
  /\ rgauge \in Gauges \cup {NoGauge}
  /\ doc \in Docs \cup {NoDoc}
  /\ initial \in AnyReading
  /\ tasks \in [Gauges -> Seq(PendingGaugeTask)]
  /\ sales \in [Orders -> [pending : BOOLEAN, before : AnyReading]]
  /\ waiting \in BOOLEAN /\ last \in Nat
  /\ batch \subseteq 1..Len(log)
  /\ requests \in Seq(Request)
  /\ responses \in Seq(Response)
  /\ tank \in [Gauges -> [at : Nat, m3 : Nat]]
  /\ log \in Seq(PendingGaugeTask)
  /\ started \in Nat
  /\ \A r \in reports : /\ r.gauge \in Gauges /\ r.doc \in Docs
                        /\ r.initial \in Reading /\ r.final \in Reading
  /\ \A s \in sold : s.order \in Orders /\ s.before \in AnyReading /\ s.after \in Reading
  /\ ended \in [Orders -> Nat]
  /\ touches \in 0..MaxTouches /\ pours \in 0..MaxPours /\ faults \in 0..MaxFaults

-----------------------------------------------------------------------------
getParameters(g) == <<[what |-> "parameters", gauge |-> g]>>

NoSale == [pending |-> FALSE, before |-> NoReading]

\* startLoop() has asked for devices and tankers.
Init ==
  /\ alive = TRUE /\ gauges = FALSE /\ tankers = FALSE
  /\ reading = [g \in Gauges |-> NoReading]
  /\ index = 1
  /\ active = FALSE /\ rgauge = NoGauge /\ doc = NoDoc /\ initial = NoReading
  /\ tasks = [g \in Gauges |-> <<>>]
  /\ sales = [o \in Orders |-> NoSale]
  /\ waiting = FALSE /\ last = 0 /\ batch = {}
  /\ requests = <<[what |-> "devices"], [what |-> "tankers"]>>
  /\ responses = <<>>
  /\ tank = [g \in Gauges |-> [at |-> 0, m3 |-> 0]]
  /\ log = <<>>
  /\ started = 0 /\ reports = {} /\ sold = {}
  /\ ended = [o \in Orders |-> 0]
  /\ touches = 0 /\ pours = 0 /\ faults = 0

-----------------------------------------------------------------------------
(* The service menu, on the core thread.                                   *)

\* The core thread is between two messages.
CoreIdle == alive /\ batch = {}

\* A touch reaches handle(), which clears the flag first.
Touch ==
  /\ CoreIdle
  /\ touches < MaxTouches
  /\ Len(requests) + Len(responses) < MaxHttp
  /\ touches' = touches + 1
  /\ waiting' = FALSE
  /\ UNCHANGED <<gaugeVars, orderVars, pollVars, responses, srvVars, faults>>

\* PIN_PAD_ENTER_DOCUMENT_NUMBER; the pad sends no empty text.
EnterDocument(d) ==
  /\ Touch
  /\ doc' = d
  /\ UNCHANGED <<alive, index, active, rgauge, initial, started, reports, requests>>

\* processReceptionTanker().
processReceptionTanker ==
  /\ Touch
  /\ LET g == GaugeSeq[index]
     IN  IF doc = NoDoc \/ ~gauges \/ ~tankers
         THEN UNCHANGED <<active, rgauge, initial, started, requests>>
         ELSE /\ initial' = reading[g]
              /\ active' = TRUE
              /\ rgauge' = g
              /\ started' = tank[g].at
              /\ requests' = requests \o getParameters(g)
  /\ UNCHANGED <<alive, index, doc, reports>>

\* calculateFuelLiters(): stod() stops at the comma, so whole cubic metres count.
calculateFuelLiters(before, after) == 1000 * (after.m3 - before.m3)

\* What is left of a quantity: createFuelReceiptData() assigns the double to a
\* string, which makes it one character.  The conversion of a number that no
\* char holds is undefined; compilers go through an int and keep its low byte.
Character(litres) == litres % 256
Digits == 48..57

NotStored == -1

\* handleBosReceipt() reads the character as a number again.
StoredLitres(litres) ==
  IF Character(litres) \in Digits THEN Character(litres) - 48 ELSE NotStored

\* handleFinishReceptionFuel(): print, report to BOS, reset.  Two exceptions
\* leave handle() and end the process: stod() of a reading that never came, and
\* dump() of a character that is not UTF-8.
handleFinishReceptionFuel ==
  /\ Touch
  /\ LET g == rgauge
         read == initial # NoReading /\ reading[g] # NoReading
         litres == calculateFuelLiters(initial, reading[g])
     IN  IF active
         THEN /\ alive' = (read /\ Character(litres) < 128)
              /\ reports' = IF read
                            THEN reports \cup
                                 {[gauge |-> g, doc |-> doc, initial |-> initial,
                                   final |-> reading[g], started |-> started,
                                   litres |-> StoredLitres(litres)]}
                            ELSE reports
         ELSE UNCHANGED <<alive, reports>>
  /\ active' = FALSE /\ rgauge' = NoGauge /\ doc' = NoDoc
  /\ UNCHANGED <<index, initial, started, requests>>

\* getPaginationIndex(), from 1.
getPaginationIndex(i, direction) ==
  IF i + direction > Len(GaugeSeq) THEN 1
  ELSE IF i + direction < 1 THEN Len(GaugeSeq) ELSE i + direction

changeLevelGauge(direction) ==
  /\ Touch
  /\ gauges
  /\ index' = getPaginationIndex(index, direction)
  /\ requests' = requests \o getParameters(GaugeSeq[index'])
  /\ UNCHANGED <<alive, receptionVars>>

\* handleLevelGaugeButton() takes an element of m_level_gauge without a test.
handleLevelGaugeButton ==
  /\ Touch
  /\ alive' = gauges
  /\ UNCHANGED <<index, receptionVars, requests>>

-----------------------------------------------------------------------------
(* The tick, on the io thread.                                             *)

\* Mutant: only the Accept button reads the gauge.
Watch_Never == <<>>

Watch == IF active THEN getParameters(rgauge) ELSE <<>>

\* onTimerExpired(): poll the events, read the gauge of the reception.
onTimerExpired ==
  /\ alive
  /\ Len(requests) + Len(responses) < MaxHttp
  /\ waiting' = TRUE
  /\ requests' = requests \o (IF waiting THEN <<>> ELSE <<[what |-> "events", from |-> last]>>)
                           \o Watch
  /\ UNCHANGED <<alive, gaugeVars, index, receptionVars, orderVars, pollVars, responses,
                 srvVars, touches, faults>>

-----------------------------------------------------------------------------
(* Answers, on the core thread.                                            *)

Answered(w) ==
  /\ CoreIdle
  /\ responses # <<>>
  /\ Head(responses).what = w
  /\ responses' = Tail(responses)
  /\ waiting' = FALSE
  /\ UNCHANGED <<index, receptionVars, srvVars, touches, faults>>

processDevices ==
  /\ Answered("devices")
  /\ gauges' = TRUE
  /\ requests' = requests \o [i \in DOMAIN GaugeSeq |-> getParameters(GaugeSeq[i])[1]]
  /\ UNCHANGED <<alive, tankers, reading, orderVars, pollVars>>

processTankers ==
  /\ Answered("tankers")
  /\ tankers' = TRUE
  /\ UNCHANGED <<alive, gauges, reading, orderVars, pollVars, requests>>

\* processEvent() of the answer's events, which it visits in a loop.
processEvent ==
  /\ Answered("events")
  /\ batch' = Head(responses).from + 1..Head(responses).upto
  /\ UNCHANGED <<alive, gaugeVars, orderVars, last, requests>>

\* Every event queues its task and asks for the gauge, while the HTTP worker may
\* already serve what an earlier one asked.  Without tankers the gauge is "",
\* which the controller does not know.
VisitEvent(n) ==
  /\ alive
  /\ \A m \in batch : n <= m
  /\ batch' = batch \ {n}
  /\ last' = n
  /\ LET e == log[n]
         g == GaugeOf[e.order]
     IN  /\ sales' = IF e.task = "BEFORE" THEN [sales EXCEPT ![e.order].pending = TRUE]
                                          ELSE sales
         /\ IF tankers
            THEN /\ tasks' = [tasks EXCEPT ![g] = Append(@, e)]
                 /\ requests' = requests \o getParameters(g)
            ELSE UNCHANGED <<tasks, requests>>
  /\ UNCHANGED <<alive, gaugeVars, index, receptionVars, sold, waiting, responses, srvVars,
                 touches, faults>>

\* Mutant: the task is served before the answer is stored.
TaskReading_Old(r) == reading[r.gauge]

TaskReading(r) == r

\* What a task makes of a reading.
ServeTask(t, r) ==
  LET s == sales[t.order]
  IN  \/ /\ ~s.pending
         /\ tasks' = [tasks EXCEPT ![r.gauge] = Tail(@)]
         /\ UNCHANGED <<sales, sold>>
      \/ /\ s.pending /\ t.task = "BEFORE"
         /\ sales' = [sales EXCEPT ![t.order].before = TaskReading(r)]
         /\ tasks' = [tasks EXCEPT ![r.gauge] = Tail(@)]
         /\ UNCHANGED sold
      \/ /\ s.pending /\ t.task = "AFTER"
         /\ sold' = sold \cup {[order |-> t.order, before |-> s.before,
                                after |-> TaskReading(r)]}
         /\ sales' = [sales EXCEPT ![t.order] = NoSale]
         /\ tasks' = [tasks EXCEPT ![r.gauge] = <<>>]

\* processParameters(): store the reading, and serve the first task of the gauge.
\* A gauge that m_level_gauge does not have is a null pointer.
processParameters ==
  /\ Answered("parameters")
  /\ alive' = gauges
  /\ LET r == Head(responses).reading
     IN  /\ reading' = [reading EXCEPT ![r.gauge] = r]
         /\ \/ /\ tasks[r.gauge] = <<>>
               /\ UNCHANGED orderVars
            \/ /\ tasks[r.gauge] # <<>>
               /\ ServeTask(Head(tasks[r.gauge]), r)
  /\ UNCHANGED <<gauges, tankers, pollVars, requests>>

\* processHandleHttpError(): nobody asks again.
processHandleHttpError ==
  /\ Answered("error")
  /\ UNCHANGED <<alive, gaugeVars, orderVars, pollVars, requests>>

-----------------------------------------------------------------------------
(* The HTTP worker, the controller and the world.                          *)

\* Mutant: the newest answer is handled first.
Receive_First(x) == <<x>> \o responses

\* The answer is pushed into the core queue.
Receive(x) == Append(responses, x)

TakeRequest ==
  /\ alive
  /\ requests # <<>>
  /\ requests' = Tail(requests)
  /\ UNCHANGED <<alive, gaugeVars, index, receptionVars, orderVars, waiting, pollVars,
                 srvVars, touches>>

\* What the controller answers.
AnswerTo(q) ==
  CASE q.what = "events"     -> [what |-> "events", from |-> q.from, upto |-> Len(log)]
    [] q.what = "parameters" -> [what |-> "parameters",
                                 reading |-> [gauge |-> q.gauge, at |-> tank[q.gauge].at,
                                              m3 |-> tank[q.gauge].m3]]
    [] OTHER                 -> [what |-> q.what]

Serve ==
  /\ TakeRequest
  /\ responses' = Receive(AnswerTo(Head(requests)))
  /\ UNCHANGED faults

Fail ==
  /\ TakeRequest
  /\ faults < MaxFaults
  /\ faults' = faults + 1
  /\ responses' = Receive([what |-> "error"])

programVars == <<alive, gaugeVars, index, receptionVars, orderVars, waiting, pollVars,
                 requests, responses, touches, faults>>

\* A truck fills a tank.
Pour(g, v) ==
  /\ pours < MaxPours
  /\ pours' = pours + 1
  /\ tank' = [tank EXCEPT ![g] = [at |-> @.at + 1, m3 |-> @.m3 + v]]
  /\ UNCHANGED <<programVars, log, ended>>

Logged(e) == \E i \in DOMAIN log : log[i] = e

\* The event AUTHORIZED of an order.
Authorize(o) ==
  /\ ~Logged([order |-> o, task |-> "BEFORE"])
  /\ log' = Append(log, [order |-> o, task |-> "BEFORE"])
  /\ UNCHANGED <<programVars, tank, ended, pours>>

\* The event that says IDLE after the delivery; less than a cubic metre is gone.
EndOrder(o) ==
  /\ Logged([order |-> o, task |-> "BEFORE"])
  /\ ~Logged([order |-> o, task |-> "AFTER"])
  /\ log' = Append(log, [order |-> o, task |-> "AFTER"])
  /\ tank' = [tank EXCEPT ![GaugeOf[o]].at = @ + 1]
  /\ ended' = [ended EXCEPT ![o] = tank'[GaugeOf[o]].at]
  /\ UNCHANGED <<programVars, pours>>

-----------------------------------------------------------------------------
Answers ==
  \/ processDevices \/ processTankers \/ processEvent
  \/ \E n \in batch : VisitEvent(n)
  \/ processParameters \/ processHandleHttpError

Next ==
  \/ \E d \in Docs : EnterDocument(d)
  \/ processReceptionTanker
  \/ handleFinishReceptionFuel
  \/ \E direction \in {-1, 1} : changeLevelGauge(direction)
  \/ handleLevelGaugeButton
  \/ onTimerExpired
  \/ Answers
  \/ Serve
  \/ Fail
  \/ \E g \in Gauges, v \in Deliveries : Pour(g, v)
  \/ \E o \in Orders : Authorize(o) \/ EndOrder(o)

Spec == Init /\ [][Next]_vars

\* Core thread, worker and timer run, and the controller answers.
FairSpec == Spec /\ WF_vars(Answers) /\ WF_vars(Serve) /\ WF_vars(onTimerExpired)

-----------------------------------------------------------------------------
(* Properties.                                                             *)

\* A reception is reported with a document number and two readings of its own
\* gauge, whatever gauge the pages moved to or was accepted in between; and the
\* last is not older than the first, although pages, ticks and orders ask for
\* the same gauge and an answer does not say for whom.
ReportInOrder ==
  \A r \in reports :
    /\ r.doc # NoDoc
    /\ r.initial.gauge = r.gauge /\ r.final.gauge = r.gauge
    /\ r.initial.at <= r.final.at

\* The reading after fuelling in a sale is one of its own tank, taken after the
\* order ended, even if it was asked for by a page or a reception; the reading
\* before fuelling is not younger.
SaleReadings ==
  \A s \in sold :
    /\ s.after.gauge = GaugeOf[s.order]
    /\ ended[s.order] > 0 /\ s.after.at >= ended[s.order]
    /\ s.before # NoReading => s.before.at <= s.after.at

\* While a reception runs, its page comes to show what the truck has poured.
PageFollowsTank ==
  <>[](alive /\ active => /\ reading[rgauge] # NoReading
                          /\ reading[rgauge].at = tank[rgauge].at)

\* Refuted: the litres stored for a reception are those it received
\* (createFuelReceiptData() keeps one character of them).
ReceptionStored ==
  \A r \in reports : r.litres = calculateFuelLiters(r.initial, r.final)

\* Refuted: the initial state saved by Accept is the state at that time (it is
\* the last one read, perhaps long ago).
InitialIsCurrent == \A r \in reports : r.initial.at = r.started

\* Refuted: no touch of the service menu ends the process.
MenuKeepsRunning == alive
=============================================================================
