-------------------------- MODULE FuelReceptionProofs --------------------------
(***************************************************************************)
(* Proofs about FuelReception, for any gauges, orders and documents and    *)
(* any number of touches, deliveries and lost answers.  An answer does not *)
(* say who asked for it; what saves the readings is that requests and      *)
(* answers are queues: whatever is read after an event was visited was     *)
(* taken after the event happened.                                         *)
(***************************************************************************)
EXTENDS FuelReception, TLAPS

Tank == [at : Nat, m3 : Nat]
Sale == [pending : BOOLEAN, before : AnyReading]

\* What the argument needs of the types.
DataOK ==
  /\ reading \in [Gauges -> AnyReading]
  /\ index \in 1..Len(GaugeSeq)
  /\ active => rgauge \in Gauges
  /\ initial \in AnyReading
  /\ tasks \in [Gauges -> Seq(PendingGaugeTask)]
  /\ sales \in [Orders -> Sale]
  /\ last \in Nat
  /\ requests \in Seq(Request) /\ responses \in Seq(Response)
  /\ tank \in [Gauges -> Tank]
  /\ log \in Seq(PendingGaugeTask)
  /\ ended \in [Orders -> Nat]

\* The constants, requests and answers in the form in which they are used.
LEMMA Facts ==
  /\ GaugeSeq \in Seq(Gauges) /\ Len(GaugeSeq) \in Nat \ {0}
  /\ DOMAIN GaugeSeq = 1..Len(GaugeSeq)
  /\ \A i \in 1..Len(GaugeSeq) : GaugeSeq[i] \in Gauges
  /\ \A o \in Orders : GaugeOf[o] \in Gauges
  /\ NoDoc \notin Docs /\ NoReading \notin Reading
  BY ReceptionConstants DEF Reading

LEMMA AskGauge ==
  ASSUME NEW g \in Gauges
  PROVE  getParameters(g) \in Seq(Request) /\ getParameters(g)[1] \in Request
  BY DEF Request, getParameters

LEMMA AskOther ==
  /\ <<>> \in Seq(Request)
  /\ \A n \in Nat : <<[what |-> "events", from |-> n]>> \in Seq(Request)
  /\ <<[what |-> "devices"], [what |-> "tankers"]>> \in Seq(Request)
  BY DEF Request

\* The pages stay among the gauges.
LEMMA Page ==
  ASSUME NEW i \in 1..Len(GaugeSeq), NEW direction \in {-1, 1}
  PROVE  getPaginationIndex(i, direction) \in 1..Len(GaugeSeq)
<1>1. Len(GaugeSeq) \in Nat \ {0} BY Facts
<1>2. CASE direction = 1 BY <1>1, <1>2 DEF getPaginationIndex
<1>3. CASE direction = -1 BY <1>1, <1>3 DEF getPaginationIndex
<1> QED BY <1>2, <1>3

LEMMA Responses ==
  /\ \A x \in Response : /\ x.what = "parameters" => x.reading \in Reading
                         /\ x.what = "events" => x.from \in Nat /\ x.upto \in Nat
  /\ \A r \in Reading : r.gauge \in Gauges /\ r.at \in Nat
  /\ [what |-> "error"] \in Response
  BY DEF Response, Reading

\* Sequences and functions keep their types.
LEMMA Concat ==
  ASSUME NEW S, NEW s \in Seq(S), NEW t \in Seq(S) PROVE s \o t \in Seq(S)
  OBVIOUS

LEMMA Push ==
  ASSUME NEW S, NEW s \in Seq(S), NEW x \in S PROVE Append(s, x) \in Seq(S)
  OBVIOUS

LEMMA Replace ==
  ASSUME NEW S, NEW T, NEW f \in [S -> T], NEW a \in S, NEW v \in T
  PROVE  [f EXCEPT ![a] = v] \in [S -> T]
  OBVIOUS

\* The controller's answer is one, and a reading is that of the tank now.
LEMMA AnswerIsResponse ==
  ASSUME DataOK, NEW q \in Request
  PROVE  /\ AnswerTo(q) \in Response
         /\ AnswerTo(q).what = "parameters" =>
              AnswerTo(q).reading.at = tank[AnswerTo(q).reading.gauge].at
         /\ AnswerTo(q).what = "events" => AnswerTo(q).upto = Len(log)
<1>1. CASE q.what = "events"
  <2>1. q.from \in Nat BY <1>1 DEF Request
  <2>2. AnswerTo(q) = [what |-> "events", from |-> q.from, upto |-> Len(log)]
    BY <1>1 DEF AnswerTo
  <2>3. Len(log) \in Nat BY DEF DataOK
  <2> QED BY <2>1, <2>2, <2>3 DEF Response
<1>2. CASE q.what = "parameters"
  <2>1. q.gauge \in Gauges BY <1>2 DEF Request
  <2>2. AnswerTo(q) = [what |-> "parameters",
                       reading |-> [gauge |-> q.gauge, at |-> tank[q.gauge].at,
                                    m3 |-> tank[q.gauge].m3]]
    BY <1>2 DEF AnswerTo
  <2>3. tank[q.gauge].at \in Nat /\ tank[q.gauge].m3 \in Nat BY <2>1 DEF DataOK, Tank
  <2> QED BY <2>1, <2>2, <2>3 DEF Response, Reading
<1>3. CASE q.what \in {"devices", "tankers"}
  <2>1. AnswerTo(q) = [what |-> q.what] BY <1>3 DEF AnswerTo
  <2> QED BY <1>3, <2>1 DEF Response
<1> QED BY <1>1, <1>2, <1>3 DEF Request

\* A delivery and an order's end are changes of one tank.
LEMMA Poured ==
  ASSUME NEW t \in [Gauges -> Tank], NEW g \in Gauges
  PROVE  /\ [t EXCEPT ![g].at = @ + 1] \in [Gauges -> Tank]
         /\ \A v \in Nat :
              [t EXCEPT ![g] = [at |-> t[g].at + 1, m3 |-> t[g].m3 + v]] \in [Gauges -> Tank]
  BY DEF Tank

\* A served task leaves its gauge's list and sets the sale.
LEMMA ServeTypes ==
  ASSUME tasks \in [Gauges -> Seq(PendingGaugeTask)], sales \in [Orders -> Sale],
         NEW r \in Reading, r.gauge \in Gauges, tasks[r.gauge] # <<>>,
         ServeTask(Head(tasks[r.gauge]), r)
  PROVE  /\ tasks' \in [Gauges -> Seq(PendingGaugeTask)]
         /\ sales' \in [Orders -> Sale]
<1> DEFINE t == Head(tasks[r.gauge])
<1>1. t \in PendingGaugeTask /\ Tail(tasks[r.gauge]) \in Seq(PendingGaugeTask) OBVIOUS
<1>2. t.order \in Orders BY <1>1 DEF PendingGaugeTask
<1>3. \/ tasks' = [tasks EXCEPT ![r.gauge] = Tail(tasks[r.gauge])]
      \/ tasks' = [tasks EXCEPT ![r.gauge] = <<>>]
  BY DEF ServeTask
<1>4. <<>> \in Seq(PendingGaugeTask) OBVIOUS
<1>5. \/ sales' = sales \/ sales' = [sales EXCEPT ![t.order] = NoSale]
      \/ sales' = [sales EXCEPT ![t.order].before = r]
  BY DEF ServeTask, TaskReading
<1> HIDE DEF t
<1>6. NoSale \in Sale BY DEF Sale, NoSale, AnyReading
<1>7. ASSUME sales' = [sales EXCEPT ![t.order].before = r] PROVE sales' \in [Orders -> Sale]
  <2>1. sales[t.order] \in Sale /\ r \in AnyReading BY <1>2 DEF AnyReading
  <2>2. [sales[t.order] EXCEPT !.before = r] \in Sale BY <2>1 DEF Sale
  <2>3. sales' = [sales EXCEPT ![t.order] = [sales[t.order] EXCEPT !.before = r]] BY <1>7
  <2> QED BY <1>2, <2>2, <2>3, Replace
<1>8. sales' \in [Orders -> Sale] BY <1>2, <1>5, <1>6, <1>7, Replace
<1>9. CASE tasks' = [tasks EXCEPT ![r.gauge] = Tail(tasks[r.gauge])] BY <1>1, <1>8, <1>9, Replace
<1>10. CASE tasks' = [tasks EXCEPT ![r.gauge] = <<>>] BY <1>4, <1>8, <1>10, Replace
<1> QED BY <1>3, <1>9, <1>10

\* Nothing is read or asked but devices and tankers.
LEMMA InitData == Init => DataOK
<1> SUFFICES ASSUME Init PROVE DataOK OBVIOUS
<1>1. index \in 1..Len(GaugeSeq) BY Facts DEF Init
<1>2. requests \in Seq(Request) BY AskOther DEF Init
<1> QED BY <1>1, <1>2 DEF Init, DataOK, AnyReading, NoSale, Sale, Tank

\* Each step keeps the types.
LEMMA StepData == DataOK /\ batch \subseteq 1..Len(log) /\ [Next]_vars => DataOK'
<1> SUFFICES ASSUME DataOK, batch \subseteq 1..Len(log), [Next]_vars PROVE DataOK' OBVIOUS
<1> DEFINE Same == UNCHANGED <<reading, tasks, sales, last, responses, tank, log, ended>>
<1>a. requests \in Seq(Request) /\ responses \in Seq(Response) BY DEF DataOK
<1>b. tasks \in [Gauges -> Seq(PendingGaugeTask)] /\ log \in Seq(PendingGaugeTask) BY DEF DataOK
<1>c. sales \in [Orders -> Sale] BY DEF DataOK
<1>d. tank \in [Gauges -> Tank] BY DEF DataOK
<1>e. index \in 1..Len(GaugeSeq) BY DEF DataOK
<1>1. ASSUME NEW d \in Docs, EnterDocument(d) PROVE DataOK'
  BY <1>1 DEF EnterDocument, Touch, gaugeVars, orderVars, pollVars, srvVars, DataOK
<1>2. CASE processReceptionTanker
  <2>1. Same /\ UNCHANGED index
    BY <1>2 DEF processReceptionTanker, Touch, gaugeVars, orderVars, pollVars, srvVars
  <2>2. GaugeSeq[index] \in Gauges BY <1>e, Facts
  <2>3. requests' = requests \/ requests' = requests \o getParameters(GaugeSeq[index])
    BY <1>2 DEF processReceptionTanker
  <2>4. requests' \in Seq(Request) BY <1>a, <2>2, <2>3, AskGauge, Concat
  <2>5. (active' => rgauge' \in Gauges) /\ initial' \in AnyReading
    BY <1>2, <2>2 DEF processReceptionTanker, DataOK
  <2> QED BY <2>1, <2>4, <2>5 DEF DataOK
<1>3. CASE handleFinishReceptionFuel
  BY <1>3 DEF handleFinishReceptionFuel, Touch, gaugeVars, orderVars, pollVars, srvVars, DataOK
<1>4. ASSUME NEW direction \in {-1, 1}, changeLevelGauge(direction) PROVE DataOK'
  <2>1. Same /\ UNCHANGED <<active, rgauge, initial>>
    BY <1>4 DEF changeLevelGauge, Touch, gaugeVars, orderVars, pollVars, srvVars, receptionVars
  <2>2. index' = getPaginationIndex(index, direction) BY <1>4 DEF changeLevelGauge
  <2>3. index' \in 1..Len(GaugeSeq) BY <1>e, <2>2, Page
  <2>4. GaugeSeq[index'] \in Gauges BY <2>3, Facts
  <2>5. requests' = requests \o getParameters(GaugeSeq[index']) BY <1>4 DEF changeLevelGauge
  <2>6. requests' \in Seq(Request) BY <1>a, <2>4, <2>5, AskGauge, Concat
  <2> QED BY <2>1, <2>3, <2>6 DEF DataOK
<1>5. CASE handleLevelGaugeButton
  BY <1>5 DEF handleLevelGaugeButton, Touch, gaugeVars, orderVars, pollVars, srvVars,
              receptionVars, DataOK
<1>6. CASE onTimerExpired
  <2>1. Same /\ UNCHANGED <<index, active, rgauge, initial>>
    BY <1>6 DEF onTimerExpired, gaugeVars, orderVars, pollVars, srvVars, receptionVars
  <2> DEFINE poll == IF waiting THEN <<>> ELSE <<[what |-> "events", from |-> last]>>
  <2>2. Watch \in Seq(Request) BY AskGauge DEF Watch, DataOK
  <2>3. poll \in Seq(Request) BY AskOther DEF DataOK
  <2>4. requests' = requests \o poll \o Watch BY <1>6 DEF onTimerExpired
  <2> HIDE DEF poll
  <2>5. requests' \in Seq(Request) BY <1>a, <2>2, <2>3, <2>4, Concat
  <2> QED BY <2>1, <2>5 DEF DataOK
<1>7. ASSUME NEW w, Answered(w)
      PROVE  /\ UNCHANGED <<index, active, rgauge, initial, tank, log, ended>>
             /\ responses # <<>> /\ responses' = Tail(responses)
             /\ responses' \in Seq(Response) /\ Head(responses) \in Response
             /\ Head(responses).what = w
  <2>1. /\ UNCHANGED <<index, active, rgauge, initial, tank, log, ended>>
        /\ responses # <<>> /\ responses' = Tail(responses) /\ Head(responses).what = w
    BY <1>7 DEF Answered, receptionVars, srvVars
  <2> QED BY <1>a, <2>1
<1>8. CASE processDevices
  <2> DEFINE asks == [i \in DOMAIN GaugeSeq |-> getParameters(GaugeSeq[i])[1]]
  <2>1. asks \in Seq(Request)
    <3>1. \A i \in DOMAIN GaugeSeq : getParameters(GaugeSeq[i])[1] \in Request
      BY Facts, AskGauge
    <3>2. asks \in [1..Len(GaugeSeq) -> Request] BY <3>1, Facts
    <3> QED BY <3>2, Facts
  <2> HIDE DEF asks
  <2>2. requests' = requests \o asks BY <1>8 DEF processDevices, asks
  <2>3. requests' \in Seq(Request) BY <1>a, <2>1, <2>2, Concat
  <2>4. UNCHANGED <<reading, tasks, sales, last>>
    BY <1>8 DEF processDevices, orderVars, pollVars
  <2> QED BY <1>7, <1>8, <2>3, <2>4 DEF processDevices, DataOK
<1>9. CASE processTankers
  BY <1>7, <1>9 DEF processTankers, orderVars, pollVars, DataOK
<1>10. CASE processEvent
  BY <1>7, <1>10 DEF processEvent, gaugeVars, orderVars, DataOK
<1>11. CASE processHandleHttpError
  BY <1>7, <1>11 DEF processHandleHttpError, gaugeVars, orderVars, pollVars, DataOK
<1>12. CASE processParameters
  <2> DEFINE r == Head(responses).reading
  <2>1. Head(responses) \in Response /\ Head(responses).what = "parameters"
    BY <1>7, <1>12 DEF processParameters
  <2>2. r \in Reading /\ r.gauge \in Gauges BY <2>1, Responses
  <2>3. reading' = [reading EXCEPT ![r.gauge] = r] /\ UNCHANGED <<last, requests>>
    BY <1>12 DEF processParameters, pollVars
  <2>4. \/ UNCHANGED <<tasks, sales>>
        \/ tasks[r.gauge] # <<>> /\ ServeTask(Head(tasks[r.gauge]), r)
    BY <1>12 DEF processParameters, orderVars
  <2> HIDE DEF r
  <2>5. reading' \in [Gauges -> AnyReading] BY <2>2, <2>3 DEF AnyReading, DataOK
  <2>6. ASSUME tasks[r.gauge] # <<>>, ServeTask(Head(tasks[r.gauge]), r)
        PROVE  /\ tasks' \in [Gauges -> Seq(PendingGaugeTask)]
               /\ sales' \in [Orders -> Sale]
    BY <1>b, <1>c, <2>2, <2>6, ServeTypes
  <2> QED BY <1>7, <1>12, <2>3, <2>4, <2>5, <2>6 DEF processParameters, DataOK
<1>13. ASSUME NEW n \in batch, VisitEvent(n) PROVE DataOK'
  <2> DEFINE e == log[n]
             g == GaugeOf[e.order]
  <2>1. e \in PendingGaugeTask BY <1>b
  <2>2. e.order \in Orders /\ g \in Gauges BY <2>1, Facts DEF PendingGaugeTask
  <2>3. /\ last' = n /\ n \in Nat
        /\ UNCHANGED <<reading, index, active, rgauge, initial, responses, tank, log, ended>>
    BY <1>13, <1>b DEF VisitEvent, gaugeVars, receptionVars, srvVars
  <2>4. sales' = sales \/ sales' = [sales EXCEPT ![e.order].pending = TRUE]
    BY <1>13 DEF VisitEvent
  <2>5. \/ UNCHANGED <<tasks, requests>>
        \/ tasks' = [tasks EXCEPT ![g] = Append(@, e)] /\ requests' = requests \o getParameters(g)
    BY <1>13 DEF VisitEvent
  <2> HIDE DEF e, g
  <2>6. sales' \in [Orders -> Sale] BY <1>c, <2>2, <2>4 DEF Sale
  <2>7. tasks' \in [Gauges -> Seq(PendingGaugeTask)]
    <3>1. Append(tasks[g], e) \in Seq(PendingGaugeTask) BY <1>b, <2>1, <2>2, Push
    <3> QED BY <1>b, <2>2, <2>5, <3>1, Replace
  <2>8. requests' \in Seq(Request) BY <1>a, <2>2, <2>5, AskGauge, Concat
  <2> QED BY <2>3, <2>6, <2>7, <2>8 DEF DataOK
<1>14. CASE Serve \/ Fail
  <2>1. /\ requests # <<>> /\ requests' = Tail(requests)
        /\ UNCHANGED <<reading, index, active, rgauge, initial, tasks, sales, last, tank, log,
                       ended>>
        /\ \/ responses' = Append(responses, AnswerTo(Head(requests)))
           \/ responses' = Append(responses, [what |-> "error"])
    BY <1>14 DEF Serve, Fail, TakeRequest, Receive, gaugeVars, receptionVars, orderVars,
                 pollVars, srvVars
  <2>2. Head(requests) \in Request /\ requests' \in Seq(Request) BY <1>a, <2>1
  <2>3. AnswerTo(Head(requests)) \in Response BY <2>2, AnswerIsResponse
  <2>4. responses' \in Seq(Response) BY <1>a, <2>1, <2>3, Responses, Push
  <2> QED BY <2>1, <2>2, <2>4 DEF DataOK
<1>15. ASSUME NEW g \in Gauges, NEW v \in Deliveries, Pour(g, v) PROVE DataOK'
  <2>1. v \in Nat BY ReceptionConstants
  <2>2. tank' = [tank EXCEPT ![g] = [at |-> tank[g].at + 1, m3 |-> tank[g].m3 + v]]
    BY <1>15 DEF Pour
  <2>3. tank' \in [Gauges -> Tank] BY <1>d, <2>1, <2>2, Poured
  <2> QED BY <1>15, <2>3 DEF Pour, programVars, gaugeVars, receptionVars, orderVars, pollVars,
                             DataOK
<1>16. ASSUME NEW o \in Orders, Authorize(o) \/ EndOrder(o) PROVE DataOK'
  <2>1. UNCHANGED <<reading, index, active, rgauge, initial, tasks, sales, last, requests,
                    responses>>
    BY <1>16 DEF Authorize, EndOrder, programVars, gaugeVars, receptionVars, orderVars, pollVars
  <2>2. \E t \in {"BEFORE", "AFTER"} : log' = Append(log, [order |-> o, task |-> t])
    BY <1>16 DEF Authorize, EndOrder
  <2>3. log' \in Seq(PendingGaugeTask) BY <1>b, <2>2, Push DEF PendingGaugeTask
  <2>4. GaugeOf[o] \in Gauges BY Facts
  <2>5. tank' = tank \/ tank' = [tank EXCEPT ![GaugeOf[o]].at = @ + 1]
    BY <1>16 DEF Authorize, EndOrder
  <2>6. tank' \in [Gauges -> Tank] BY <1>d, <2>4, <2>5, Poured
  <2>7. ended' = ended \/ ended' = [ended EXCEPT ![o] = tank'[GaugeOf[o]].at]
    BY <1>16 DEF Authorize, EndOrder
  <2>8. ended' \in [Orders -> Nat] BY <2>4, <2>6, <2>7 DEF DataOK, Tank
  <2> QED BY <2>1, <2>3, <2>6, <2>8 DEF DataOK
<1>17. CASE UNCHANGED vars
  BY <1>17 DEF vars, gaugeVars, receptionVars, orderVars, pollVars, srvVars, DataOK
<1> QED BY <1>1, <1>2, <1>3, <1>4, <1>5, <1>6, <1>8, <1>9, <1>10, <1>11, <1>12, <1>13, <1>14,
           <1>15, <1>16, <1>17
        DEF Next, Answers
-----------------------------------------------------------------------------
(* Requests and answers are queues.                                        *)

\* With tanks t and answers rs, a reading of gauge g that is taken from now on
\* or waits behind answer k is not older than n.
Since(t, rs, g, n, k) ==
  /\ n <= t[g].at
  /\ \A j \in 1..Len(rs) :
       j > k /\ rs[j].what = "parameters" /\ rs[j].reading.gauge = g => n <= rs[j].reading.at

\* What was known of the answers behind the next one is known of the first.
LEMMA SinceTail ==
  ASSUME NEW t, NEW rs \in Seq(Response), rs # <<>>, NEW g, NEW n, NEW k \in Nat,
         Since(t, rs, g, n, k + 1) \/ Since(t, rs, g, n, k)
  PROVE  Since(t, Tail(rs), g, n, k)
<1>1. Since(t, rs, g, n, k + 1) BY DEF Since
<1>2. Len(Tail(rs)) = Len(rs) - 1 /\ Len(rs) \in Nat OBVIOUS
<1>3. \A j \in 1..Len(Tail(rs)) : Tail(rs)[j] = rs[j + 1] /\ j + 1 \in 1..Len(rs) BY <1>2
<1> QED BY <1>1, <1>2, <1>3 DEF Since

\* A new answer is one of the tank as it is now.
LEMMA SinceAppend ==
  ASSUME NEW t \in [Gauges -> Tank], NEW rs \in Seq(Response), NEW x \in Response,
         x.what = "parameters" => x.reading.at = t[x.reading.gauge].at,
         NEW g, NEW n, NEW k \in Nat, Since(t, rs, g, n, k)
  PROVE  Since(t, Append(rs, x), g, n, k)
<1>1. Len(Append(rs, x)) = Len(rs) + 1 /\ Len(rs) \in Nat OBVIOUS
<1>2. \A j \in 1..Len(rs) : Append(rs, x)[j] = rs[j] OBVIOUS
<1>3. Append(rs, x)[Len(rs) + 1] = x OBVIOUS
<1>4. \A j \in 1..Len(rs) + 1 : j \in 1..Len(rs) \/ j = Len(rs) + 1 BY <1>1
<1> QED BY <1>1, <1>2, <1>3, <1>4 DEF Since

\* Tanks only change on.
Older(t, u) == \A g \in Gauges : t[g].at <= u[g].at

LEMMA SinceTank ==
  ASSUME NEW t \in [Gauges -> Tank], NEW u \in [Gauges -> Tank], Older(t, u),
         NEW rs \in Seq(Response), NEW g \in Gauges, NEW n \in Nat, NEW k \in Nat,
         Since(t, rs, g, n, k)
  PROVE  Since(u, rs, g, n, k)
<1>1. n <= t[g].at /\ t[g].at <= u[g].at BY DEF Since, Older
<1>2. t[g].at \in Nat /\ u[g].at \in Nat BY DEF Tank
<1>3. n <= u[g].at BY <1>1, <1>2
<1> QED BY <1>3 DEF Since

\* The end of the order of event k happened before whatever waits behind answer j.
AfterSince(k, j) ==
  log[k].task = "AFTER" =>
    Since(tank, responses, GaugeOf[log[k].order], ended[log[k].order], j)

\* Answers come in the order in which the readings were taken and the events
\* were listed.
QueueInv ==
  /\ \A k \in 1..Len(log) :
       log[k].task = "AFTER" =>
         /\ ended[log[k].order] > 0
         /\ ended[log[k].order] <= tank[GaugeOf[log[k].order]].at
  /\ \A i \in 1..Len(responses) :
       LET x == responses[i]
       IN  /\ x.what = "parameters" => Since(tank, responses, x.reading.gauge, x.reading.at, i)
           /\ x.what = "events" => x.upto <= Len(log) /\ \A k \in 1..x.upto : AfterSince(k, i)

\* Nothing still to come is older than a stored reading,
ReadingInv ==
  \A g \in Gauges :
    reading[g] # NoReading => /\ reading[g].gauge = g
                              /\ Since(tank, responses, g, reading[g].at, 0)

\* than the end of an order whose event is being visited,
BatchInv == batch \subseteq 1..Len(log) /\ \A k \in batch : AfterSince(k, 0)

\* or whose task waits for a reading,
TaskOK(g, t) ==
  /\ GaugeOf[t.order] = g
  /\ t.task = "AFTER" => /\ Logged(t) /\ ended[t.order] > 0
                         /\ Since(tank, responses, g, ended[t.order], 0)
TasksInv == \A g \in Gauges : \A i \in 1..Len(tasks[g]) : TaskOK(g, tasks[g][i])

\* or than the reading before fuelling of a sale.
SalesInv ==
  \A o \in Orders :
    sales[o].before # NoReading => Since(tank, responses, GaugeOf[o], sales[o].before.at, 0)

\* A reported order has ended, and has its readings.
SoldInv ==
  /\ \A s \in sold : s.order \in Orders /\ Logged([order |-> s.order, task |-> "AFTER"])
  /\ SaleReadings

KeptInv == ReadingInv /\ BatchInv /\ TasksInv /\ SalesInv /\ SoldInv

\* A running reception: its gauge has not been read later than initially.
ReceptionInv ==
  /\ active => /\ doc # NoDoc
               /\ initial # NoReading => /\ reading[rgauge] # NoReading
                                         /\ initial.gauge = rgauge
                                         /\ initial.at <= reading[rgauge].at
  /\ ReportInOrder
-----------------------------------------------------------------------------
(* What a step does to the queues.                                         *)

server == <<tank, log, ended>>

\* The core takes an answer, the worker adds one, neither happens, or the
\* world goes on: tanks change and the controller logs events.
Pop == responses # <<>> /\ responses' = Tail(responses) /\ UNCHANGED server

FromNow(x) ==
  /\ x.what = "parameters" => x.reading.at = tank[x.reading.gauge].at
  /\ x.what = "events" => x.upto = Len(log)

Answer == \E x \in Response : FromNow(x) /\ responses' = Append(responses, x) /\ UNCHANGED server
Quiet == UNCHANGED <<responses, server>>

\* A logged event stays, with the end of its order.
Kept ==
  /\ Len(log) <= Len(log')
  /\ \A k \in 1..Len(log) :
       /\ log'[k] = log[k]
       /\ log[k].task = "AFTER" => ended'[log[k].order] = ended[log[k].order]

World ==
  /\ UNCHANGED <<programVars, responses>>
  /\ Older(tank, tank')
  /\ Kept
  /\ \A k \in 1..Len(log') :
       k > Len(log) /\ log'[k].task = "AFTER" =>
         /\ ended'[log'[k].order] > 0
         /\ ended'[log'[k].order] <= tank'[GaugeOf[log'[k].order]].at

LEMMA WorldStep ==
  ASSUME DataOK, DataOK',
         \/ \E g \in Gauges, v \in Deliveries : Pour(g, v)
         \/ \E o \in Orders : Authorize(o) \/ EndOrder(o)
  PROVE  World
<1>1. /\ log \in Seq(PendingGaugeTask) /\ tank \in [Gauges -> Tank]
      /\ tank' \in [Gauges -> Tank] /\ ended \in [Orders -> Nat]
  BY DEF DataOK
<1>2. Len(log) \in Nat /\ \A k \in 1..Len(log) : log[k] \in PendingGaugeTask BY <1>1
<1>3. UNCHANGED <<programVars, responses>> BY DEF Pour, Authorize, EndOrder, programVars
<1>4. ASSUME NEW g \in Gauges, NEW v \in Deliveries, Pour(g, v) PROVE World
  <2>1. tank' = [tank EXCEPT ![g] = [at |-> tank[g].at + 1, m3 |-> tank[g].m3 + v]]
        /\ UNCHANGED <<log, ended>>
    BY <1>4 DEF Pour
  <2>2. Older(tank, tank') BY <1>1, <2>1 DEF Older, Tank
  <2> QED BY <1>2, <1>3, <2>1, <2>2 DEF World, Kept
<1>5. ASSUME NEW o \in Orders, Authorize(o) PROVE World
  <2> DEFINE e == [order |-> o, task |-> "BEFORE"]
  <2>1. log' = Append(log, e) /\ UNCHANGED <<tank, ended>> BY <1>5 DEF Authorize
  <2>2. e.task # "AFTER" OBVIOUS
  <2> HIDE DEF e
  <2>3. Len(log') = Len(log) + 1 /\ log'[Len(log) + 1] = e
        /\ \A k \in 1..Len(log) : log'[k] = log[k]
    BY <1>1, <2>1
  <2>4. Older(tank, tank') BY <1>1, <2>1 DEF Older, Tank
  <2>5. \A k \in 1..Len(log') : k > Len(log) => k = Len(log) + 1 BY <1>2, <2>3
  <2> QED BY <1>2, <1>3, <2>1, <2>2, <2>3, <2>4, <2>5 DEF World, Kept
<1>6. ASSUME NEW o \in Orders, EndOrder(o) PROVE World
  <2> DEFINE e == [order |-> o, task |-> "AFTER"]
             g == GaugeOf[o]
  <2>1. /\ log' = Append(log, e) /\ ~Logged(e)
        /\ tank' = [tank EXCEPT ![g].at = @ + 1]
        /\ ended' = [ended EXCEPT ![o] = tank'[g].at]
    BY <1>6 DEF EndOrder
  <2>2. e.order = o /\ g \in Gauges BY Facts
  <2>3. \A k \in 1..Len(log) : log[k].task = "AFTER" => log[k].order # o
    BY <1>1, <1>2, <2>1 DEF Logged, PendingGaugeTask
  <2> HIDE DEF e
  <2>4. Len(log') = Len(log) + 1 /\ log'[Len(log) + 1] = e
        /\ \A k \in 1..Len(log) : log'[k] = log[k]
    BY <1>1, <2>1
  <2>5. Older(tank, tank') /\ tank'[g].at = tank[g].at + 1 /\ tank[g].at \in Nat
    BY <1>1, <2>1, <2>2 DEF Older, Tank
  <2>6. \A k \in 1..Len(log) : log[k].task = "AFTER" => ended'[log[k].order] = ended[log[k].order]
    BY <1>1, <1>2, <2>1, <2>3 DEF PendingGaugeTask
  <2>7. ended'[o] = tank'[g].at BY <1>1, <2>1
  <2>8. Kept BY <1>2, <2>4, <2>6 DEF Kept
  <2>9. \A k \in 1..Len(log') : k > Len(log) => k = Len(log) + 1 BY <1>2, <2>4
  <2>10. ended'[o] > 0 /\ ended'[o] <= tank'[g].at BY <2>5, <2>7
  <2> HIDE DEF g
  <2> QED BY <1>3, <2>2, <2>4, <2>5, <2>8, <2>9, <2>10 DEF World, g
<1> QED BY <1>4, <1>5, <1>6

LEMMA Shapes ==
  ASSUME DataOK, DataOK', [Next]_vars PROVE Pop \/ Answer \/ Quiet \/ World
<1>1. ASSUME NEW w, Answered(w) PROVE Pop
  BY <1>1 DEF Answered, srvVars, Pop, server
<1>2. CASE processDevices \/ processTankers \/ processEvent \/ processParameters
           \/ processHandleHttpError
  BY <1>1, <1>2 DEF processDevices, processTankers, processEvent, processParameters,
                    processHandleHttpError
<1>3. CASE Serve \/ Fail
  <2>1. requests \in Seq(Request) BY DEF DataOK
  <2>2. requests # <<>> /\ UNCHANGED server BY <1>3 DEF Serve, Fail, TakeRequest, srvVars, server
  <2>3. Head(requests) \in Request BY <2>1, <2>2
  <2>4. AnswerTo(Head(requests)) \in Response /\ FromNow(AnswerTo(Head(requests)))
    BY <2>3, AnswerIsResponse DEF FromNow
  <2>5. [what |-> "error"] \in Response /\ FromNow([what |-> "error"])
    BY Responses DEF FromNow
  <2> QED BY <1>3, <2>2, <2>4, <2>5 DEF Serve, Fail, Receive, Answer
<1>4. CASE \/ \E g \in Gauges, v \in Deliveries : Pour(g, v)
           \/ \E o \in Orders : Authorize(o) \/ EndOrder(o)
  BY <1>4, WorldStep
<1>5. CASE \/ \E d \in Docs : EnterDocument(d)
           \/ processReceptionTanker \/ handleFinishReceptionFuel
           \/ \E direction \in {-1, 1} : changeLevelGauge(direction)
           \/ handleLevelGaugeButton \/ onTimerExpired
           \/ \E n \in batch : VisitEvent(n)
  <2>1. ASSUME Touch PROVE Quiet BY <2>1 DEF Touch, srvVars, Quiet, server
  <2> QED BY <1>5, <2>1
          DEF EnterDocument, processReceptionTanker, handleFinishReceptionFuel,
              changeLevelGauge, handleLevelGaugeButton, onTimerExpired, VisitEvent, srvVars,
              Quiet, server
<1>6. CASE UNCHANGED vars BY <1>6 DEF vars, srvVars, Quiet, server
<1> QED BY <1>2, <1>3, <1>4, <1>5, <1>6 DEF Next, Answers
\* Whatever happens, a bound on what is still to come stays one.
LEMMA Forward ==
  ASSUME DataOK, DataOK', Pop \/ Answer \/ Quiet \/ World
  PROVE  \A g \in Gauges, n \in Nat :
           Since(tank, responses, g, n, 0) => Since(tank', responses', g, n, 0)
<1> SUFFICES ASSUME NEW g \in Gauges, NEW n \in Nat, Since(tank, responses, g, n, 0)
             PROVE  Since(tank', responses', g, n, 0)
  OBVIOUS
<1>1. responses \in Seq(Response) /\ tank \in [Gauges -> Tank] /\ tank' \in [Gauges -> Tank]
  BY DEF DataOK
<1>2. CASE Pop BY <1>1, <1>2, SinceTail DEF Pop, server
<1>3. CASE Answer
  <2>1. PICK x \in Response : FromNow(x) /\ responses' = Append(responses, x) /\ UNCHANGED server
    BY <1>3 DEF Answer
  <2>2. x.what = "parameters" => x.reading.at = tank[x.reading.gauge].at BY <2>1 DEF FromNow
  <2>3. Since(tank, Append(responses, x), g, n, 0) BY <1>1, <2>2, SinceAppend
  <2> QED BY <2>1, <2>3 DEF server
<1>4. CASE Quiet BY <1>4 DEF Quiet, server
<1>5. CASE World
  <2>1. Since(tank', responses, g, n, 0) BY <1>1, <1>5, SinceTank DEF World
  <2> QED BY <1>5, <2>1 DEF World
<1> QED BY <1>2, <1>3, <1>4, <1>5

\* The types of the bounds.
LEMMA Bounds ==
  ASSUME DataOK
  PROVE  /\ Len(log) \in Nat /\ Len(responses) \in Nat
         /\ \A k \in 1..Len(log) :
              /\ log[k].order \in Orders /\ GaugeOf[log[k].order] \in Gauges
              /\ ended[log[k].order] \in Nat
         /\ \A i \in 1..Len(responses) :
              /\ responses[i] \in Response
              /\ responses[i].what = "parameters" => /\ responses[i].reading.gauge \in Gauges
                                                     /\ responses[i].reading.at \in Nat
              /\ responses[i].what = "events" => responses[i].upto \in Nat
<1>1. log \in Seq(PendingGaugeTask) /\ responses \in Seq(Response) /\ ended \in [Orders -> Nat]
  BY DEF DataOK
<1>2. \A k \in 1..Len(log) : log[k] \in PendingGaugeTask BY <1>1
<1>3. \A k \in 1..Len(log) : log[k].order \in Orders BY <1>2 DEF PendingGaugeTask
<1>4. \A i \in 1..Len(responses) : responses[i] \in Response BY <1>1
<1> QED BY <1>1, <1>3, <1>4, Facts, Responses

\* The core takes the first answer: the others move up.
LEMMA QueuePop == ASSUME DataOK, QueueInv, Pop PROVE QueueInv'
<1>1. responses \in Seq(Response) BY DEF DataOK
<1>2. responses # <<>> /\ responses' = Tail(responses) /\ UNCHANGED <<tank, log, ended>>
  BY DEF Pop, server
<1>3. Len(responses') = Len(responses) - 1 /\ Len(responses) \in Nat BY <1>1, <1>2
<1>4. ASSUME NEW i \in 1..Len(responses')
      PROVE  responses'[i] = responses[i + 1] /\ i + 1 \in 1..Len(responses) /\ i \in Nat
  BY <1>1, <1>2, <1>3
<1>5. ASSUME NEW i \in 1..Len(responses'), responses'[i].what = "parameters"
      PROVE  Since(tank', responses', responses'[i].reading.gauge, responses'[i].reading.at, i)
  <2> DEFINE x == responses[i + 1]
  <2>1. Since(tank, responses, x.reading.gauge, x.reading.at, i + 1)
    BY <1>4, <1>5 DEF QueueInv
  <2>2. Since(tank, Tail(responses), x.reading.gauge, x.reading.at, i)
    BY <1>1, <1>2, <1>4, <2>1, SinceTail
  <2> QED BY <1>2, <1>4, <2>2
<1>6. ASSUME NEW i \in 1..Len(responses'), responses'[i].what = "events"
      PROVE  /\ responses'[i].upto <= Len(log')
             /\ \A k \in 1..responses'[i].upto : AfterSince(k, i)'
  <2>1. /\ responses[i + 1].upto <= Len(log)
        /\ \A k \in 1..responses[i + 1].upto : AfterSince(k, i + 1)
    BY <1>4, <1>6 DEF QueueInv
  <2>2. ASSUME NEW k \in 1..responses[i + 1].upto PROVE AfterSince(k, i)'
    <3> SUFFICES ASSUME log[k].task = "AFTER"
                 PROVE  Since(tank, Tail(responses), GaugeOf[log[k].order],
                              ended[log[k].order], i)
      BY <1>2 DEF AfterSince
    <3>1. Since(tank, responses, GaugeOf[log[k].order], ended[log[k].order], i + 1)
      BY <2>1 DEF AfterSince
    <3> QED BY <1>1, <1>2, <1>4, <3>1, SinceTail
  <2> QED BY <1>2, <1>4, <2>1, <2>2
<1> QED BY <1>2, <1>5, <1>6 DEF QueueInv

\* A new answer is the last one, and everything is older than it.
LEMMA QueueAnswer == ASSUME DataOK, QueueInv, Answer PROVE QueueInv'
<1>1. responses \in Seq(Response) /\ tank \in [Gauges -> Tank] BY DEF DataOK
<1>2. PICK x \in Response : FromNow(x) /\ responses' = Append(responses, x) /\ UNCHANGED server
  BY DEF Answer
<1>3. /\ Len(responses') = Len(responses) + 1 /\ Len(responses) \in Nat
      /\ \A i \in 1..Len(responses) : responses'[i] = responses[i]
      /\ responses'[Len(responses) + 1] = x
  BY <1>1, <1>2
<1>4. UNCHANGED <<tank, log, ended>> BY <1>2 DEF server
<1>5. ASSUME NEW g, NEW n, NEW i \in Nat, Since(tank, responses, g, n, i)
      PROVE  Since(tank', responses', g, n, i)
  BY <1>1, <1>2, <1>4, <1>5, SinceAppend DEF FromNow
<1>6. ASSUME NEW i \in 1..Len(responses)
      PROVE  /\ responses'[i].what = "parameters" =>
                  Since(tank', responses', responses'[i].reading.gauge, responses'[i].reading.at, i)
             /\ responses'[i].what = "events" =>
                  /\ responses'[i].upto <= Len(log')
                  /\ \A k \in 1..responses'[i].upto : AfterSince(k, i)'
  <2>1. i \in Nat /\ responses'[i] = responses[i] BY <1>3
  <2>2. responses[i].what = "parameters" =>
          Since(tank, responses, responses[i].reading.gauge, responses[i].reading.at, i)
    BY DEF QueueInv
  <2>3. responses[i].what = "events" =>
          responses[i].upto <= Len(log) /\ \A k \in 1..responses[i].upto : AfterSince(k, i)
    BY DEF QueueInv
  <2>4. ASSUME NEW k, AfterSince(k, i) PROVE AfterSince(k, i)'
    BY <1>4, <1>5, <2>1, <2>4 DEF AfterSince
  <2> QED BY <1>4, <1>5, <2>1, <2>2, <2>3, <2>4
<1>p. PICK m \in Nat : m = Len(responses) + 1 BY <1>3
<1>7. ASSUME NEW g, NEW n, n <= tank[g].at
      PROVE  Since(tank', responses', g, n, m)
  BY <1>3, <1>4, <1>7, <1>p DEF Since
<1>8. x.what = "parameters" =>
        Since(tank', responses', x.reading.gauge, x.reading.at, m)
  <2> SUFFICES ASSUME x.what = "parameters"
               PROVE  x.reading.at <= tank[x.reading.gauge].at
    BY <1>7
  <2>1. x.reading.gauge \in Gauges /\ x.reading.at \in Nat BY Responses
  <2> QED BY <1>2, <2>1 DEF FromNow
<1>9. x.what = "events" => /\ x.upto <= Len(log')
                           /\ \A k \in 1..x.upto : AfterSince(k, m)'
  <2> SUFFICES ASSUME x.what = "events"
               PROVE  x.upto <= Len(log') /\ \A k \in 1..x.upto : AfterSince(k, m)'
    OBVIOUS
  <2>1. x.upto = Len(log) /\ Len(log) \in Nat BY <1>2, Bounds DEF FromNow
  <2>2. ASSUME NEW k \in 1..x.upto PROVE AfterSince(k, m)'
    <3>1. log[k].task = "AFTER" => ended[log[k].order] <= tank[GaugeOf[log[k].order]].at
      BY <2>1 DEF QueueInv
    <3> QED BY <1>4, <1>7, <3>1 DEF AfterSince
  <2> QED BY <1>4, <2>1, <2>2
<1>10. \A i \in 1..Len(responses') : i \in 1..Len(responses) \/ i = m BY <1>3, <1>p
<1>11. ASSUME NEW i \in 1..Len(responses')
       PROVE  /\ responses'[i].what = "parameters" =>
                   Since(tank', responses', responses'[i].reading.gauge, responses'[i].reading.at, i)
              /\ responses'[i].what = "events" =>
                   /\ responses'[i].upto <= Len(log')
                   /\ \A k \in 1..responses'[i].upto : AfterSince(k, i)'
  BY <1>3, <1>p, <1>6, <1>8, <1>9, <1>10
<1> QED BY <1>4, <1>11 DEF QueueInv

\* Tanks and log go on: what was listed stays listed.
LEMMA QueueWorld == ASSUME DataOK, DataOK', QueueInv, World PROVE QueueInv'
<1>1. /\ responses \in Seq(Response) /\ tank \in [Gauges -> Tank] /\ tank' \in [Gauges -> Tank]
      /\ Older(tank, tank') /\ responses' = responses /\ Kept
  BY DEF DataOK, World
<1>2. ASSUME NEW k \in 1..Len(log'), log'[k].task = "AFTER"
      PROVE  /\ ended'[log'[k].order] > 0
             /\ ended'[log'[k].order] <= tank'[GaugeOf[log'[k].order]].at
  <2>1. Len(log) \in Nat /\ Len(log') \in Nat BY DEF DataOK
  <2>2. CASE k > Len(log) BY <1>2, <2>2 DEF World
  <2>3. CASE k \in 1..Len(log)
    <3>1. log'[k] = log[k] /\ ended'[log[k].order] = ended[log[k].order]
      BY <1>1, <1>2, <2>3 DEF Kept
    <3>2. ended[log[k].order] > 0 /\ ended[log[k].order] <= tank[GaugeOf[log[k].order]].at
      BY <1>2, <2>3, <3>1 DEF QueueInv
    <3>3. GaugeOf[log[k].order] \in Gauges /\ ended[log[k].order] \in Nat BY <2>3, Bounds
    <3>4. tank[GaugeOf[log[k].order]].at <= tank'[GaugeOf[log[k].order]].at
      BY <1>1, <3>3 DEF Older
    <3>5. tank[GaugeOf[log[k].order]].at \in Nat /\ tank'[GaugeOf[log[k].order]].at \in Nat
      BY <1>1, <3>3 DEF Tank
    <3> QED BY <3>1, <3>2, <3>3, <3>4, <3>5
  <2> QED BY <2>1, <2>2, <2>3
<1>3. ASSUME NEW i \in Nat, NEW k \in 1..Len(log), AfterSince(k, i) PROVE AfterSince(k, i)'
  <2>1. log'[k] = log[k] BY <1>1 DEF Kept
  <2> SUFFICES ASSUME log[k].task = "AFTER"
               PROVE  Since(tank', responses, GaugeOf[log[k].order], ended[log[k].order], i)
    BY <1>1, <2>1 DEF AfterSince, Kept
  <2>2. Since(tank, responses, GaugeOf[log[k].order], ended[log[k].order], i)
    BY <1>3 DEF AfterSince
  <2>3. GaugeOf[log[k].order] \in Gauges /\ ended[log[k].order] \in Nat BY Bounds
  <2> QED BY <1>1, <2>2, <2>3, SinceTank
<1>4. ASSUME NEW i \in 1..Len(responses')
      PROVE  /\ responses'[i].what = "parameters" =>
                   Since(tank', responses', responses'[i].reading.gauge, responses'[i].reading.at, i)
             /\ responses'[i].what = "events" =>
                   /\ responses'[i].upto <= Len(log')
                   /\ \A k \in 1..responses'[i].upto : AfterSince(k, i)'
  <2> DEFINE x == responses[i]
  <2>1. i \in 1..Len(responses) /\ i \in Nat /\ responses'[i] = x BY <1>1
  <2>2. x.what = "parameters" => Since(tank', responses', x.reading.gauge, x.reading.at, i)
    <3> SUFFICES ASSUME x.what = "parameters"
                 PROVE  Since(tank', responses, x.reading.gauge, x.reading.at, i)
      BY <1>1
    <3>1. Since(tank, responses, x.reading.gauge, x.reading.at, i) BY <2>1 DEF QueueInv
    <3>2. x.reading.gauge \in Gauges /\ x.reading.at \in Nat BY <2>1, Bounds
    <3> QED BY <1>1, <2>1, <3>1, <3>2, SinceTank
  <2>3. x.what = "events" => x.upto <= Len(log') /\ \A k \in 1..x.upto : AfterSince(k, i)'
    <3> SUFFICES ASSUME x.what = "events"
                 PROVE  x.upto <= Len(log') /\ \A k \in 1..x.upto : AfterSince(k, i)'
      OBVIOUS
    <3>1. x.upto <= Len(log) /\ \A k \in 1..x.upto : AfterSince(k, i) BY <2>1 DEF QueueInv
    <3>2. Len(log) \in Nat /\ Len(log') \in Nat /\ x.upto \in Nat BY <2>1, Bounds DEF DataOK
    <3>3. Len(log) <= Len(log') BY <1>1 DEF Kept
    <3>4. \A k \in 1..x.upto : k \in 1..Len(log) BY <3>1, <3>2
    <3>5. \A k \in 1..x.upto : AfterSince(k, i)' BY <1>3, <2>1, <3>1, <3>4
    <3> QED BY <3>1, <3>2, <3>3, <3>5
  <2> HIDE DEF x
  <2> QED BY <2>1, <2>2, <2>3
<1> QED BY <1>2, <1>4 DEF QueueInv

LEMMA QueueStep ==
  ASSUME DataOK, DataOK', QueueInv, Pop \/ Answer \/ Quiet \/ World PROVE QueueInv'
<1>1. ASSUME Quiet PROVE QueueInv'
  BY <1>1 DEF Quiet, server, QueueInv, AfterSince
<1> QED BY <1>1, QueuePop, QueueAnswer, QueueWorld
-----------------------------------------------------------------------------
(* What the program keeps of the answers.                                  *)

\* Who may change what.
LEMMA Frame ==
  ASSUME [Next]_vars
  PROVE  /\ reading' = reading \/ processParameters
         /\ batch' = batch \/ processEvent \/ \E n \in batch : VisitEvent(n)
         /\ \/ UNCHANGED <<tasks, sales>> \/ processParameters
            \/ \E n \in batch : VisitEvent(n)
         /\ sold' = sold \/ processParameters
         /\ reports' = reports \/ handleFinishReceptionFuel
         /\ \/ UNCHANGED <<active, rgauge, doc, initial>> \/ processReceptionTanker
            \/ handleFinishReceptionFuel \/ \E d \in Docs : EnterDocument(d)
<1>1. CASE UNCHANGED vars
  BY <1>1 DEF vars, gaugeVars, receptionVars, orderVars, pollVars
<1>2. CASE \/ \E d \in Docs : EnterDocument(d)
           \/ processReceptionTanker \/ handleFinishReceptionFuel
           \/ \E direction \in {-1, 1} : changeLevelGauge(direction)
           \/ handleLevelGaugeButton
  BY <1>2 DEF Touch, EnterDocument, processReceptionTanker, handleFinishReceptionFuel,
              changeLevelGauge, handleLevelGaugeButton, gaugeVars, receptionVars, orderVars,
              pollVars
<1>3. CASE \/ processDevices \/ processTankers \/ processEvent \/ processParameters
           \/ processHandleHttpError
  BY <1>3 DEF Answered, processDevices, processTankers, processEvent, processParameters,
              processHandleHttpError, gaugeVars, receptionVars, orderVars, pollVars
<1>4. CASE onTimerExpired \/ Serve \/ Fail \/ \E n \in batch : VisitEvent(n)
  BY <1>4 DEF onTimerExpired, Serve, Fail, TakeRequest, VisitEvent, gaugeVars, receptionVars,
              orderVars, pollVars
<1>5. CASE \/ \E g \in Gauges, v \in Deliveries : Pour(g, v)
           \/ \E o \in Orders : Authorize(o) \/ EndOrder(o)
  BY <1>5 DEF Pour, Authorize, EndOrder, programVars, gaugeVars, receptionVars, orderVars,
              pollVars
<1> QED BY <1>1, <1>2, <1>3, <1>4, <1>5 DEF Next, Answers

\* Logged events and the bounds on what follows them stay.
LEMMA LogForward ==
  ASSUME DataOK, DataOK', Pop \/ Answer \/ Quiet \/ World
  PROVE  /\ Kept
         /\ \A k \in 1..Len(log) : AfterSince(k, 0) => AfterSince(k, 0)'
         /\ \A e : Logged(e) => /\ Logged(e)'
                                /\ e.task = "AFTER" => ended'[e.order] = ended[e.order]
<1>1. log \in Seq(PendingGaugeTask) /\ log' \in Seq(PendingGaugeTask) BY DEF DataOK
<1>2. Len(log) \in Nat /\ Len(log') \in Nat BY <1>1
<1>3. Kept
  <2>1. ASSUME UNCHANGED server PROVE Kept BY <1>2, <2>1 DEF server, Kept
  <2> QED BY <2>1 DEF Pop, Answer, Quiet, World
<1>4. ASSUME NEW k \in 1..Len(log), AfterSince(k, 0) PROVE AfterSince(k, 0)'
  <2>1. log'[k] = log[k] BY <1>3 DEF Kept
  <2> SUFFICES ASSUME log[k].task = "AFTER"
               PROVE  Since(tank', responses', GaugeOf[log[k].order], ended[log[k].order], 0)
    BY <1>3, <2>1 DEF AfterSince, Kept
  <2>2. GaugeOf[log[k].order] \in Gauges /\ ended[log[k].order] \in Nat BY Bounds
  <2> QED BY <1>4, <2>2, Forward DEF AfterSince
<1>5. ASSUME NEW e, Logged(e)
      PROVE  Logged(e)' /\ (e.task = "AFTER" => ended'[e.order] = ended[e.order])
  <2>1. PICK i \in 1..Len(log) : log[i] = e BY <1>1, <1>5 DEF Logged
  <2>2. i \in 1..Len(log') /\ log'[i] = e BY <1>2, <1>3, <2>1 DEF Kept
  <2> QED BY <1>1, <1>3, <2>1, <2>2 DEF Logged, Kept
<1> QED BY <1>3, <1>4, <1>5

\* The reading that is handled: what is to come is not older than it, and it is
\* not older than what bounded it.
LEMMA Handled ==
  ASSUME DataOK, QueueInv, processParameters, NEW r, r = Head(responses).reading
  PROVE  /\ Pop /\ r \in Reading /\ r.gauge \in Gauges /\ r.at \in Nat
         /\ Since(tank', responses', r.gauge, r.at, 0)
         /\ \A n : Since(tank, responses, r.gauge, n, 0) => n <= r.at
         /\ reading' = [reading EXCEPT ![r.gauge] = r]
         /\ \/ UNCHANGED orderVars
            \/ tasks[r.gauge] # <<>> /\ ServeTask(Head(tasks[r.gauge]), r)
<1>1. responses \in Seq(Response) BY DEF DataOK
<1>2. /\ responses # <<>> /\ responses' = Tail(responses) /\ UNCHANGED server
      /\ Head(responses).what = "parameters"
  BY DEF processParameters, Answered, srvVars, server
<1>3. Head(responses) = responses[1] /\ 1 \in 1..Len(responses) BY <1>1, <1>2
<1>4. r \in Reading /\ r.gauge \in Gauges /\ r.at \in Nat
  <2>1. Head(responses) \in Response BY <1>1, <1>2
  <2> QED BY <1>2, <2>1, Responses
<1>5. Since(tank, responses, r.gauge, r.at, 0 + 1) BY <1>2, <1>3 DEF QueueInv
<1>6. Since(tank', responses', r.gauge, r.at, 0) BY <1>1, <1>2, <1>5, SinceTail DEF server
<1>7. \A n : Since(tank, responses, r.gauge, n, 0) => n <= r.at BY <1>2, <1>3 DEF Since
<1> QED BY <1>2, <1>4, <1>6, <1>7 DEF Pop, processParameters

LEMMA ReadingStep ==
  ASSUME DataOK, DataOK', QueueInv, ReadingInv, [Next]_vars PROVE ReadingInv'
<1>1. Pop \/ Answer \/ Quiet \/ World BY Shapes
<1>2. ASSUME NEW g \in Gauges, reading'[g] = reading[g], reading[g] # NoReading
      PROVE  reading'[g].gauge = g /\ Since(tank', responses', g, reading'[g].at, 0)
  <2>1. reading[g] \in Reading BY <1>2 DEF DataOK, AnyReading
  <2>2. reading[g].at \in Nat BY <2>1, Responses
  <2> QED BY <1>1, <1>2, <2>2, Forward DEF ReadingInv
<1>3. CASE reading' = reading BY <1>2, <1>3 DEF ReadingInv
<1>4. CASE processParameters
  <2>1. PICK r : r = Head(responses).reading OBVIOUS
  <2>2. /\ reading' = [reading EXCEPT ![r.gauge] = r] /\ r.gauge \in Gauges
        /\ Since(tank', responses', r.gauge, r.at, 0)
    BY <1>4, <2>1, Handled
  <2>3. reading \in [Gauges -> AnyReading] BY DEF DataOK
  <2>4. ASSUME NEW g \in Gauges, reading'[g] # NoReading
        PROVE  reading'[g].gauge = g /\ Since(tank', responses', g, reading'[g].at, 0)
    <3>1. CASE g = r.gauge BY <2>2, <2>3, <3>1
    <3>2. CASE g # r.gauge BY <1>2, <2>2, <2>3, <2>4, <3>2
    <3> QED BY <3>1, <3>2
  <2> QED BY <2>4 DEF ReadingInv
<1> QED BY <1>3, <1>4, Frame

LEMMA BatchStep ==
  ASSUME DataOK, DataOK', QueueInv, BatchInv, [Next]_vars PROVE BatchInv'
<1>1. Pop \/ Answer \/ Quiet \/ World BY Shapes
<1>2. Len(log) \in Nat /\ Len(log') \in Nat /\ Len(log) <= Len(log')
  <2>1. Len(log) \in Nat /\ Len(log') \in Nat BY DEF DataOK
  <2>2. Kept BY <1>1, LogForward
  <2> QED BY <2>1, <2>2 DEF Kept
<1>3. ASSUME batch' \subseteq batch PROVE BatchInv'
  <2>1. batch' \subseteq 1..Len(log') BY <1>2, <1>3 DEF BatchInv
  <2>2. \A k \in batch' : k \in 1..Len(log) /\ AfterSince(k, 0) BY <1>3 DEF BatchInv
  <2>3. \A k \in batch' : AfterSince(k, 0)' BY <1>1, <2>2, LogForward
  <2> QED BY <2>1, <2>3 DEF BatchInv
<1>4. ASSUME NEW n \in batch, VisitEvent(n) PROVE BatchInv' BY <1>3, <1>4 DEF VisitEvent
<1>5. CASE processEvent
  <2>1. responses \in Seq(Response) BY DEF DataOK
  <2> DEFINE x == Head(responses)
  <2>2. /\ responses # <<>> /\ responses' = Tail(responses) /\ UNCHANGED <<tank, log, ended>>
        /\ x.what = "events" /\ batch' = x.from + 1..x.upto
    BY <1>5 DEF processEvent, Answered, srvVars
  <2>3. x = responses[1] /\ 1 \in 1..Len(responses) /\ x \in Response BY <2>1, <2>2
  <2>4. x.from \in Nat /\ x.upto \in Nat BY <2>2, <2>3, Responses
  <2>5. x.upto <= Len(log) /\ \A k \in 1..x.upto : AfterSince(k, 0 + 1)
    BY <2>2, <2>3 DEF QueueInv
  <2>6. \A k \in batch' : k \in 1..x.upto BY <2>2, <2>4
  <2>7. ASSUME NEW k \in batch' PROVE AfterSince(k, 0)'
    <3> SUFFICES ASSUME log[k].task = "AFTER"
                 PROVE  Since(tank, Tail(responses), GaugeOf[log[k].order],
                              ended[log[k].order], 0)
      BY <2>2 DEF AfterSince
    <3>1. Since(tank, responses, GaugeOf[log[k].order], ended[log[k].order], 0 + 1)
      BY <2>5, <2>6 DEF AfterSince
    <3> QED BY <2>1, <2>2, <3>1, SinceTail
  <2>8. batch' \subseteq 1..Len(log') BY <1>2, <2>2, <2>4, <2>5, <2>6
  <2> QED BY <2>7, <2>8 DEF BatchInv
<1> QED BY <1>3, <1>4, <1>5, Frame
\* The task that a reading serves.
LEMMA Served ==
  ASSUME DataOK, TasksInv, NEW r \in Reading, r.gauge \in Gauges, tasks[r.gauge] # <<>>,
         NEW t, t = Head(tasks[r.gauge])
  PROVE  t \in PendingGaugeTask /\ t.order \in Orders /\ TaskOK(r.gauge, t)
<1>1. tasks[r.gauge] \in Seq(PendingGaugeTask) BY DEF DataOK
<1>2. t = tasks[r.gauge][1] /\ 1 \in 1..Len(tasks[r.gauge]) /\ t \in PendingGaugeTask BY <1>1
<1> QED BY <1>2 DEF PendingGaugeTask, TasksInv

\* A task that waits stays in order.
LEMMA TaskForward ==
  ASSUME DataOK, DataOK', Pop \/ Answer \/ Quiet \/ World,
         NEW g \in Gauges, NEW t \in PendingGaugeTask, TaskOK(g, t)
  PROVE  TaskOK(g, t)'
<1>1. t.order \in Orders BY DEF PendingGaugeTask
<1>2. ended[t.order] \in Nat BY <1>1 DEF DataOK
<1>3. CASE t.task # "AFTER" BY <1>3 DEF TaskOK
<1>4. CASE t.task = "AFTER"
  <2>1. Logged(t) /\ ended[t.order] > 0 /\ Since(tank, responses, g, ended[t.order], 0)
    BY <1>4 DEF TaskOK
  <2>2. Logged(t)' /\ ended'[t.order] = ended[t.order] BY <1>4, <2>1, LogForward
  <2>3. Since(tank', responses', g, ended[t.order], 0) BY <1>2, <2>1, Forward
  <2> QED BY <2>1, <2>2, <2>3 DEF TaskOK
<1> QED BY <1>3, <1>4

LEMMA TasksStep ==
  ASSUME DataOK, DataOK', QueueInv, BatchInv, TasksInv, [Next]_vars PROVE TasksInv'
<1>1. Pop \/ Answer \/ Quiet \/ World BY Shapes
<1>2. tasks \in [Gauges -> Seq(PendingGaugeTask)] /\ tasks' \in [Gauges -> Seq(PendingGaugeTask)]
  BY DEF DataOK
<1>3. ASSUME NEW g \in Gauges, NEW i \in 1..Len(tasks[g]) PROVE TaskOK(g, tasks[g][i])
  BY DEF TasksInv
<1>4. ASSUME NEW g \in Gauges, NEW i \in 1..Len(tasks'[g]), NEW j \in 1..Len(tasks[g]),
             tasks'[g][i] = tasks[g][j]
      PROVE  TaskOK(g, tasks[g][i])'
  <2>1. PICK t \in PendingGaugeTask : t = tasks[g][j] BY <1>2
  <2>2. TaskOK(g, t)' BY <1>1, <1>3, <2>1, TaskForward
  <2> QED BY <1>4, <2>1, <2>2 DEF TaskOK
<1>5. CASE UNCHANGED tasks BY <1>4, <1>5 DEF TasksInv
<1>6. CASE processParameters
  <2>1. PICK r : r = Head(responses).reading OBVIOUS
  <2>2. r.gauge \in Gauges BY <1>6, <2>1, Handled
  <2>3. \/ tasks' = tasks
        \/ /\ tasks[r.gauge] # <<>>
           /\ \/ tasks' = [tasks EXCEPT ![r.gauge] = Tail(tasks[r.gauge])]
              \/ tasks' = [tasks EXCEPT ![r.gauge] = <<>>]
    BY <1>6, <2>1, Handled DEF orderVars, ServeTask
  <2>4. ASSUME NEW g \in Gauges, NEW i \in 1..Len(tasks'[g])
        PROVE  \E j \in 1..Len(tasks[g]) : tasks'[g][i] = tasks[g][j]
    <3>1. tasks[g] \in Seq(PendingGaugeTask) BY <1>2
    <3>2. CASE tasks'[g] = tasks[g] BY <3>1, <3>2
    <3>3. CASE tasks[g] # <<>> /\ tasks'[g] = Tail(tasks[g])
      <4>1. i + 1 \in 1..Len(tasks[g]) /\ tasks'[g][i] = tasks[g][i + 1] BY <3>1, <3>3
      <4> QED BY <4>1
    <3>4. tasks'[g] # <<>>
      <4>1. Len(<<>>) = 0 OBVIOUS
      <4> QED BY <4>1
    <3> QED BY <1>2, <2>2, <2>3, <3>2, <3>3, <3>4
  <2> QED BY <1>4, <2>4 DEF TasksInv
<1>7. ASSUME NEW n \in batch, VisitEvent(n) PROVE TasksInv'
  <2>1. PICK e : e = log[n] OBVIOUS
  <2>2. log \in Seq(PendingGaugeTask) /\ n \in 1..Len(log) /\ AfterSince(n, 0) BY DEF DataOK, BatchInv
  <2>3. e \in PendingGaugeTask BY <2>1, <2>2
  <2>4. PICK h : h = GaugeOf[e.order] OBVIOUS
  <2>5. h \in Gauges BY <2>3, <2>4, Facts DEF PendingGaugeTask
  <2>6. UNCHANGED tasks \/ tasks' = [tasks EXCEPT ![h] = Append(tasks[h], e)]
    BY <1>7, <2>1, <2>4 DEF VisitEvent
  <2>7. TaskOK(h, e)
    <3>1. Logged(e) BY <2>1, <2>2 DEF Logged
    <3>2. e.task = "AFTER" => /\ ended[e.order] > 0
                              /\ Since(tank, responses, h, ended[e.order], 0)
      BY <2>1, <2>2, <2>4 DEF AfterSince, QueueInv
    <3> QED BY <2>4, <3>1, <3>2 DEF TaskOK
  <2>8. TaskOK(h, e)' BY <1>1, <2>3, <2>5, <2>7, TaskForward
  <2>9. CASE tasks' = [tasks EXCEPT ![h] = Append(tasks[h], e)]
    <3>1. ASSUME NEW g \in Gauges, NEW i \in 1..Len(tasks'[g]) PROVE TaskOK(g, tasks[g][i])'
      <4>1. tasks[g] \in Seq(PendingGaugeTask) BY <1>2
      <4>2. CASE g # h
        <5>1. tasks'[g] = tasks[g] BY <1>2, <2>9, <4>2
        <5> QED BY <1>4, <5>1
      <4>3. CASE g = h
        <5>1. tasks'[g] = Append(tasks[g], e) BY <1>2, <2>9, <4>3
        <5>2. i \in 1..Len(tasks[g]) + 1 /\ Len(tasks[g]) \in Nat BY <4>1, <5>1
        <5>3. CASE i \in 1..Len(tasks[g])
          <6>1. tasks'[g][i] = tasks[g][i] BY <4>1, <5>1, <5>3
          <6> QED BY <1>4, <5>3, <6>1
        <5>4. CASE i = Len(tasks[g]) + 1
          <6>1. tasks'[g][i] = e BY <4>1, <5>1, <5>4
          <6> QED BY <2>8, <4>3, <6>1 DEF TaskOK
        <5> QED BY <5>2, <5>3, <5>4
      <4> QED BY <4>2, <4>3
    <3> QED BY <3>1 DEF TasksInv
  <2> QED BY <1>5, <2>6, <2>9
<1> QED BY <1>5, <1>6, <1>7, Frame

LEMMA SalesStep ==
  ASSUME DataOK, DataOK', QueueInv, TasksInv, SalesInv, [Next]_vars PROVE SalesInv'
<1>1. Pop \/ Answer \/ Quiet \/ World BY Shapes
<1>2. sales \in [Orders -> Sale] BY DEF DataOK
<1>3. ASSUME NEW o \in Orders, sales'[o].before = sales[o].before, sales'[o].before # NoReading
      PROVE  Since(tank', responses', GaugeOf[o], sales'[o].before.at, 0)
  <2>1. sales[o].before \in AnyReading BY <1>2 DEF Sale
  <2>2. sales[o].before \in Reading BY <1>3, <2>1 DEF AnyReading
  <2>3. sales[o].before.at \in Nat /\ GaugeOf[o] \in Gauges BY <2>2, Responses, Facts
  <2> QED BY <1>1, <1>3, <2>3, Forward DEF SalesInv
<1>4. CASE UNCHANGED sales BY <1>3, <1>4 DEF SalesInv
<1>5. ASSUME NEW n \in batch, VisitEvent(n) PROVE SalesInv'
  <2>1. sales' = sales \/ sales' = [sales EXCEPT ![log[n].order].pending = TRUE]
    BY <1>5 DEF VisitEvent
  <2>2. \A o \in Orders : sales'[o].before = sales[o].before BY <1>2, <2>1 DEF Sale
  <2> QED BY <1>3, <2>2 DEF SalesInv
<1>6. CASE processParameters
  <2>1. PICK r : r = Head(responses).reading OBVIOUS
  <2>2. /\ r \in Reading /\ r.gauge \in Gauges /\ Since(tank', responses', r.gauge, r.at, 0)
        /\ \/ UNCHANGED orderVars
           \/ tasks[r.gauge] # <<>> /\ ServeTask(Head(tasks[r.gauge]), r)
    BY <1>6, <2>1, Handled
  <2>3. CASE tasks[r.gauge] # <<>> /\ ServeTask(Head(tasks[r.gauge]), r)
    <3>1. PICK t : t = Head(tasks[r.gauge]) OBVIOUS
    <3>2. t.order \in Orders /\ GaugeOf[t.order] = r.gauge
      BY <2>2, <2>3, <3>1, Served DEF TaskOK
    <3>3. \/ sales' = sales \/ sales' = [sales EXCEPT ![t.order] = NoSale]
          \/ sales' = [sales EXCEPT ![t.order].before = r]
      BY <2>3, <3>1 DEF ServeTask, TaskReading
    <3>4. ASSUME NEW o \in Orders
          PROVE  \/ sales'[o].before = sales[o].before
                 \/ sales'[o].before = NoReading
                 \/ o = t.order /\ sales'[o].before = r
      BY <1>2, <3>2, <3>3 DEF NoSale, Sale
    <3> QED BY <1>3, <2>2, <3>2, <3>4 DEF SalesInv
  <2> QED BY <1>4, <2>2, <2>3 DEF orderVars
<1> QED BY <1>4, <1>5, <1>6, Frame

LEMMA SoldStep ==
  ASSUME DataOK, DataOK', QueueInv, TasksInv, SalesInv, SoldInv, [Next]_vars PROVE SoldInv'
<1>1. Pop \/ Answer \/ Quiet \/ World BY Shapes
<1> DEFINE Told(s) == /\ s.order \in Orders /\ Logged([order |-> s.order, task |-> "AFTER"])
                      /\ s.after.gauge = GaugeOf[s.order]
                      /\ ended[s.order] > 0 /\ s.after.at >= ended[s.order]
                      /\ s.before # NoReading => s.before.at <= s.after.at
<1>2. \A s \in sold : Told(s) BY DEF SoldInv, SaleReadings
<1>3. ASSUME NEW s, Told(s) PROVE Told(s)'
  <2>1. PICK e : e = [order |-> s.order, task |-> "AFTER"] OBVIOUS
  <2>2. e.task = "AFTER" /\ e.order = s.order /\ Logged(e) BY <1>3, <2>1
  <2>3. Logged(e)' /\ ended'[e.order] = ended[e.order] BY <1>1, <2>2, LogForward
  <2> QED BY <1>3, <2>1, <2>2, <2>3
<1>4. ASSUME \A s \in sold' : Told(s)' PROVE SoldInv' BY <1>4 DEF SoldInv, SaleReadings
<1>5. CASE UNCHANGED sold
  <2>1. \A s \in sold : Told(s)' BY <1>2, <1>3
  <2> HIDE DEF Told
  <2> QED BY <1>4, <1>5, <2>1
<1>6. CASE processParameters
  <2>1. PICK r : r = Head(responses).reading OBVIOUS
  <2>2. /\ r \in Reading /\ r.gauge \in Gauges
        /\ \A n : Since(tank, responses, r.gauge, n, 0) => n <= r.at
        /\ \/ UNCHANGED orderVars
           \/ tasks[r.gauge] # <<>> /\ ServeTask(Head(tasks[r.gauge]), r)
    BY <1>6, <2>1, Handled
  <2>3. ASSUME tasks[r.gauge] # <<>>, ServeTask(Head(tasks[r.gauge]), r) PROVE SoldInv'
    <3>1. PICK t : t = Head(tasks[r.gauge]) OBVIOUS
    <3>2. t \in PendingGaugeTask /\ t.order \in Orders /\ TaskOK(r.gauge, t)
      BY <2>2, <2>3, <3>1, Served
    <3>3. \/ sold' = sold
          \/ /\ t.task = "AFTER"
             /\ sold' = sold \cup {[order |-> t.order, before |-> sales[t.order].before,
                                    after |-> r]}
      BY <2>3, <3>1 DEF ServeTask, TaskReading
    <3>4. CASE t.task = "AFTER" /\ sold' # sold
      <4>1. PICK s : s = [order |-> t.order, before |-> sales[t.order].before, after |-> r]
        OBVIOUS
      <4>2. s.order = t.order /\ s.before = sales[t.order].before /\ s.after = r BY <4>1
      <4>3. t = [order |-> t.order, task |-> "AFTER"] BY <3>2, <3>4 DEF PendingGaugeTask
      <4>4. /\ Logged(t) /\ ended[t.order] > 0 /\ GaugeOf[t.order] = r.gauge
            /\ Since(tank, responses, r.gauge, ended[t.order], 0)
        BY <3>2, <3>4 DEF TaskOK
      <4>5. ended[t.order] <= r.at BY <2>2, <4>4
      <4>6. ended[t.order] \in Nat /\ r.at \in Nat BY <2>2, <3>2, Responses DEF DataOK
      <4>7. s.before # NoReading => s.before.at <= r.at BY <2>2, <3>2, <4>2, <4>4 DEF SalesInv
      <4>8. Told(s) BY <2>2, <3>2, <4>2, <4>3, <4>4, <4>5, <4>6, <4>7
      <4>9. \A x \in sold' : x \in sold \/ x = s BY <3>3, <3>4, <4>1
      <4> HIDE DEF Told
      <4>10. \A x \in sold' : Told(x)' BY <1>2, <1>3, <4>8, <4>9
      <4> QED BY <1>4, <4>10
    <3> QED BY <1>5, <3>3, <3>4
  <2> QED BY <1>5, <2>2, <2>3 DEF orderVars
<1> QED BY <1>5, <1>6, Frame
-----------------------------------------------------------------------------
(* The reception.                                                          *)

\* A reading is only replaced by one that is not older.
LEMMA ReadingGrows ==
  ASSUME DataOK, QueueInv, ReadingInv, [Next]_vars, NEW g \in Gauges, reading[g] # NoReading
  PROVE  \/ reading'[g] = reading[g]
         \/ /\ reading'[g] \in Reading /\ reading[g].at <= reading'[g].at
            /\ processParameters
<1>1. CASE reading' = reading BY <1>1
<1>2. CASE processParameters
  <2>1. PICK r : r = Head(responses).reading OBVIOUS
  <2>2. /\ reading' = [reading EXCEPT ![r.gauge] = r] /\ r \in Reading /\ r.gauge \in Gauges
        /\ \A n : Since(tank, responses, r.gauge, n, 0) => n <= r.at
    BY <1>2, <2>1, Handled
  <2>3. reading \in [Gauges -> AnyReading] BY DEF DataOK
  <2>4. Since(tank, responses, g, reading[g].at, 0) BY DEF ReadingInv
  <2> QED BY <1>2, <2>2, <2>3, <2>4
<1> QED BY <1>1, <1>2, Frame

LEMMA ReceptionStep ==
  ASSUME DataOK, DataOK', QueueInv, ReadingInv, ReadingInv', ReceptionInv, [Next]_vars
  PROVE  ReceptionInv'
<1> DEFINE Running == active => /\ doc # NoDoc
                                /\ initial # NoReading => /\ reading[rgauge] # NoReading
                                                          /\ initial.gauge = rgauge
                                                          /\ initial.at <= reading[rgauge].at
<1>1. Running /\ ReportInOrder BY DEF ReceptionInv
<1>2. initial \in AnyReading /\ reading \in [Gauges -> AnyReading] /\ (active => rgauge \in Gauges)
  BY DEF DataOK
<1>3. ASSUME NEW r \in Reading PROVE r.at \in Nat BY Responses
<1>4. Running'
  <2>1. CASE UNCHANGED <<active, rgauge, doc, initial>>
    <3>1. ASSUME active, initial # NoReading
          PROVE  reading'[rgauge] # NoReading /\ initial.at <= reading'[rgauge].at
      <4>1. rgauge \in Gauges /\ reading[rgauge] # NoReading /\ initial.at <= reading[rgauge].at
        BY <1>1, <1>2, <3>1
      <4>2. initial \in Reading /\ reading[rgauge] \in Reading
        BY <1>2, <3>1, <4>1 DEF AnyReading
      <4>3. CASE reading'[rgauge] = reading[rgauge] BY <4>1, <4>3
      <4>4. CASE reading'[rgauge] \in Reading /\ reading[rgauge].at <= reading'[rgauge].at
        <5>1. initial.at \in Nat /\ reading[rgauge].at \in Nat /\ reading'[rgauge].at \in Nat
          BY <1>3, <4>2, <4>4
        <5>2. reading'[rgauge] # NoReading BY <4>4, Facts
        <5> QED BY <4>1, <4>4, <5>1, <5>2
      <4> QED BY <4>1, <4>3, <4>4, ReadingGrows
    <3> QED BY <1>1, <2>1, <3>1
  <2>2. CASE processReceptionTanker
    <3>1. UNCHANGED <<doc, reading>> BY <2>2 DEF processReceptionTanker, Touch, gaugeVars
    <3>2. CASE doc = NoDoc \/ ~gauges \/ ~tankers
      <4>1. UNCHANGED <<active, rgauge, initial>> BY <2>2, <3>2 DEF processReceptionTanker
      <4> QED BY <1>1, <3>1, <4>1
    <3>3. CASE ~(doc = NoDoc \/ ~gauges \/ ~tankers)
      <4>1. rgauge' = GaugeSeq[index] /\ initial' = reading[GaugeSeq[index]]
        BY <2>2, <3>3 DEF processReceptionTanker
      <4>2. GaugeSeq[index] \in Gauges BY Facts DEF DataOK
      <4>3. initial' # NoReading =>
              initial' \in Reading /\ initial'.gauge = rgauge' /\ initial' = reading'[rgauge']
        BY <1>2, <3>1, <4>1, <4>2 DEF AnyReading, ReadingInv
      <4>4. initial' # NoReading => initial'.at <= initial'.at BY <1>3, <4>3
      <4> QED BY <3>1, <3>3, <4>3, <4>4
    <3> QED BY <3>2, <3>3
  <2>3. CASE handleFinishReceptionFuel BY <2>3 DEF handleFinishReceptionFuel
  <2>4. ASSUME NEW d \in Docs, EnterDocument(d) PROVE Running'
    <3>1. doc' # NoDoc /\ UNCHANGED <<active, rgauge, initial, reading>>
      BY <2>4, Facts DEF EnterDocument, Touch, gaugeVars
    <3> QED BY <1>1, <3>1
  <2> QED BY <2>1, <2>2, <2>3, <2>4, Frame
<1>5. ReportInOrder'
  <2>1. CASE UNCHANGED reports BY <1>1, <2>1 DEF ReportInOrder
  <2>2. CASE handleFinishReceptionFuel
    <3> DEFINE x == [gauge |-> rgauge, doc |-> doc, initial |-> initial,
                     final |-> reading[rgauge], started |-> started,
                     litres |-> StoredLitres(calculateFuelLiters(initial, reading[rgauge]))]
    <3>1. \/ UNCHANGED reports
          \/ /\ active /\ initial # NoReading /\ reading[rgauge] # NoReading
             /\ reports' = reports \cup {x}
      BY <2>2 DEF handleFinishReceptionFuel
    <3>2. x.gauge = rgauge /\ x.doc = doc /\ x.initial = initial /\ x.final = reading[rgauge]
      OBVIOUS
    <3> HIDE DEF x
    <3>3. ASSUME active, initial # NoReading, reading[rgauge] # NoReading
          PROVE  /\ x.doc # NoDoc /\ x.initial.gauge = x.gauge /\ x.final.gauge = x.gauge
                 /\ x.initial.at <= x.final.at
      BY <1>1, <1>2, <3>2, <3>3 DEF ReadingInv
    <3> QED BY <1>1, <2>1, <3>1, <3>3 DEF ReportInOrder
  <2> QED BY <2>1, <2>2, Frame
<1> QED BY <1>4, <1>5 DEF ReceptionInv

-----------------------------------------------------------------------------
(* The theorems.                                                           *)

FuelInv == DataOK /\ QueueInv /\ KeptInv /\ ReceptionInv

LEMMA InitFuel == Init => FuelInv
<1> SUFFICES ASSUME Init PROVE FuelInv OBVIOUS
<1>1. /\ responses = <<>> /\ log = <<>> /\ batch = {} /\ sold = {} /\ reports = {}
      /\ active = FALSE
      /\ \A g \in Gauges : reading[g] = NoReading /\ tasks[g] = <<>>
      /\ \A o \in Orders : sales[o].before = NoReading
  BY DEF Init, NoSale
<1>2. Len(<<>>) = 0 OBVIOUS
<1>3. QueueInv BY <1>1, <1>2 DEF QueueInv
<1>4. KeptInv
  BY <1>1, <1>2 DEF KeptInv, ReadingInv, BatchInv, TasksInv, SalesInv, SoldInv, SaleReadings
<1>5. ReceptionInv BY <1>1 DEF ReceptionInv, ReportInOrder
<1> QED BY <1>3, <1>4, <1>5, InitData DEF FuelInv

LEMMA StepFuel == FuelInv /\ [Next]_vars => FuelInv'
<1> SUFFICES ASSUME FuelInv, [Next]_vars PROVE FuelInv' OBVIOUS
<1>1. DataOK /\ QueueInv /\ ReceptionInv /\ ReadingInv /\ BatchInv /\ TasksInv /\ SalesInv /\ SoldInv
  BY DEF FuelInv, KeptInv
<1>2. DataOK' BY <1>1, StepData DEF BatchInv
<1>3. QueueInv' BY <1>1, <1>2, Shapes, QueueStep
<1>4. ReadingInv' /\ BatchInv' BY <1>1, <1>2, ReadingStep, BatchStep
<1>5. TasksInv' /\ SalesInv' /\ SoldInv' BY <1>1, <1>2, TasksStep, SalesStep, SoldStep
<1>6. ReceptionInv' BY <1>1, <1>2, <1>4, ReceptionStep
<1> QED BY <1>2, <1>3, <1>4, <1>5, <1>6 DEF FuelInv, KeptInv

LEMMA FuelInvariant == Spec => []FuelInv
  BY InitFuel, StepFuel, PTL DEF Spec

\* ReportInOrder for every instance: a reception is reported with a document
\* number and two readings of its own gauge, the last not older than the first,
\* however pages, ticks, orders and other receptions share the answers.
THEOREM ReceptionReported == Spec => []ReportInOrder
<1>1. FuelInv => ReportInOrder BY DEF FuelInv, ReceptionInv
<1> QED BY <1>1, FuelInvariant, PTL

\* SaleReadings for every instance: the reading after fuelling in a sale is one
\* of its own tank taken after the order ended, and the one before is not
\* younger, whoever asked for them.
THEOREM SaleReadInOrder == Spec => []SaleReadings
<1>1. FuelInv => SaleReadings BY DEF FuelInv, KeptInv, SoldInv
<1> QED BY <1>1, FuelInvariant, PTL
=============================================================================
