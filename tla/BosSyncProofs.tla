--------------------------- MODULE BosSyncProofs ---------------------------
(***************************************************************************)
(* Proofs about BosSync, for every number of sales, receptions and         *)
(* crashes.  A record reaches 1C only through the one request made when    *)
(* its row was inserted, and the request is in one place at a time: that   *)
(* is what the inductive invariant below says.                             *)
(***************************************************************************)
EXTENDS BosSync, TLAPS

\* A request belongs to a stored row.
Stored(r) == r.id <= Len(rows[r.kind])

\* Queued requests are of stored rows, and 1C has none of them yet.
QueueUntried ==
    \A i \in 1..Len(m_queue) : Stored(m_queue[i]) /\ accepted[m_queue[i]] = 0

\* No request is queued twice.
QueueOnce ==
    \A i, j \in 1..Len(m_queue) : m_queue[i] = m_queue[j] => i = j

\* The request being performed left the queue, and each earlier attempt can
\* have been accepted once.
TaskTries ==
    \A r \in Requests : task = <<r>> =>
        /\ Stored(r)
        /\ accepted[r] < attempt
        /\ \A i \in 1..Len(m_queue) : m_queue[i] # r

\* 1C has no record that is not stored.
AcceptedIsStored == \A r \in Requests : accepted[r] > 0 => Stored(r)

\* 1C accepted some record with the id of a 2xx response.
OkIsAccepted ==
    \A i \in 1..Len(inbox) :
        inbox[i].ok => \E k \in Kinds : accepted[[kind |-> k, id |-> inbox[i].id]] > 0

\* The inductive invariant.
IInv ==
    /\ TypeOK
    /\ QueueUntried
    /\ QueueOnce
    /\ TaskTries
    /\ AcceptedIsStored
    /\ AcceptedAtMostTwice
    /\ OkIsAccepted
    /\ SentIsSomeAccepted

-----------------------------------------------------------------------------
\* The bound on the ids covers both tables.
LEMMA LimitInRange == \A k \in Kinds : Limit(k) \in Nat /\ Limit(k) <= MaxRows /\ MaxRows \in Nat
  BY BoundsAssumption DEF Kinds, Limit, MaxRows

\* Initially there is no row, no request and no response.
LEMMA InitIInv == Init => IInv
<1> SUFFICES ASSUME Init PROVE IInv OBVIOUS
<1>1. TypeOK
  BY LimitInRange, BoundsAssumption DEF Init, TypeOK, Kinds
<1>2. QueueUntried /\ QueueOnce /\ OkIsAccepted /\ SentIsSomeAccepted
  BY DEF Init, QueueUntried, QueueOnce, OkIsAccepted, SentIsSomeAccepted, Kinds
<1>3. TaskTries /\ AcceptedIsStored /\ AcceptedAtMostTwice
  BY DEF Init, TaskTries, AcceptedIsStored, AcceptedAtMostTwice
<1> QED BY <1>1, <1>2, <1>3 DEF IInv

\* Storing a row and queueing its request: the request is new, as its id is
\* beyond every stored row.
LEMMA ReportIInv == ASSUME NEW k \in Kinds, IInv, Report(k) PROVE IInv'
<1> USE DEF IInv
<1> DEFINE r == Request(k)
<1>0. Len(rows[k]) \in Nat /\ Len(rows[k]) + 1 <= Limit(k) /\ rows[k] \in Seq(BOOLEAN)
  BY LimitInRange DEF TypeOK, Report
<1>1. r \in Requests /\ r.kind = k /\ r.id = Len(rows[k]) + 1
  BY <1>0, LimitInRange DEF Request, Requests
<1>2. rows' = [rows EXCEPT ![k] = Append(rows[k], FALSE)]
  BY DEF Report, insert
<1>3. /\ rows' \in [Kinds -> Seq(BOOLEAN)]
      /\ Len(rows'[k]) = Len(rows[k]) + 1
      /\ \A q \in Kinds : q # k => rows'[q] = rows[q]
      /\ \A i \in 1..Len(rows[k]) : rows'[k][i] = rows[k][i]
      /\ rows'[k][Len(rows[k]) + 1] = FALSE
  BY <1>0, <1>2 DEF TypeOK
<1>4. \A q \in Kinds : Len(rows[q]) \in Nat /\ Len(rows'[q]) <= Limit(q) /\ Len(rows'[q]) >= Len(rows[q])
  <2> TAKE q \in Kinds
  <2>1. rows[q] \in Seq(BOOLEAN) /\ Len(rows[q]) \in Nat /\ Len(rows[q]) <= Limit(q)
    BY DEF TypeOK
  <2>2. CASE q = k BY <2>1, <2>2, <1>0, <1>3
  <2>3. CASE q # k BY <2>1, <2>3, <1>3
  <2> QED BY <2>2, <2>3
<1>5. m_queue' = Append(m_queue, r) /\ UNCHANGED <<task, attempt, inbox, accepted, crashes>>
  BY DEF Report
<1>6. /\ m_queue \in Seq(Requests) /\ m_queue' \in Seq(Requests)
      /\ Len(m_queue') = Len(m_queue) + 1
      /\ \A i \in 1..Len(m_queue) : m_queue'[i] = m_queue[i]
      /\ m_queue'[Len(m_queue) + 1] = r
  BY <1>1, <1>5 DEF TypeOK
<1>7. TypeOK'
  BY <1>3, <1>4, <1>5, <1>6 DEF TypeOK
<1>8. \A q \in Requests : q.id <= Len(rows[q.kind]) => q # r /\ q.id <= Len(rows'[q.kind])
  <2> SUFFICES ASSUME NEW q \in Requests, q.id <= Len(rows[q.kind])
               PROVE q # r /\ q.id <= Len(rows'[q.kind])
    OBVIOUS
  <2>1. q.kind \in Kinds /\ q.id \in Nat
    BY LimitInRange DEF Requests, Kinds
  <2> QED BY <2>1, <1>0, <1>1, <1>4
<1>9. accepted[r] = 0 /\ r.id <= Len(rows'[r.kind])
  <2>1. accepted[r] \in Nat
    BY <1>1 DEF TypeOK
  <2>2. ~(r.id <= Len(rows[r.kind]))
    BY <1>0, <1>1
  <2> HIDE DEF r
  <2> QED BY <2>1, <2>2, <1>0, <1>1, <1>3 DEF AcceptedIsStored, Stored
<1> HIDE DEF r
<1>10. \A i \in 1..Len(m_queue) :
          /\ m_queue[i] \in Requests /\ m_queue[i] # r /\ accepted[m_queue[i]] = 0
          /\ m_queue[i].id <= Len(rows'[m_queue[i].kind])
  BY <1>6, <1>8 DEF QueueUntried, Stored
<1>11. QueueUntried'
  <2> SUFFICES ASSUME NEW i \in 1..Len(m_queue')
               PROVE m_queue'[i].id <= Len(rows'[m_queue'[i].kind]) /\ accepted'[m_queue'[i]] = 0
    BY DEF QueueUntried, Stored
  <2>1. Len(m_queue) \in Nat BY <1>6
  <2>2. CASE i = Len(m_queue) + 1 BY <2>2, <1>5, <1>6, <1>9
  <2>3. CASE i \in 1..Len(m_queue) BY <2>3, <1>5, <1>6, <1>10
  <2> QED BY <2>1, <2>2, <2>3, <1>6
<1>12. QueueOnce'
  BY <1>6, <1>10 DEF QueueOnce
<1>13. TaskTries'
  <2> SUFFICES ASSUME NEW q \in Requests, task' = <<q>>
               PROVE /\ q.id <= Len(rows'[q.kind]) /\ accepted'[q] < attempt'
                     /\ \A i \in 1..Len(m_queue') : m_queue'[i] # q
    BY DEF TaskTries, Stored
  <2>1. q.id <= Len(rows[q.kind]) /\ accepted[q] < attempt /\ \A i \in 1..Len(m_queue) : m_queue[i] # q
    BY <1>5 DEF TaskTries, Stored
  <2>2. Len(m_queue) \in Nat BY <1>6
  <2> QED BY <2>1, <2>2, <1>5, <1>6, <1>8
<1>14. AcceptedIsStored' /\ AcceptedAtMostTwice' /\ OkIsAccepted'
  BY <1>5, <1>8 DEF AcceptedIsStored, AcceptedAtMostTwice, OkIsAccepted, Stored
<1>15. SentIsSomeAccepted'
  <2>1. CASE k = "sale"
    <3> SUFFICES ASSUME NEW id \in DOMAIN rows'["sale"], rows'["sale"][id]
                 PROVE \E q \in Kinds : accepted'[[kind |-> q, id |-> id]] > 0
      BY DEF SentIsSomeAccepted
    <3>1. rows'["sale"] \in Seq(BOOLEAN) /\ DOMAIN rows'["sale"] = 1..(Len(rows["sale"]) + 1)
      BY <2>1, <1>3
    <3>2. id \in 1..Len(rows["sale"]) /\ rows["sale"][id]
      BY <2>1, <3>1, <1>0, <1>3
    <3>3. id \in DOMAIN rows["sale"]
      BY <2>1, <3>2, <1>0
    <3> QED BY <3>2, <3>3, <1>5 DEF SentIsSomeAccepted
  <2>2. CASE k # "sale"
    BY <2>2, <1>3, <1>5 DEF SentIsSomeAccepted, Kinds
  <2> QED BY <2>1, <2>2
<1> QED BY <1>7, <1>11, <1>12, <1>13, <1>14, <1>15

\* Handling a response marks a row only for a 2xx, which 1C gave for the id.
LEMMA ResponseIInv == ASSUME IInv, handleHttpResponse PROVE IInv'
<1> USE DEF IInv
<1>1. /\ inbox \in Seq(Responses) /\ inbox # <<>> /\ inbox' = Tail(inbox)
      /\ UNCHANGED <<m_queue, task, attempt, accepted, crashes>>
  BY DEF TypeOK, handleHttpResponse
<1>2. /\ Len(inbox) \in Nat \ {0} /\ inbox' \in Seq(Responses)
      /\ Len(inbox') = Len(inbox) - 1
      /\ \A i \in 1..Len(inbox') : inbox'[i] = inbox[i + 1]
      /\ Head(inbox) = inbox[1] /\ Head(inbox) \in Responses
  BY <1>1
<1>3. /\ rows' \in [Kinds -> Seq(BOOLEAN)]
      /\ \A k \in Kinds : Len(rows'[k]) = Len(rows[k]) /\ DOMAIN rows'[k] = DOMAIN rows[k]
      /\ \A i \in DOMAIN rows["sale"] :
            rows'["sale"][i] => rows["sale"][i] \/ (Head(inbox).ok /\ Head(inbox).id = i)
  <2>1. CASE Head(inbox).ok /\ Head(inbox).id \in DOMAIN rows["sale"]
    <3> DEFINE n == Head(inbox).id
    <3>1. rows["sale"] \in Seq(BOOLEAN) /\ "sale" \in Kinds
      BY DEF TypeOK, Kinds
    <3>2. rows' = [rows EXCEPT !["sale"] = [rows["sale"] EXCEPT ![n] = TRUE]]
      BY <2>1 DEF handleHttpResponse, markAsSent
    <3>3. [rows["sale"] EXCEPT ![n] = TRUE] \in Seq(BOOLEAN)
      BY <3>1, <2>1
    <3> QED BY <2>1, <3>1, <3>2, <3>3 DEF TypeOK
  <2>2. CASE ~(Head(inbox).ok /\ Head(inbox).id \in DOMAIN rows["sale"])
    BY <2>2 DEF handleHttpResponse, markAsSent, TypeOK
  <2> QED BY <2>1, <2>2
<1>4. TypeOK'
  BY <1>1, <1>2, <1>3 DEF TypeOK
<1>5. \A q \in Requests : Len(rows'[q.kind]) = Len(rows[q.kind])
  BY <1>3 DEF Requests
<1>6. QueueUntried' /\ QueueOnce' /\ TaskTries' /\ AcceptedIsStored' /\ AcceptedAtMostTwice'
  <2>1. \A i \in 1..Len(m_queue) : m_queue[i] \in Requests
    BY DEF TypeOK
  <2>2. QueueUntried' BY <2>1, <1>1, <1>5 DEF QueueUntried, Stored
  <2>3. QueueOnce' BY <1>1 DEF QueueOnce
  <2>4. TaskTries' BY <1>1, <1>5 DEF TaskTries, Stored
  <2>5. AcceptedIsStored' BY <1>1, <1>5 DEF AcceptedIsStored, Stored
  <2> QED BY <2>2, <2>3, <2>4, <2>5, <1>1 DEF AcceptedAtMostTwice
<1>7. OkIsAccepted'
  <2> SUFFICES ASSUME NEW i \in 1..Len(inbox'), inbox'[i].ok
               PROVE \E k \in Kinds : accepted'[[kind |-> k, id |-> inbox'[i].id]] > 0
    BY DEF OkIsAccepted
  <2>1. i + 1 \in 1..Len(inbox) /\ inbox'[i] = inbox[i + 1]
    BY <1>2
  <2> QED BY <2>1, <1>1 DEF OkIsAccepted
<1>8. SentIsSomeAccepted'
  <2>1. Head(inbox).ok => \E k \in Kinds : accepted[[kind |-> k, id |-> Head(inbox).id]] > 0
    BY <1>2 DEF OkIsAccepted
  <2> QED BY <1>1, <1>3, <2>1 DEF SentIsSomeAccepted, Kinds
<1> QED BY <1>4, <1>6, <1>7, <1>8

\* The worker takes the oldest request: it is queued nowhere else.
LEMMA WorkerIInv == ASSUME IInv, workerThread PROVE IInv'
<1> USE DEF IInv
<1>1. /\ m_queue \in Seq(Requests) /\ m_queue # <<>> /\ m_queue' = Tail(m_queue)
      /\ task' = <<Head(m_queue)>> /\ attempt' = 1
      /\ UNCHANGED <<rows, inbox, accepted, crashes>>
  BY DEF TypeOK, workerThread
<1>2. /\ Len(m_queue) \in Nat \ {0} /\ m_queue' \in Seq(Requests)
      /\ Len(m_queue') = Len(m_queue) - 1
      /\ \A i \in 1..Len(m_queue') : m_queue'[i] = m_queue[i + 1]
      /\ Head(m_queue) = m_queue[1] /\ Head(m_queue) \in Requests
  BY <1>1
<1>3. TypeOK'
  BY <1>1, <1>2 DEF TypeOK
<1>5. QueueUntried'
  BY <1>1, <1>2 DEF QueueUntried, Stored
<1>6. QueueOnce'
  BY <1>1, <1>2 DEF QueueOnce
<1>7. TaskTries'
  <2> SUFFICES ASSUME NEW r \in Requests, task' = <<r>>
               PROVE Stored(r)' /\ accepted'[r] < attempt' /\ \A i \in 1..Len(m_queue') : m_queue'[i] # r
    BY DEF TaskTries
  <2>1. r = m_queue[1]
    BY <1>1, <1>2
  <2>2. Stored(r)' /\ accepted'[r] = 0
    BY <2>1, <1>1, <1>2 DEF QueueUntried, Stored
  <2>3. \A i \in 1..Len(m_queue') : m_queue'[i] # r
    BY <2>1, <1>2 DEF QueueOnce
  <2> QED BY <2>2, <2>3, <1>1
<1>8. AcceptedIsStored' /\ AcceptedAtMostTwice' /\ OkIsAccepted' /\ SentIsSomeAccepted'
  BY <1>1 DEF AcceptedIsStored, AcceptedAtMostTwice, OkIsAccepted, SentIsSomeAccepted, Stored
<1> QED BY <1>3, <1>5, <1>6, <1>7, <1>8

\* An attempt: 1C accepts the record of the task, or not; then the task ends
\* with a response, a 2xx only if 1C accepted, or its first try is over.
LEMMA PerformIInv == ASSUME IInv, Perform PROVE IInv'
<1> USE DEF IInv
<1>1. PICK r \in Requests : task = <<r>>
  BY DEF Perform, AcceptedAndAnswered, Refused, NotDelivered, AnswerLost, TypeOK
<1>2. UNCHANGED <<rows, m_queue, crashes>>
  BY DEF Perform, AcceptedAndAnswered, Refused, NotDelivered, AnswerLost
<1>3. UNCHANGED accepted \/ accepted' = [accepted EXCEPT ![r] = @ + 1]
  BY <1>1 DEF Perform, AcceptedAndAnswered, Refused, NotDelivered, AnswerLost, Accept
<1>4. \/ task' = task /\ attempt = 1 /\ attempt' = 2 /\ inbox' = inbox
      \/ \E ok \in BOOLEAN :
            /\ task' = <<>> /\ attempt' = attempt
            /\ inbox' = Append(inbox, [id |-> r.id, ok |-> ok])
            /\ ok => accepted' = [accepted EXCEPT ![r] = @ + 1]
  BY <1>1 DEF Perform, AcceptedAndAnswered, Refused, NotDelivered, AnswerLost, Accept,
              Respond, Failed, TypeOK
<1>5. /\ accepted \in [Requests -> Nat] /\ accepted' \in [Requests -> Nat]
      /\ \A q \in Requests : q # r => accepted'[q] = accepted[q]
      /\ \A q \in Requests : accepted'[q] >= accepted[q]
      /\ accepted'[r] <= accepted[r] + 1
  <2>1. accepted \in [Requests -> Nat] /\ accepted[r] \in Nat
    BY DEF TypeOK
  <2>2. CASE UNCHANGED accepted
    BY <2>1, <2>2
  <2>3. CASE accepted' = [accepted EXCEPT ![r] = @ + 1]
    BY <2>1, <2>3
  <2> QED BY <2>2, <2>3, <1>3
<1>6. /\ Stored(r) /\ accepted[r] < attempt /\ attempt \in {1, 2}
      /\ \A i \in 1..Len(m_queue) : m_queue[i] # r
  BY <1>1 DEF TaskTries, TypeOK
<1>7. r.id \in 1..MaxRows /\ r.kind \in Kinds /\ r = [kind |-> r.kind, id |-> r.id]
  BY DEF Requests
<1>8. TypeOK'
  <2>1. inbox' \in Seq(Responses)
    <3>1. \A ok \in BOOLEAN : [id |-> r.id, ok |-> ok] \in Responses
      BY <1>7 DEF Responses
    <3>2. inbox \in Seq(Responses)
      BY DEF TypeOK
    <3>3. CASE inbox' = inbox BY <3>2, <3>3
    <3>4. ASSUME NEW ok \in BOOLEAN, inbox' = Append(inbox, [id |-> r.id, ok |-> ok])
          PROVE  inbox' \in Seq(Responses)
      <4>1. [id |-> r.id, ok |-> ok] \in Responses BY <3>1
      <4> HIDE DEF IInv
      <4> QED BY <3>2, <3>4, <4>1
    <3> QED BY <3>3, <3>4, <1>4
  <2>2. task' = <<>> \/ \E q \in Requests : task' = <<q>>
    BY <1>1, <1>4
  <2>3. attempt' \in {1, 2}
    BY <1>4, <1>6
  <2> QED BY <2>1, <2>2, <2>3, <1>2, <1>5 DEF TypeOK
<1>9. \A q \in Requests : Stored(q)' <=> Stored(q)
  BY <1>2 DEF Stored
<1>10. QueueUntried' /\ QueueOnce'
  <2>1. \A i \in 1..Len(m_queue) : m_queue[i] \in Requests
    BY DEF TypeOK
  <2> QED BY <2>1, <1>2, <1>5, <1>6 DEF QueueUntried, QueueOnce, Stored
<1>11. TaskTries'
  <2> SUFFICES ASSUME NEW q \in Requests, task' = <<q>>
               PROVE Stored(q)' /\ accepted'[q] < attempt' /\ \A i \in 1..Len(m_queue') : m_queue'[i] # q
    BY DEF TaskTries
  <2>1. q = r /\ attempt = 1 /\ attempt' = 2
    BY <1>1, <1>4
  <2> QED BY <2>1, <1>2, <1>5, <1>6, <1>9
<1>12. AcceptedIsStored'
  BY <1>5, <1>6, <1>9 DEF AcceptedIsStored
<1>13. AcceptedAtMostTwice'
  BY <1>5, <1>6 DEF AcceptedAtMostTwice
<1>14. \A i \in 1..MaxRows : \A k \in Kinds :
          accepted[[kind |-> k, id |-> i]] > 0 => accepted'[[kind |-> k, id |-> i]] > 0
  <2> SUFFICES ASSUME NEW i \in 1..MaxRows, NEW k \in Kinds, accepted[[kind |-> k, id |-> i]] > 0
               PROVE accepted'[[kind |-> k, id |-> i]] > 0
    OBVIOUS
  <2>1. [kind |-> k, id |-> i] \in Requests
    BY DEF Requests
  <2> QED BY <2>1, <1>5
<1>15. OkIsAccepted'
  <2>0. \A i \in 1..Len(inbox) : inbox[i] \in Responses
    BY DEF TypeOK
  <2>1. \A i \in 1..Len(inbox) : inbox[i].id \in 1..MaxRows
    BY <2>0 DEF Responses
  <2>2. CASE inbox' = inbox
    BY <2>1, <2>2, <1>14 DEF OkIsAccepted
  <2>3. ASSUME NEW ok \in BOOLEAN, inbox' = Append(inbox, [id |-> r.id, ok |-> ok]),
               ok => accepted' = [accepted EXCEPT ![r] = @ + 1]
        PROVE  OkIsAccepted'
    <3>1. ok => accepted'[[kind |-> r.kind, id |-> r.id]] > 0
      BY <2>3, <1>5, <1>7
    <3>2. /\ inbox \in Seq(Responses) /\ Len(inbox') = Len(inbox) + 1
          /\ \A i \in 1..Len(inbox) : inbox'[i] = inbox[i]
          /\ inbox'[Len(inbox) + 1] = [id |-> r.id, ok |-> ok]
      BY <2>3 DEF TypeOK
    <3> SUFFICES ASSUME NEW i \in 1..Len(inbox'), inbox'[i].ok
                 PROVE \E k \in Kinds : accepted'[[kind |-> k, id |-> inbox'[i].id]] > 0
      BY DEF OkIsAccepted
    <3>3. CASE i \in 1..Len(inbox)
      BY <3>2, <3>3, <2>1, <1>14 DEF OkIsAccepted
    <3>4. CASE i = Len(inbox) + 1
      BY <3>1, <3>2, <3>4, <1>7
    <3>5. Len(inbox) \in Nat /\ i \in 1..(Len(inbox) + 1)
      BY <3>2
    <3>6. i \in 1..Len(inbox) \/ i = Len(inbox) + 1
      BY <3>5
    <3> QED BY <3>3, <3>4, <3>6
  <2> QED BY <2>2, <2>3, <1>4
<1>16. SentIsSomeAccepted'
  <2>1. DOMAIN rows["sale"] \subseteq 1..MaxRows
    BY LimitInRange DEF TypeOK, Kinds
  <2> QED BY <2>1, <1>2, <1>14 DEF SentIsSomeAccepted
<1> QED BY <1>8, <1>10, <1>11, <1>12, <1>13, <1>15, <1>16

\* A crash forgets requests and responses, never a row.
LEMMA CrashIInv == ASSUME IInv, Crash PROVE IInv'
<1> USE DEF IInv
<1>1. TypeOK'
  BY BoundsAssumption DEF Crash, TypeOK
<1>2. QueueUntried' /\ QueueOnce' /\ TaskTries' /\ OkIsAccepted'
  BY DEF Crash, QueueUntried, QueueOnce, TaskTries, OkIsAccepted
<1>3. AcceptedIsStored' /\ AcceptedAtMostTwice' /\ SentIsSomeAccepted'
  BY DEF Crash, AcceptedIsStored, AcceptedAtMostTwice, SentIsSomeAccepted, Stored
<1> QED BY <1>1, <1>2, <1>3

\* Every step of the core thread, the worker and the process keeps IInv.
THEOREM InductiveInvariant == Spec => []IInv
<1>1. Init => IInv
  BY InitIInv
<1>2. IInv /\ [Next]_vars => IInv'
  <2> SUFFICES ASSUME IInv, [Next]_vars PROVE IInv' OBVIOUS
  <2>1. CASE handleBosSales BY <2>1, ReportIInv DEF handleBosSales, Kinds
  <2>2. CASE handleBosReceipt BY <2>2, ReportIInv DEF handleBosReceipt, Kinds
  <2>3. CASE handleHttpResponse BY <2>3, ResponseIInv
  <2>4. CASE workerThread BY <2>4, WorkerIInv
  <2>5. CASE Perform BY <2>5, PerformIInv
  <2>6. CASE Crash BY <2>6, CrashIInv
  <2>7. CASE UNCHANGED vars
    BY <2>7 DEF IInv, vars, TypeOK, QueueUntried, QueueOnce, TaskTries, AcceptedIsStored,
                AcceptedAtMostTwice, OkIsAccepted, SentIsSomeAccepted, Stored
  <2> QED BY <2>1, <2>2, <2>3, <2>4, <2>5, <2>6, <2>7 DEF Next
<1> QED BY <1>1, <1>2, PTL DEF Spec

\* BosSync is type correct.
THEOREM TypeCorrect == Spec => []TypeOK
<1>1. IInv => TypeOK BY DEF IInv
<1> QED BY <1>1, InductiveInvariant, PTL

\* 1C accepts a record at most twice: the two attempts of authenticate() are
\* never added to by the queue, by later reports or by a restart.
THEOREM AtMostTwice == Spec => []AcceptedAtMostTwice
<1>1. IInv => AcceptedAtMostTwice BY DEF IInv
<1> QED BY <1>1, InductiveInvariant, PTL

\* handleHttpResponse marks a transaction only when 1C accepted a record
\* with its row id.
THEOREM SentIsSomething == Spec => []SentIsSomeAccepted
<1>1. IInv => SentIsSomeAccepted BY DEF IInv
<1> QED BY <1>1, InductiveInvariant, PTL

-----------------------------------------------------------------------------
(* The order of the records.                                               *)

\* The requests of a table wait in the order of their ids, and 1C has no
\* record from the first waiting one on.
QueueInOrder ==
    \A i \in 1..Len(m_queue) :
        /\ \A j \in 1..Len(m_queue) :
               i < j /\ m_queue[i].kind = m_queue[j].kind => m_queue[i].id < m_queue[j].id
        /\ \A s \in Requests :
               s.kind = m_queue[i].kind /\ s.id >= m_queue[i].id => accepted[s] = 0

\* The request being performed is before all waiting ones of its table, and 1C
\* has no later record of the table.
TaskInOrder ==
    \A r \in Requests : task = <<r>> =>
        /\ \A i \in 1..Len(m_queue) : m_queue[i].kind = r.kind => r.id < m_queue[i].id
        /\ \A s \in Requests : s.kind = r.kind /\ s.id > r.id => accepted[s] = 0

OrderInv == QueueInOrder /\ TaskInOrder

\* A stored request comes before a new one of its table.
LEMMA ReportInOrder == ASSUME NEW k \in Kinds, IInv, OrderInv, Report(k) PROVE OrderInv'
<1> DEFINE r == Request(k)
<1>1. Len(rows[k]) \in Nat /\ Len(rows[k]) + 1 <= Limit(k) /\ TypeOK
  BY LimitInRange DEF TypeOK, Report, IInv
<1>2. r \in Requests /\ r.kind = k /\ r.id = Len(rows[k]) + 1
  BY <1>1, LimitInRange DEF Request, Requests
<1>3. m_queue' = Append(m_queue, r) /\ UNCHANGED <<task, accepted>> BY DEF Report
<1> HIDE DEF r
<1>4. /\ m_queue \in Seq(Requests) /\ Len(m_queue) \in Nat /\ Len(m_queue') = Len(m_queue) + 1
      /\ \A i \in 1..Len(m_queue) : m_queue'[i] = m_queue[i] /\ m_queue[i] \in Requests
      /\ m_queue'[Len(m_queue) + 1] = r
  BY <1>1, <1>2, <1>3 DEF TypeOK
<1>5. \A s \in Requests : s.id \in Nat /\ s.kind \in Kinds /\ accepted[s] \in Nat
  <2>1. MaxRows \in Nat BY LimitInRange
  <2>2. \A s \in Requests : s.id \in Nat /\ s.kind \in Kinds BY <2>1 DEF Requests
  <2>3. \A s \in Requests : accepted[s] \in Nat BY <1>1 DEF TypeOK
  <2> QED BY <2>2, <2>3
<1>6. \A s \in Requests : s.kind = k /\ Stored(s) => s.id < r.id BY <1>1, <1>2, <1>5 DEF Stored
<1>7. \A s \in Requests : s.kind = k /\ s.id >= r.id => accepted[s] = 0
  BY <1>1, <1>2, <1>5, <1>6 DEF IInv, AcceptedIsStored
<1>8. QueueInOrder'
  <2> SUFFICES ASSUME NEW i \in 1..Len(m_queue')
               PROVE  /\ \A j \in 1..Len(m_queue') :
                           i < j /\ m_queue'[i].kind = m_queue'[j].kind
                             => m_queue'[i].id < m_queue'[j].id
                      /\ \A s \in Requests :
                           s.kind = m_queue'[i].kind /\ s.id >= m_queue'[i].id => accepted'[s] = 0
    BY DEF QueueInOrder
  <2>1. CASE i = Len(m_queue) + 1 BY <1>2, <1>3, <1>4, <1>7, <2>1
  <2>2. CASE i \in 1..Len(m_queue)
    <3>1. m_queue'[i] = m_queue[i] /\ Stored(m_queue[i]) /\ m_queue[i] \in Requests
      BY <1>4, <2>2 DEF IInv, QueueUntried
    <3>2. ASSUME NEW j \in 1..Len(m_queue'), i < j, m_queue'[i].kind = m_queue'[j].kind
          PROVE  m_queue'[i].id < m_queue'[j].id
      <4>1. CASE j = Len(m_queue) + 1 BY <1>2, <1>4, <1>6, <3>1, <3>2, <4>1
      <4>2. CASE j \in 1..Len(m_queue)
        BY <1>4, <2>2, <3>2, <4>2 DEF OrderInv, QueueInOrder
      <4> QED BY <1>4, <4>1, <4>2
    <3>3. \A s \in Requests :
            s.kind = m_queue'[i].kind /\ s.id >= m_queue'[i].id => accepted'[s] = 0
      BY <1>3, <2>2, <3>1 DEF OrderInv, QueueInOrder
    <3> QED BY <3>2, <3>3
  <2> QED BY <1>4, <2>1, <2>2
<1>9. TaskInOrder'
  <2> SUFFICES ASSUME NEW q \in Requests, task = <<q>>
               PROVE  /\ \A i \in 1..Len(m_queue') : m_queue'[i].kind = q.kind => q.id < m_queue'[i].id
                      /\ \A s \in Requests : s.kind = q.kind /\ s.id > q.id => accepted[s] = 0
    BY <1>3 DEF TaskInOrder
  <2>1. Stored(q) BY DEF IInv, TaskTries
  <2>2. q.kind = k => q.id < r.id BY <1>6, <2>1
  <2>3. \A i \in 1..Len(m_queue') : m_queue'[i].kind = q.kind => q.id < m_queue'[i].id
    BY SMTT(30), <1>2, <1>4, <2>2 DEF OrderInv, TaskInOrder
  <2> QED BY <2>3 DEF OrderInv, TaskInOrder
<1> QED BY <1>8, <1>9 DEF OrderInv

\* The head of the queue is the first of its table.
LEMMA WorkerInOrder == ASSUME IInv, OrderInv, workerThread PROVE OrderInv'
<1> DEFINE q == Head(m_queue)
<1>1. /\ m_queue \in Seq(Requests) /\ m_queue # <<>> /\ m_queue' = Tail(m_queue)
      /\ task' = <<q>> /\ accepted' = accepted
  BY DEF workerThread, IInv, TypeOK
<1>2. /\ Len(m_queue) \in Nat /\ 1 \in 1..Len(m_queue) /\ q = m_queue[1]
      /\ Len(m_queue') = Len(m_queue) - 1
      /\ \A i \in 1..Len(m_queue') : i + 1 \in 2..Len(m_queue) /\ m_queue'[i] = m_queue[i + 1]
      /\ \A i \in 1..Len(m_queue) : m_queue[i] \in Requests
  BY <1>1
<1>3. QueueInOrder'
  <2> SUFFICES ASSUME NEW i \in 1..Len(m_queue')
               PROVE  /\ \A j \in 1..Len(m_queue') :
                           i < j /\ m_queue'[i].kind = m_queue'[j].kind
                             => m_queue'[i].id < m_queue'[j].id
                      /\ \A s \in Requests :
                           s.kind = m_queue'[i].kind /\ s.id >= m_queue'[i].id => accepted'[s] = 0
    BY DEF QueueInOrder
  <2>1. i + 1 \in 1..Len(m_queue) /\ m_queue'[i] = m_queue[i + 1] BY <1>2
  <2>2. \A j \in 1..Len(m_queue') : j + 1 \in 1..Len(m_queue) /\ m_queue'[j] = m_queue[j + 1]
                                    /\ (i < j => i + 1 < j + 1)
    BY <1>2
  <2> QED BY <1>1, <2>1, <2>2 DEF OrderInv, QueueInOrder
<1>4. TaskInOrder'
  <2> SUFFICES ASSUME NEW r \in Requests, task' = <<r>>
               PROVE  /\ \A i \in 1..Len(m_queue') : m_queue'[i].kind = r.kind => r.id < m_queue'[i].id
                      /\ \A s \in Requests : s.kind = r.kind /\ s.id > r.id => accepted'[s] = 0
    BY DEF TaskInOrder
  <2>1. r = m_queue[1] BY <1>1, <1>2
  <2>2. \A i \in 1..Len(m_queue') : m_queue'[i].kind = r.kind => r.id < m_queue'[i].id
    <3>1. \A i \in 1..Len(m_queue') : i + 1 \in 1..Len(m_queue) /\ 1 < i + 1 BY <1>2
    <3> QED BY <1>2, <2>1, <3>1 DEF OrderInv, QueueInOrder
  <2>3. \A s \in Requests : s.id \in Nat BY LimitInRange DEF Requests
  <2>4. \A s \in Requests : s.kind = r.kind /\ s.id > r.id => accepted'[s] = 0
    BY <1>1, <1>2, <2>1, <2>3 DEF OrderInv, QueueInOrder
  <2> QED BY <2>2, <2>4
<1> QED BY <1>3, <1>4 DEF OrderInv

\* Only the request being performed is accepted.
LEMMA PerformAccepts ==
  ASSUME IInv, Perform
  PROVE  \E r \in Requests :
           /\ task = <<r>> /\ m_queue' = m_queue
           /\ task' = task \/ task' = <<>>
           /\ \A s \in Requests : s # r => accepted'[s] = accepted[s]
<1>1. PICK r \in Requests : task = <<r>>
  BY DEF IInv, TypeOK, Perform, AcceptedAndAnswered, Refused, NotDelivered, AnswerLost
<1>2. task[1] = r BY <1>1
<1>3. m_queue' = m_queue /\ (task' = task \/ task' = <<>>)
  BY DEF Perform, AcceptedAndAnswered, Refused, NotDelivered, AnswerLost, Failed, Respond
<1>4. accepted' = accepted \/ accepted' = [accepted EXCEPT ![r] = @ + 1]
  BY <1>2 DEF Perform, AcceptedAndAnswered, Refused, NotDelivered, AnswerLost, Accept
<1>5. \A s \in Requests : s # r => accepted'[s] = accepted[s] BY <1>4 DEF IInv, TypeOK
<1> QED BY <1>1, <1>3, <1>5

LEMMA PerformInOrder == ASSUME IInv, OrderInv, Perform PROVE OrderInv'
<1>1. PICK r \in Requests :
        /\ task = <<r>> /\ m_queue' = m_queue
        /\ task' = task \/ task' = <<>>
        /\ \A s \in Requests : s # r => accepted'[s] = accepted[s]
  BY PerformAccepts
<1>2. /\ \A i \in 1..Len(m_queue) : m_queue[i].kind = r.kind => r.id < m_queue[i].id
      /\ \A s \in Requests : s.kind = r.kind /\ s.id > r.id => accepted[s] = 0
  BY <1>1 DEF OrderInv, TaskInOrder
<1>3. \A s \in Requests : s.id \in Nat BY LimitInRange DEF Requests
<1>4. \A i \in 1..Len(m_queue) : m_queue[i] \in Requests BY DEF IInv, TypeOK
<1>5. QueueInOrder'
  <2> SUFFICES ASSUME NEW i \in 1..Len(m_queue), NEW s \in Requests,
                      s.kind = m_queue[i].kind, s.id >= m_queue[i].id
               PROVE  accepted'[s] = 0
    BY <1>1 DEF OrderInv, QueueInOrder
  <2>1. accepted[s] = 0 BY DEF OrderInv, QueueInOrder
  <2>2. s # r BY <1>2, <1>3, <1>4
  <2> QED BY <1>1, <2>1, <2>2
<1>6. TaskInOrder'
  <2> SUFFICES ASSUME NEW q \in Requests, task' = <<q>>
               PROVE  /\ \A i \in 1..Len(m_queue) : m_queue[i].kind = q.kind => q.id < m_queue[i].id
                      /\ \A s \in Requests : s.kind = q.kind /\ s.id > q.id => accepted'[s] = 0
    BY <1>1 DEF TaskInOrder
  <2>1. q = r BY <1>1
  <2>2. \A s \in Requests : s.id > r.id => s # r BY <1>3
  <2> QED BY <1>1, <1>2, <2>1, <2>2
<1> QED BY <1>5, <1>6 DEF OrderInv

\* 1C accepts the records of a table in the order of their ids, for any number
\* of records, lost answers, repetitions and crashes of the process.
THEOREM InOrder == Spec => AcceptedInOrder
<1>1. Init => OrderInv
  BY DEF Init, OrderInv, QueueInOrder, TaskInOrder
<1>2. ASSUME IInv, OrderInv, [Next]_vars PROVE OrderInv'
  <2>1. CASE handleBosSales \/ handleBosReceipt
    BY <1>2, <2>1, ReportInOrder DEF handleBosSales, handleBosReceipt, Kinds
  <2>2. CASE handleHttpResponse
    BY <1>2, <2>2 DEF handleHttpResponse, OrderInv, QueueInOrder, TaskInOrder
  <2>3. CASE workerThread BY <1>2, <2>3, WorkerInOrder
  <2>4. CASE Perform BY <1>2, <2>4, PerformInOrder
  <2>5. CASE Crash BY <2>5 DEF Crash, OrderInv, QueueInOrder, TaskInOrder
  <2>6. CASE UNCHANGED vars BY <1>2, <2>6 DEF vars, OrderInv, QueueInOrder, TaskInOrder
  <2> QED BY <1>2, <2>1, <2>2, <2>3, <2>4, <2>5, <2>6 DEF Next
<1>3. ASSUME IInv, OrderInv, [Next]_vars
      PROVE  [\A r \in Requests :
                accepted[r] = 0 /\ accepted'[r] > 0
                  => \A s \in Requests : s.kind = r.kind /\ s.id > r.id => accepted[s] = 0]_vars
  <2> SUFFICES ASSUME NEW r \in Requests, accepted[r] = 0, accepted'[r] > 0
               PROVE  \A s \in Requests : s.kind = r.kind /\ s.id > r.id => accepted[s] = 0
    OBVIOUS
  <2>1. accepted' # accepted OBVIOUS
  <2>2. Perform
    BY <1>3, <2>1 DEF Next, vars, handleBosSales, handleBosReceipt, Report, handleHttpResponse,
                      workerThread, Crash
  <2>3. task = <<r>> BY <1>3, <2>2, PerformAccepts
  <2> QED BY <1>3, <2>3 DEF OrderInv, TaskInOrder
<1>4. Spec => []IInv BY InductiveInvariant
<1> QED BY <1>1, <1>2, <1>3, <1>4, PTL DEF Spec, AcceptedInOrder
=============================================================================
