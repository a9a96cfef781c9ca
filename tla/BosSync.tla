------------------------------ MODULE BosSync ------------------------------
(***************************************************************************)
(* Reporting of sales and fuel receptions to the back office (BOS, "1C").  *)
(*                                                                         *)
(* BosLogic stores a record in SQLite, gives the row id to the HTTP        *)
(* request as its resource_id, and marks the row as sent when a 2xx        *)
(* response brings the id back.  Between the two are the FIFO queue and    *)
(* the one worker thread of the BOS HttpTransport, which repeats a request *)
(* once when the connection fails, and the queue of the core thread.  The  *)
(* process may crash at any moment: the rows survive, the queues do not.   *)
(*                                                                         *)
(* handleBosMetrological is left out: nothing sends its message.           *)
(***************************************************************************)
EXTENDS Naturals, Sequences

CONSTANTS
    MaxSales,        \* bound: sales reported
    MaxReceptions,   \* bound: fuel receptions reported
    MaxCrashes       \* bound: crashes of the process

ASSUME BoundsAssumption ==
    /\ MaxSales \in Nat
    /\ MaxReceptions \in Nat
    /\ MaxCrashes \in Nat

Kinds == {"sale", "reception"}

Limit(k) == IF k = "sale" THEN MaxSales ELSE MaxReceptions

MaxRows == IF MaxSales > MaxReceptions THEN MaxSales ELSE MaxReceptions

VARIABLES
    rows,      \* the sent_to_server flags: rows[k][id], ids count up from 1
    m_queue,   \* requests waiting for the worker, oldest first
    task,      \* <<>>, or <<the request the worker is sending>>
    attempt,   \* 1: first try of task, 2: the repetition in authenticate
    inbox,     \* responses in the core's queue, oldest first
    accepted,  \* history: how often 1C accepted the record of a request
    crashes    \* history: crashes so far

vars == <<rows, m_queue, task, attempt, inbox, accepted, crashes>>

\* A request names its row; kind is the URL it is posted to.
Requests == [kind : Kinds, id : 1..MaxRows]

\* A response carries the resource_id back and says whether it is a 2xx.
Responses == [id : 1..MaxRows, ok : BOOLEAN]

Init ==
    /\ rows = [k \in Kinds |-> <<>>]
    /\ m_queue = <<>>
    /\ task = <<>>
    /\ attempt = 1
    /\ inbox = <<>>
    /\ accepted = [r \in Requests |-> 0]
    /\ crashes = 0

-----------------------------------------------------------------------------
(***************************************************************************)
(* The core thread: BosLogic and the repositories.                         *)
(***************************************************************************)

\* insert(): a new row, not sent yet; its id is the next of its own table.
insert(k) == rows' = [rows EXCEPT ![k] = Append(@, FALSE)]

\* A bug: the id is taken after the counter moved once more.
Request_NextId(k) == [kind |-> k, id |-> Len(rows[k]) + 2]

Request(k) == [kind |-> k, id |-> Len(rows[k]) + 1]

\* The row is stored and its request handed to the worker.
Report(k) ==
    /\ Len(rows[k]) < Limit(k)
    /\ insert(k)
    /\ m_queue' = Append(m_queue, Request(k))
    /\ UNCHANGED <<task, attempt, inbox, accepted, crashes>>

handleBosSales == Report("sale")

handleBosReceipt == Report("reception")

\* markAsSent() of the transactions, the only table it is called on: no row
\* changes when the table has no such id.
markAsSent(id) ==
    IF id \in DOMAIN rows["sale"]
    THEN rows' = [rows EXCEPT !["sale"][id] = TRUE]
    ELSE UNCHANGED rows

\* A bug: every response counts as an acceptance.
handleHttpResponse_AnyStatus ==
    /\ inbox # <<>>
    /\ inbox' = Tail(inbox)
    /\ markAsSent(Head(inbox).id)
    /\ UNCHANGED <<m_queue, task, attempt, accepted, crashes>>

\* The response of a request: a 2xx marks its row, any other is logged only.
handleHttpResponse ==
    /\ inbox # <<>>
    /\ inbox' = Tail(inbox)
    /\ IF Head(inbox).ok THEN markAsSent(Head(inbox).id) ELSE UNCHANGED rows
    /\ UNCHANGED <<m_queue, task, attempt, accepted, crashes>>

-----------------------------------------------------------------------------
(***************************************************************************)
(* The worker thread of the BOS HttpTransport.                             *)
(***************************************************************************)

\* A bug: the request stays at the head of the queue.
workerThread_KeepsTask ==
    /\ task = <<>>
    /\ m_queue # <<>>
    /\ task' = <<Head(m_queue)>>
    /\ attempt' = 1
    /\ UNCHANGED <<rows, m_queue, inbox, accepted, crashes>>

\* A bug: the newest request is taken first.
workerThread_Newest ==
    /\ task = <<>>
    /\ m_queue # <<>>
    /\ task' = <<m_queue[Len(m_queue)]>>
    /\ attempt' = 1
    /\ m_queue' = SubSeq(m_queue, 1, Len(m_queue) - 1)
    /\ UNCHANGED <<rows, inbox, accepted, crashes>>

\* A bug: the worker sleeps until a second request is waiting.
workerThread_LeavesLast ==
    /\ task = <<>>
    /\ Len(m_queue) > 1
    /\ task' = <<Head(m_queue)>>
    /\ attempt' = 1
    /\ m_queue' = Tail(m_queue)
    /\ UNCHANGED <<rows, inbox, accepted, crashes>>

\* The oldest request is taken out of the queue to be performed.
workerThread ==
    /\ task = <<>>
    /\ m_queue # <<>>
    /\ task' = <<Head(m_queue)>>
    /\ attempt' = 1
    /\ m_queue' = Tail(m_queue)
    /\ UNCHANGED <<rows, inbox, accepted, crashes>>

\* performRequest() hands the status and the id of its task to the core.
Respond(ok) ==
    /\ inbox' = Append(inbox, [id |-> task[1].id, ok |-> ok])
    /\ task' = <<>>
    /\ UNCHANGED attempt

\* 1C stores the record (external).
Accept == accepted' = [accepted EXCEPT ![task[1]] = @ + 1]

\* 1C accepts the record and its 2xx arrives.
AcceptedAndAnswered ==
    /\ task # <<>>
    /\ Accept
    /\ Respond(TRUE)
    /\ UNCHANGED <<rows, m_queue, crashes>>

\* 1C refuses the record with an error status.
Refused ==
    /\ task # <<>>
    /\ Respond(FALSE)
    /\ UNCHANGED <<rows, m_queue, accepted, crashes>>

\* The connection throws: the first exception resets the session and repeats
\* the request, the second one becomes a response with status POCO_ERROR.
Failed ==
    IF attempt = 1
    THEN attempt' = 2 /\ UNCHANGED <<task, inbox>>
    ELSE Respond(FALSE)

\* The connection fails before 1C has the whole request.
NotDelivered ==
    /\ task # <<>>
    /\ Failed
    /\ UNCHANGED <<rows, m_queue, accepted, crashes>>

\* The connection fails after 1C accepted the record.
AnswerLost ==
    /\ task # <<>>
    /\ Accept
    /\ Failed
    /\ UNCHANGED <<rows, m_queue, crashes>>

-----------------------------------------------------------------------------
\* The process ends and is started again: nothing is read back from the
\* tables (getUnsent() has no caller).
Crash ==
    /\ crashes < MaxCrashes
    /\ crashes' = crashes + 1
    /\ m_queue' = <<>>
    /\ task' = <<>>
    /\ attempt' = 1
    /\ inbox' = <<>>
    /\ UNCHANGED <<rows, accepted>>

Perform == AcceptedAndAnswered \/ Refused \/ NotDelivered \/ AnswerLost

Next ==
    \/ handleBosSales
    \/ handleBosReceipt
    \/ handleHttpResponse
    \/ workerThread
    \/ Perform
    \/ Crash

\* The worker and the core thread run whenever they have something to do; a
\* connection that keeps failing still ends in a response.
Fairness == WF_vars(workerThread) /\ WF_vars(Perform) /\ WF_vars(handleHttpResponse)

Spec == Init /\ [][Next]_vars /\ Fairness

-----------------------------------------------------------------------------
TypeOK ==
    /\ rows \in [Kinds -> Seq(BOOLEAN)]
    /\ \A k \in Kinds : Len(rows[k]) <= Limit(k)
    /\ m_queue \in Seq(Requests)
    /\ task = <<>> \/ \E r \in Requests : task = <<r>>
    /\ attempt \in {1, 2}
    /\ inbox \in Seq(Responses)
    /\ accepted \in [Requests -> Nat]
    /\ crashes \in 0..MaxCrashes

\* The two attempts of authenticate() are all the deliveries there are: 1C
\* holds a record at most twice, whatever is lost, repeated or restarted.
AcceptedAtMostTwice == \A r \in Requests : accepted[r] <= 2

\* A transaction marked as sent (BosLogic.hpp:31: "пометить в БД, как
\* отправленный") is one that 1C accepted.
SentIsAccepted ==
    \A id \in DOMAIN rows["sale"] :
        rows["sale"][id] => accepted[[kind |-> "sale", id |-> id]] > 0

\* What remains of SentIsAccepted when receptions are reported too: the mark
\* shows that 1C accepted the sale or the reception with the same row id.
SentIsSomeAccepted ==
    \A id \in DOMAIN rows["sale"] :
        rows["sale"][id] => \E k \in Kinds : accepted[[kind |-> k, id |-> id]] > 0

\* 1C sees the records of a table in the order of their ids: when it accepts
\* a record for the first time, it has accepted no later one of its table.
AcceptedInOrder ==
    [][\A r \in Requests :
          accepted[r] = 0 /\ accepted'[r] > 0
              => \A s \in Requests :
                     s.kind = r.kind /\ s.id > r.id => accepted[s] = 0]_vars

\* The repetition ends: every request is answered, and the worker goes on to
\* the next, however often the connection fails.
Pending(r) == task = <<r>> \/ \E i \in DOMAIN m_queue : m_queue[i] = r
EveryRequestEnds == \A r \in Requests : Pending(r) ~> ~Pending(r)

=============================================================================
