----------------------------- MODULE PrimeChannel -----------------------------
(***************************************************************************)
(* The channel to the forecourt controller: HttpTransport sends one        *)
(* request at a time, repeats it once over a new connection when the first *)
(* try ends in an exception, lets DigestAuthenticator repeat it when the   *)
(* answer is 401, and hands exactly one answer to the core.  Above it,     *)
(* PrimeLogic asks for every task that a command started until the task is *)
(* done: each unfinished answer asks twice, at once and after 200 ms.      *)
(*                                                                         *)
(* The controller (external) knows one valid session and one valid nonce;  *)
(* both expire from time to time.  It is Strict if it refuses an expired   *)
(* session cookie even next to valid digest credentials.                   *)
(***************************************************************************)
EXTENDS Naturals, Sequences, FiniteSets

CONSTANTS
  Commands,       \* commands sent to the controller; each names its task
  NoJob,          \* the worker holds no request
  Strict,         \* the controller refuses expired cookies whatever comes along
  MaxExpiries,    \* bound: times session and nonce expire
  MaxFaults,      \* bound: connections lost in a behaviour
  MaxRefusals,    \* bound: requests the controller forbids (403)
  MaxUnfinished   \* bound: answers that say a task is not done

ASSUME ChannelConstants ==
  /\ Strict \in BOOLEAN
  /\ {MaxExpiries, MaxFaults, MaxRefusals, MaxUnfinished} \subseteq Nat
  /\ \A c \in Commands : <<"command", c>> # NoJob /\ <<"task", c>> # NoJob

VARIABLES
  unsent,     \* commands PrimeLogic has still to send
  queue,      \* m_queue
  job,        \* the request performRequest() works on
  try,        \* which try it is on: first, second (new connection), digest
  cookie,     \* m_session_cookie, 0 when empty
  nonce,      \* the challenge m_credentials knows, 0 when none
  sent,       \* cookie and nonce in the headers of the request
  answers,    \* the core queue
  timers,     \* task_timer of processTask(): how many wait for each task
  valid,      \* controller: the number of its valid session and nonce
  done,       \* controller: tasks that are done
  executed,   \* history: how often each command was executed
  started,    \* history: commands whose task number was handled
  ended,      \* history: tasks for which an answer said done
  again,      \* history: answers about each task that said it was not
  failed,     \* history: questions about each task that ended in an error
  refused,    \* history: requests answered with 401 in the end
  faults, refusals, unfinished

workerVars == <<job, try, cookie, nonce, sent>>
tasks      == <<started, ended, again, failed>>
coreVars   == <<answers, timers, tasks>>
srvVars    == <<valid, done, executed>>
bounds     == <<faults, refusals, unfinished>>
vars == <<unsent, queue, workerVars, coreVars, srvVars, refused, bounds>>

Job == {"command", "task"} \X Commands
Result == {"ok", "finished", "unfinished", "401", "403", "error"}
Number == 0..MaxExpiries + 1

TypeOK ==
  /\ unsent \subseteq Commands
  /\ queue \in Seq(Job)
  /\ job \in Job \cup {NoJob}
  /\ try \in {"first", "second", "digest"}
  /\ cookie \in Number /\ nonce \in Number /\ valid \in Number \ {0}
  /\ sent \in [cookie : Number, nonce : Number]
  /\ answers \in Seq([job : Job, result : Result])
  /\ timers \in [Commands -> Nat]
  /\ done \subseteq Commands
  /\ executed \in [Commands -> Nat]
  /\ started \subseteq Commands /\ ended \subseteq Commands
  /\ again \in [Commands -> Nat] /\ failed \in [Commands -> Nat]
  /\ refused \in Nat
  /\ faults \in 0..MaxFaults /\ refusals \in 0..MaxRefusals
  /\ unfinished \in 0..MaxUnfinished

Init ==
  /\ unsent = Commands
  /\ queue = <<>>
  /\ job = NoJob /\ try = "first"
  /\ cookie = 0 /\ nonce = 0 /\ valid = 1
  /\ sent = [cookie |-> 0, nonce |-> 0]
  /\ answers = <<>>
  /\ timers = [c \in Commands |-> 0]
  /\ done = {}
  /\ executed = [c \in Commands |-> 0]
  /\ started = {} /\ ended = {}
  /\ again = [c \in Commands |-> 0] /\ failed = [c \in Commands |-> 0]
  /\ refused = 0
  /\ faults = 0 /\ refusals = 0 /\ unfinished = 0

-----------------------------------------------------------------------------
(* HttpTransport and DigestAuthenticator, on the worker thread.            *)

\* PrimeCommands::handleCommand(), createOrder(): a command is queued.
SendCommand(c) ==
  /\ c \in unsent
  /\ unsent' = unsent \ {c}
  /\ queue' = Append(queue, <<"command", c>>)
  /\ UNCHANGED <<workerVars, coreVars, srvVars, refused, bounds>>

\* workerThread() takes a request; prepareRequest() puts the cookie and the
\* digest of the last challenge, if there are any, into its headers.
TakeRequest ==
  /\ job = NoJob /\ queue # <<>>
  /\ job' = Head(queue)
  /\ queue' = Tail(queue)
  /\ try' = "first"
  /\ sent' = [cookie |-> cookie, nonce |-> nonce]
  /\ UNCHANGED <<unsent, cookie, nonce, coreVars, srvVars, refused, bounds>>

\* What the controller makes of the headers.
Accepts ==
  \/ sent.cookie = valid
  \/ sent.nonce = valid /\ (Strict => sent.cookie = 0)

\* The controller carries out the request in hand, which it has accepted.
Execute ==
  executed' = IF job[1] = "command" THEN [executed EXCEPT ![job[2]] = @ + 1] ELSE executed

\* performRequest() hands the answer r to the core and is done with the request.
Deliver(r) ==
  /\ answers' = Append(answers, [job |-> job, result |-> r])
  /\ job' = NoJob

\* Mutant: every exception is followed by another try.
Gives_Never == FALSE

\* The exception is not caught inside authenticate(): POCO_ERROR is the answer.
GivesUp == try # "first"

\* The connection is lost, before the request reached the controller or after:
\* the same request goes out over a new one.
ConnectionLost ==
  /\ job # NoJob
  /\ faults < MaxFaults
  /\ faults' = faults + 1
  /\ \/ Accepts /\ Execute
     \/ UNCHANGED executed
  /\ \/ /\ GivesUp
        /\ Deliver("error")
        /\ UNCHANGED try
     \/ /\ ~GivesUp
        /\ try' = "second"
        /\ UNCHANGED <<job, answers>>
  /\ UNCHANGED <<unsent, queue, cookie, nonce, sent, timers, tasks, valid, done,
                 refused, refusals, unfinished>>

\* The controller accepts the request and its answer arrives; a session that the
\* digest opened comes with it (setCookie()).
Accepted ==
  /\ job # NoJob
  /\ Accepts
  /\ cookie' = valid
  /\ Execute
  /\ LET t == job[2]
     IN  \/ /\ job[1] = "command"
            /\ Deliver("ok")
            /\ UNCHANGED unfinished
         \/ /\ job[1] = "task" /\ t \in done
            /\ Deliver("finished")
            /\ UNCHANGED unfinished
         \/ /\ job[1] = "task" /\ t \notin done
            /\ unfinished < MaxUnfinished
            /\ unfinished' = unfinished + 1
            /\ Deliver("unfinished")
  /\ UNCHANGED <<unsent, queue, try, nonce, sent, timers, tasks, valid, done,
                 refused, faults, refusals>>

\* 401 to the first or second try: handleUnauthorized() takes up the challenge
\* and repeats the request, with the cookie it has.
Challenged ==
  /\ job # NoJob
  /\ ~Accepts
  /\ try # "digest"
  /\ try' = "digest"
  /\ nonce' = valid
  /\ sent' = [cookie |-> cookie, nonce |-> valid]
  /\ UNCHANGED <<unsent, queue, job, cookie, coreVars, srvVars, refused, bounds>>

\* Mutant: a refused request leaves the session as it is.
Reset_Forgotten == cookie

\* DigestAuthenticator::reset(): the session is forgotten, the challenge is not.
Reset == 0

\* 401 again: performRequest() resets the authenticator.
Unauthorized ==
  /\ job # NoJob
  /\ ~Accepts
  /\ try = "digest"
  /\ cookie' = Reset
  /\ refused' = refused + 1
  /\ Deliver("401")
  /\ UNCHANGED <<unsent, queue, try, nonce, sent, timers, tasks, srvVars, bounds>>

\* 403: also reset, and not repeated.
Forbidden ==
  /\ job # NoJob
  /\ refusals < MaxRefusals
  /\ refusals' = refusals + 1
  /\ cookie' = Reset
  /\ Deliver("403")
  /\ UNCHANGED <<unsent, queue, try, nonce, sent, timers, tasks, srvVars, refused,
                 faults, unfinished>>

-----------------------------------------------------------------------------
(* PrimeLogic, on the core thread and in the timers of the io thread.      *)

\* Mutant: the parser has no route for GET_TASKS.
Ask_Lost(t) == UNCHANGED queue

\* sendTaskToHttp().
Ask(t) == queue' = Append(queue, <<"task", t>>)

Answered(k, rs) ==
  /\ answers # <<>>
  /\ Head(answers).job[1] = k
  /\ Head(answers).result \in rs
  /\ answers' = Tail(answers)
  /\ UNCHANGED <<unsent, workerVars, srvVars, refused, bounds>>

\* processTaskId().
processTaskId ==
  /\ Answered("command", {"ok"})
  /\ LET t == Head(answers).job[2]
     IN  Ask(t) /\ started' = started \cup {t}
  /\ UNCHANGED <<timers, ended, again, failed>>

\* processTask() of a task that is not done: ask now, and in 200 ms.
TaskUnfinished ==
  /\ Answered("task", {"unfinished"})
  /\ LET t == Head(answers).job[2]
     IN  /\ Ask(t) /\ timers' = [timers EXCEPT ![t] = @ + 1]
         /\ again' = [again EXCEPT ![t] = @ + 1]
  /\ UNCHANGED <<started, ended, failed>>

\* Mutant: a task that is done is asked for like any other.
AskEnded_Again(t) == Ask(t)

AskEnded(t) == UNCHANGED queue

\* processTask() of a finished task: nobody asks again.
TaskEnded ==
  /\ Answered("task", {"finished"})
  /\ LET t == Head(answers).job[2]
     IN  AskEnded(t) /\ ended' = ended \cup {t}
  /\ UNCHANGED <<timers, started, again, failed>>

\* processHandleHttpError() of any other answer to a question about a task: it
\* is not repeated.
QuestionFailed ==
  /\ Answered("task", {"401", "403", "error"})
  /\ LET t == Head(answers).job[2] IN failed' = [failed EXCEPT ![t] = @ + 1]
  /\ UNCHANGED <<queue, timers, started, ended, again>>

CommandFailed ==
  /\ Answered("command", {"401", "403", "error"})
  /\ UNCHANGED <<queue, timers, tasks>>

TimerExpires(t) ==
  /\ timers[t] > 0
  /\ timers' = [timers EXCEPT ![t] = @ - 1]
  /\ Ask(t)
  /\ UNCHANGED <<unsent, workerVars, answers, tasks, srvVars, refused, bounds>>

-----------------------------------------------------------------------------
(* The controller (external).                                              *)

Expire ==
  /\ valid <= MaxExpiries
  /\ valid' = valid + 1
  /\ UNCHANGED <<unsent, queue, workerVars, coreVars, done, executed, refused, bounds>>

FinishTask(t) ==
  /\ executed[t] > 0 /\ t \notin done
  /\ done' = done \cup {t}
  /\ UNCHANGED <<unsent, queue, workerVars, coreVars, valid, executed, refused, bounds>>

-----------------------------------------------------------------------------
Worker ==
  TakeRequest \/ ConnectionLost \/ Accepted \/ Challenged \/ Unauthorized \/ Forbidden

Core == processTaskId \/ TaskUnfinished \/ TaskEnded \/ QuestionFailed \/ CommandFailed

Next ==
  \/ \E c \in Commands : SendCommand(c) \/ TimerExpires(c) \/ FinishTask(c)
  \/ Worker
  \/ Core
  \/ Expire

Spec == Init /\ [][Next]_vars

\* The threads and timers run; the controller answers and finishes its tasks.
Fairness ==
  /\ WF_vars(Worker) /\ WF_vars(Core)
  /\ \A c \in Commands : WF_vars(TimerExpires(c)) /\ WF_vars(FinishTask(c))

FairSpec == Spec /\ Fairness

-----------------------------------------------------------------------------
(* Properties.                                                             *)

\* Three tries carry a command, yet the controller executes it at most twice:
\* the digest try only follows an answer that refused it.
ExecutedAtMostTwice == \A c \in Commands : executed[c] <= 2

\* An expired session costs at most one request: handleUnauthorized() repeats
\* it with the expired cookie, which a strict controller refuses again, but
\* then reset() forgets the cookie and the next request gets through.
RefusedOncePerExpiry == refused <= valid - 1

\* Questions about task t under way: queued, with the worker, answered or timed.
CountOf(s, S) == Cardinality({i \in 1..Len(s) : s[i] \in S})
Questions(t) ==
  timers[t] + CountOf(queue, {<<"task", t>>})
    + (IF job = <<"task", t>> THEN 1 ELSE 0)
    + CountOf(answers, [job : {<<"task", t>>}, result : Result])

\* A task of which nobody has heard the end is being asked for, unless more
\* questions about it failed than were answered: processTask() asks twice for
\* every answer that says "not done", so that one lost question is made up for,
\* except where it is the first.
TaskWatched == \A t \in started \ ended : Questions(t) + failed[t] > again[t]

\* Although every unfinished answer leads to two questions, they all stop when
\* the controller is done with the task.
QuestionsEnd == \A t \in Commands : t \in started ~> [](Questions(t) = 0)

-----------------------------------------------------------------------------
(* An expectation that the code does not meet.                             *)

\* A command whose end nobody has heard is being asked for.  When the only
\* question about it fails, nobody asks again.
NeverForgotten == \A t \in started \ ended : Questions(t) > 0
=============================================================================
