-------------------------- MODULE PrimeChannelProofs --------------------------
(***************************************************************************)
(* Proofs about PrimeChannel, for any commands and any number of expiries, *)
(* lost connections and refusals: about the session, about where a command *)
(* is, and about who still asks for a task.                                *)
(***************************************************************************)
EXTENDS PrimeChannel, FiniteSetTheorems, TLAPS

-----------------------------------------------------------------------------
(* An expired session costs at most one request.                           *)

\* Something about the session has expired: the cookie, the cookie of the
\* request in hand, or the digest it is repeated with.
Stale ==
  \/ cookie \notin {0, valid}
  \/ job # NoJob /\ sent.cookie \notin {0, valid}
  \/ job # NoJob /\ try = "digest" /\ sent.nonce # valid

\* The request that the latest expiry may still cost is not yet counted.
SessionInv ==
  /\ valid \in Nat \ {0} /\ refused \in Nat
  /\ RefusedOncePerExpiry
  /\ Stale => refused < valid - 1

\* There is nothing to expire at the start.
LEMMA InitSession == Init => SessionInv
  BY DEF Init, SessionInv, RefusedOncePerExpiry, Stale

\* Each step keeps the account of refused requests.
LEMMA StepSession == SessionInv /\ [Next]_vars => SessionInv'
<1> SUFFICES ASSUME SessionInv, [Next]_vars PROVE SessionInv' OBVIOUS
<1> USE DEF SessionInv, RefusedOncePerExpiry, Stale
<1>1. CASE TakeRequest
  BY <1>1 DEF TakeRequest, srvVars
<1>2. CASE ConnectionLost
  BY <1>2 DEF ConnectionLost, Deliver
<1>3. CASE Accepted
  BY <1>3 DEF Accepted, Deliver
<1>4. CASE Challenged
  BY <1>4 DEF Challenged, srvVars
<1>5. CASE Unauthorized
  <2>1. Stale /\ cookie' = 0 /\ job' = NoJob /\ refused' = refused + 1 /\ valid' = valid
    BY <1>5 DEF Unauthorized, Accepts, Reset, Deliver, srvVars
  <2> QED BY <2>1
<1>6. CASE Forbidden
  BY <1>6 DEF Forbidden, Reset, Deliver, srvVars
<1>7. CASE Expire
  BY <1>7 DEF Expire
<1>8. CASE Core \/ UNCHANGED vars \/ \E c \in Commands : SendCommand(c) \/ TimerExpires(c)
                                                          \/ FinishTask(c)
  <2>1. UNCHANGED <<valid, refused, workerVars>>
    BY <1>8 DEF Core, processTaskId, TaskUnfinished, TaskEnded, QuestionFailed, CommandFailed,
                Answered, SendCommand, TimerExpires, FinishTask, vars, srvVars
  <2> QED BY <2>1 DEF workerVars
<1> QED BY <1>1, <1>2, <1>3, <1>4, <1>5, <1>6, <1>7, <1>8 DEF Next, Worker

\* However often the session expires, and whether the controller is strict or
\* not, reset() in performRequest() keeps the loss to one request each time.
THEOREM OneRefusalPerExpiry == Spec => []RefusedOncePerExpiry
<1>1. SessionInv => RefusedOncePerExpiry BY DEF SessionInv
<1> QED BY <1>1, InitSession, StepSession, PTL DEF Spec

-----------------------------------------------------------------------------
(* A command is executed at most twice.                                    *)

CommandOf(c) == <<"command", c>>

\* What the argument needs of the types.
PlacesOK ==
  /\ queue \in Seq(Job) /\ job \in Job \cup {NoJob}
  /\ try \in {"first", "second", "digest"}
  /\ answers \in Seq([job : Job, result : Result])
  /\ executed \in [Commands -> Nat]
  /\ unsent \subseteq Commands

\* A command that waits has not reached the controller, and waits once.
QueueUntried ==
  \A c \in Commands, i \in 1..Len(queue) :
    queue[i] = CommandOf(c) => c \notin unsent /\ executed[c] = 0
QueueOnce ==
  \A c \in Commands, i, j \in 1..Len(queue) :
    queue[i] = CommandOf(c) /\ queue[j] = CommandOf(c) => i = j
UnsentUntried == \A c \in unsent : executed[c] = 0

\* The command in hand waits no more.  Its first try has not been executed; the
\* second and the digest try follow at most one that was, for the digest try
\* follows a refusal.
JobTries ==
  \A c \in Commands : job = CommandOf(c) =>
    /\ c \notin unsent
    /\ executed[c] <= (IF try = "first" THEN 0 ELSE 1)
    /\ \A i \in 1..Len(queue) : queue[i] # CommandOf(c)

\* The inductive invariant.
TriesInv ==
  /\ PlacesOK
  /\ QueueUntried
  /\ QueueOnce
  /\ UnsentUntried
  /\ JobTries
  /\ ExecutedAtMostTwice

\* A job is a command or a question.
LEMMA Jobs ==
  /\ \A c \in Commands : CommandOf(c) \in Job /\ <<"task", c>> \in Job
                         /\ CommandOf(c) # <<"task", c>> /\ CommandOf(c) # NoJob
  /\ \A c, d \in Commands : /\ CommandOf(c) = CommandOf(d) => c = d
                            /\ CommandOf(c) # <<"task", d>>
  /\ \A j \in Job : /\ j[2] \in Commands
                    /\ j[1] = "command" => j = CommandOf(j[2])
                    /\ j[1] # "command" => \A c \in Commands : j # CommandOf(c)
  BY ChannelConstants DEF Job, CommandOf

\* At the start every command is still to be sent.
LEMMA InitTries == Init => TriesInv
<1> SUFFICES ASSUME Init PROVE TriesInv OBVIOUS
<1>1. PlacesOK
  BY DEF Init, PlacesOK
<1>2. QueueUntried /\ QueueOnce /\ UnsentUntried /\ ExecutedAtMostTwice
  BY DEF Init, QueueUntried, QueueOnce, UnsentUntried, ExecutedAtMostTwice
<1>3. JobTries
  BY Jobs DEF Init, JobTries
<1> QED BY <1>1, <1>2, <1>3 DEF TriesInv

\* A question put into the queue moves no command.
LEMMA AskTries ==
  ASSUME TriesInv, NEW t \in Commands, Ask(t), UNCHANGED <<unsent, job, try, executed>>,
         answers' \in Seq([job : Job, result : Result])
  PROVE  TriesInv'
<1> USE DEF TriesInv
<1>1. /\ queue \in Seq(Job) /\ queue' = Append(queue, <<"task", t>>)
      /\ queue' \in Seq(Job) /\ Len(queue') = Len(queue) + 1 /\ Len(queue) \in Nat
      /\ \A i \in 1..Len(queue) : queue'[i] = queue[i]
      /\ queue'[Len(queue) + 1] = <<"task", t>>
  BY Jobs DEF Ask, PlacesOK
<1>2. \A c \in Commands, i \in 1..Len(queue') :
        queue'[i] = CommandOf(c) => i \in 1..Len(queue) /\ queue[i] = CommandOf(c)
  BY <1>1, Jobs
<1>3. PlacesOK' BY <1>1 DEF PlacesOK
<1>4. QueueUntried' /\ QueueOnce' BY <1>2 DEF QueueUntried, QueueOnce
<1>5. JobTries' BY <1>2 DEF JobTries
<1>6. UnsentUntried' /\ ExecutedAtMostTwice' BY DEF UnsentUntried, ExecutedAtMostTwice
<1> QED BY <1>3, <1>4, <1>5, <1>6

\* Each step keeps the places of the commands.
LEMMA StepTries == TriesInv /\ [Next]_vars => TriesInv'
<1> SUFFICES ASSUME TriesInv, [Next]_vars PROVE TriesInv' OBVIOUS
<1> USE DEF TriesInv
<1>0. Len(queue) \in Nat /\ \A c \in Commands : executed[c] \in Nat
  BY DEF PlacesOK
<1>1. ASSUME NEW c \in Commands, SendCommand(c) PROVE TriesInv'
  <2>1. /\ queue' = Append(queue, CommandOf(c)) /\ c \in unsent /\ unsent' = unsent \ {c}
        /\ UNCHANGED <<job, try, answers, executed>>
    BY <1>1 DEF SendCommand, CommandOf, workerVars, coreVars, srvVars
  <2>2. /\ queue' \in Seq(Job) /\ Len(queue') = Len(queue) + 1
        /\ \A i \in 1..Len(queue) : queue'[i] = queue[i]
        /\ queue'[Len(queue) + 1] = CommandOf(c)
    <3>1. queue \in Seq(Job) /\ CommandOf(c) \in Job BY Jobs DEF PlacesOK
    <3> QED BY <2>1, <3>1
  <2>3. \A i \in 1..Len(queue) : queue[i] # CommandOf(c)
    BY <2>1 DEF QueueUntried
  <2>4. \A d \in Commands, i \in 1..Len(queue') : queue'[i] = CommandOf(d) =>
          \/ i \in 1..Len(queue) /\ queue[i] = CommandOf(d) /\ d # c
          \/ i = Len(queue) + 1 /\ d = c
    BY <1>0, <2>2, <2>3, Jobs
  <2>5. PlacesOK' BY <2>1, <2>2 DEF PlacesOK
  <2>6. QueueUntried' BY <2>1, <2>4 DEF QueueUntried, UnsentUntried
  <2>7. QueueOnce' BY <2>4 DEF QueueOnce
  <2>8. JobTries' BY <2>1, <2>4 DEF JobTries
  <2>9. UnsentUntried' /\ ExecutedAtMostTwice'
    BY <2>1 DEF UnsentUntried, ExecutedAtMostTwice
  <2> QED BY <2>5, <2>6, <2>7, <2>8, <2>9
<1>2. CASE TakeRequest
  <2>1. /\ job' = Head(queue) /\ queue' = Tail(queue) /\ try' = "first" /\ queue # <<>>
        /\ UNCHANGED <<unsent, answers, executed>>
    BY <1>2 DEF TakeRequest, coreVars, srvVars
  <2>2. /\ queue' \in Seq(Job) /\ Len(queue') = Len(queue) - 1 /\ Len(queue) > 0
        /\ \A i \in 1..Len(queue') : queue'[i] = queue[i + 1] /\ i + 1 \in 1..Len(queue)
        /\ job' = queue[1] /\ job' \in Job
    BY <1>0, <2>1 DEF PlacesOK
  <2>3. PlacesOK' BY <2>1, <2>2 DEF PlacesOK
  <2>4. QueueUntried' BY <2>1, <2>2 DEF QueueUntried
  <2>5. QueueOnce'
    <3> SUFFICES ASSUME NEW c \in Commands, NEW i \in 1..Len(queue'), NEW j \in 1..Len(queue'),
                        queue'[i] = CommandOf(c), queue'[j] = CommandOf(c)
                 PROVE  i = j
      BY DEF QueueOnce
    <3>1. i + 1 = j + 1 BY <2>2 DEF QueueOnce
    <3> QED BY <3>1, <1>0, <2>2
  <2>6. JobTries'
    <3> SUFFICES ASSUME NEW c \in Commands, job' = CommandOf(c)
                 PROVE  /\ c \notin unsent' /\ executed'[c] <= 0
                        /\ \A i \in 1..Len(queue') : queue'[i] # CommandOf(c)
      BY <2>1 DEF JobTries
    <3>1. queue[1] = CommandOf(c) /\ 1 \in 1..Len(queue) BY <1>0, <2>2
    <3>2. c \notin unsent /\ executed[c] = 0 BY <3>1 DEF QueueUntried
    <3>3. ASSUME NEW i \in 1..Len(queue'), queue'[i] = CommandOf(c) PROVE FALSE
      <4>1. i + 1 \in 1..Len(queue) /\ queue[i + 1] = CommandOf(c) BY <2>2, <3>3
      <4>2. i + 1 = 1 BY <3>1, <4>1 DEF QueueOnce
      <4> QED BY <4>2
    <3> QED BY <2>1, <3>2, <3>3
  <2>7. UnsentUntried' /\ ExecutedAtMostTwice'
    BY <2>1 DEF UnsentUntried, ExecutedAtMostTwice
  <2> QED BY <2>3, <2>4, <2>5, <2>6, <2>7
<1>3. ASSUME job # NoJob, Execute \/ UNCHANGED executed, UNCHANGED <<unsent, queue>>,
             answers' \in Seq([job : Job, result : Result]),
             \/ job' = NoJob /\ try' = try
             \/ job' = job /\ try = "first" /\ try' = "second"
      PROVE  TriesInv'
  <2>1. job \in Job /\ job[2] \in Commands BY <1>3, Jobs DEF PlacesOK
  <2>2. CASE UNCHANGED executed
    <3>1. PlacesOK' BY <1>3, <2>2 DEF PlacesOK
    <3>2. CASE job' = NoJob
      <4>1. JobTries' BY <3>2, Jobs DEF JobTries
      <4> QED BY <1>3, <2>2, <3>1, <4>1
              DEF QueueUntried, QueueOnce, UnsentUntried, ExecutedAtMostTwice
    <3>3. CASE job' = job /\ try = "first" /\ try' = "second"
      <4>1. JobTries'
        <5> SUFFICES ASSUME NEW c \in Commands, job' = CommandOf(c)
                     PROVE  /\ c \notin unsent' /\ executed'[c] <= 1
                            /\ \A i \in 1..Len(queue') : queue'[i] # CommandOf(c)
          BY <3>3 DEF JobTries
        <5>1. /\ c \notin unsent /\ executed[c] <= 0
              /\ \A i \in 1..Len(queue) : queue[i] # CommandOf(c)
          BY <3>3 DEF JobTries
        <5>2. executed[c] <= 1 BY <1>0, <5>1
        <5> QED BY <1>3, <2>2, <5>1, <5>2
      <4> QED BY <1>3, <2>2, <3>1, <4>1
              DEF QueueUntried, QueueOnce, UnsentUntried, ExecutedAtMostTwice
    <3> QED BY <1>3, <3>2, <3>3
  <2>3. CASE job[1] = "command" /\ executed' = [executed EXCEPT ![job[2]] = @ + 1]
    <3> DEFINE c == job[2]
    <3>1. job = CommandOf(c) /\ c \in Commands BY <2>1, <2>3, Jobs
    <3> HIDE DEF c
    <3>2. /\ c \notin unsent /\ executed[c] <= (IF try = "first" THEN 0 ELSE 1)
          /\ \A i \in 1..Len(queue) : queue[i] # CommandOf(c)
      BY <3>1 DEF JobTries
    <3>3. /\ executed' \in [Commands -> Nat] /\ executed'[c] = executed[c] + 1
          /\ \A d \in Commands : d # c => executed'[d] = executed[d]
      BY <2>3, <3>1 DEF c, PlacesOK
    <3>4. PlacesOK' BY <1>3, <3>3 DEF PlacesOK
    <3>5. QueueUntried' /\ QueueOnce' BY <1>3, <3>2, <3>3 DEF QueueUntried, QueueOnce
    <3>6. UnsentUntried' BY <1>3, <3>2, <3>3 DEF UnsentUntried, PlacesOK
    <3>7. ExecutedAtMostTwice' BY <1>0, <3>1, <3>2, <3>3 DEF ExecutedAtMostTwice
    <3>8. JobTries'
      <4>1. CASE job' = NoJob BY <4>1, Jobs DEF JobTries
      <4>2. CASE job' = job /\ try = "first" /\ try' = "second"
        <5>1. executed'[c] <= 1 BY <1>0, <3>1, <3>2, <3>3, <4>2
        <5>2. \A d \in Commands : job' = CommandOf(d) => d = c BY <3>1, <4>2, Jobs
        <5> QED BY <1>3, <3>2, <4>2, <5>1, <5>2 DEF JobTries
      <4> QED BY <1>3, <4>1, <4>2
    <3> QED BY <3>4, <3>5, <3>6, <3>7, <3>8
  <2> QED BY <1>3, <2>2, <2>3 DEF Execute
<1>4. ASSUME NEW r \in Result, Deliver(r), job # NoJob
      PROVE  answers' \in Seq([job : Job, result : Result]) /\ job' = NoJob
  BY <1>4 DEF Deliver, PlacesOK
<1>5. CASE ConnectionLost
  <2>1. Execute \/ UNCHANGED executed BY <1>5 DEF ConnectionLost
  <2>2. UNCHANGED <<unsent, queue>> /\ job # NoJob BY <1>5 DEF ConnectionLost
  <2>3. CASE GivesUp
    BY <1>3, <1>4, <1>5, <2>1, <2>2, <2>3 DEF ConnectionLost, Result
  <2>4. CASE ~GivesUp
    BY <1>3, <1>5, <2>1, <2>2, <2>4 DEF ConnectionLost, GivesUp, PlacesOK
  <2> QED BY <2>3, <2>4
<1>6. CASE Accepted
  BY <1>3, <1>4, <1>6 DEF Accepted, Result
<1>7. CASE Challenged
  <2>1. try' = "digest" /\ UNCHANGED <<unsent, queue, job, answers, executed>>
    BY <1>7 DEF Challenged, coreVars, srvVars
  <2>2. JobTries' BY <1>0, <2>1 DEF JobTries
  <2> QED BY <2>1, <2>2
          DEF PlacesOK, QueueUntried, QueueOnce, UnsentUntried, ExecutedAtMostTwice
<1>8. CASE Unauthorized \/ Forbidden
  BY <1>3, <1>4, <1>8 DEF Unauthorized, Forbidden, srvVars, Result
<1>9. CASE Core
  <2>1. /\ answers # <<>> /\ answers' = Tail(answers)
        /\ UNCHANGED <<unsent, job, try, executed>>
    BY <1>9 DEF Core, processTaskId, TaskUnfinished, TaskEnded, QuestionFailed, CommandFailed,
                Answered, workerVars, srvVars
  <2>2. /\ answers' \in Seq([job : Job, result : Result])
        /\ Head(answers).job \in Job
    <3> DEFINE Answer == [job : Job, result : Result]
    <3>1. answers \in Seq(Answer) BY DEF PlacesOK
    <3>2. \A a \in Answer : a.job \in Job OBVIOUS
    <3> HIDE DEF Answer
    <3>3. Tail(answers) \in Seq(Answer) /\ Head(answers) \in Answer BY <2>1, <3>1
    <3> QED BY <2>1, <3>2, <3>3 DEF Answer
  <2>3. Head(answers).job[2] \in Commands BY <2>2, Jobs
  <2>4. CASE processTaskId \/ TaskUnfinished
    BY <2>1, <2>2, <2>3, <2>4, AskTries DEF processTaskId, TaskUnfinished
  <2>5. CASE TaskEnded \/ QuestionFailed \/ CommandFailed
    <3>1. UNCHANGED queue BY <2>5 DEF TaskEnded, AskEnded, QuestionFailed, CommandFailed
    <3> QED BY <2>1, <2>2, <3>1
            DEF PlacesOK, QueueUntried, QueueOnce, UnsentUntried, JobTries,
                ExecutedAtMostTwice
  <2> QED BY <1>9, <2>4, <2>5 DEF Core
<1>10. ASSUME NEW c \in Commands, TimerExpires(c) PROVE TriesInv'
  BY <1>10, AskTries DEF TimerExpires, workerVars, srvVars, PlacesOK
<1>11. CASE Expire \/ UNCHANGED vars \/ \E c \in Commands : FinishTask(c)
  <2>1. UNCHANGED <<unsent, queue, job, try, answers, executed>>
    BY <1>11 DEF Expire, FinishTask, vars, workerVars, coreVars, srvVars
  <2> QED BY <2>1
          DEF PlacesOK, QueueUntried, QueueOnce, UnsentUntried, JobTries, ExecutedAtMostTwice
<1> QED BY <1>1, <1>2, <1>5, <1>6, <1>7, <1>8, <1>9, <1>10, <1>11 DEF Next, Worker

\* A command is carried out by the controller at most twice, for any number of
\* lost connections and expiries: authenticate() repeats a request once, and
\* handleUnauthorized() only one that was refused.
THEOREM TwoExecutions == Spec => []ExecutedAtMostTwice
<1>1. TriesInv => ExecutedAtMostTwice BY DEF TriesInv
<1> QED BY <1>1, InitTries, StepTries, PTL DEF Spec
-----------------------------------------------------------------------------
(* Who still asks for a task.                                              *)

\* Counting in a sequence: what Append adds and what Tail takes away.
LEMMA CountType ==
  ASSUME NEW E, NEW s \in Seq(E), NEW S
  PROVE  IsFiniteSet({i \in 1..Len(s) : s[i] \in S}) /\ CountOf(s, S) \in Nat
<1>1. IsFiniteSet(1..Len(s)) BY FS_Interval
<1>2. IsFiniteSet({i \in 1..Len(s) : s[i] \in S}) BY <1>1, FS_Subset
<1> QED BY <1>2, FS_CardinalityType DEF CountOf

LEMMA CountAppend ==
  ASSUME NEW E, NEW s \in Seq(E), NEW x \in E, NEW S
  PROVE  CountOf(Append(s, x), S) = CountOf(s, S) + (IF x \in S THEN 1 ELSE 0)
<1> DEFINE P == {i \in 1..Len(s) : s[i] \in S}
           Q == {i \in 1..Len(Append(s, x)) : Append(s, x)[i] \in S}
           n == Len(s) + 1
<1>1. IsFiniteSet(P) BY CountType
<1>2. /\ Len(s) \in Nat /\ Len(Append(s, x)) = n /\ Append(s, x)[n] = x
      /\ \A i \in 1..Len(s) : Append(s, x)[i] = s[i]
  OBVIOUS
<1>3. n \notin P BY <1>2
<1>4. CASE x \in S
  <2>1. Q = P \cup {n} BY <1>2, <1>4
  <2>2. Cardinality(Q) = Cardinality(P) + 1 BY <1>1, <1>3, <2>1, FS_AddElement
  <2> QED BY <1>4, <2>2 DEF CountOf
<1>5. CASE x \notin S
  <2>1. Q = P BY <1>2, <1>5
  <2>2. CountOf(Append(s, x), S) = Cardinality(Q) /\ CountOf(s, S) = Cardinality(P)
    BY DEF CountOf
  <2>3. CountOf(s, S) \in Nat BY CountType
  <2> HIDE DEF P, Q
  <2> QED BY <1>5, <2>1, <2>2, <2>3
<1> QED BY <1>4, <1>5

LEMMA CountTail ==
  ASSUME NEW E, NEW s \in Seq(E), s # <<>>, NEW S
  PROVE  CountOf(s, S) = CountOf(Tail(s), S) + (IF Head(s) \in S THEN 1 ELSE 0)
<1> DEFINE P == {i \in 1..Len(Tail(s)) : Tail(s)[i] \in S}
           R == {i \in 2..Len(s) : s[i] \in S}
           Q == {i \in 1..Len(s) : s[i] \in S}
           f == [i \in P |-> i + 1]
<1>1. /\ Len(s) \in Nat \ {0} /\ Len(Tail(s)) = Len(s) - 1 /\ Head(s) = s[1]
      /\ Tail(s) \in Seq(E)
      /\ \A i \in 1..Len(Tail(s)) : Tail(s)[i] = s[i + 1]
  OBVIOUS
<1>2. IsFiniteSet(P) BY <1>1, CountType
<1>3. f \in [P -> R] BY <1>1
<1>4. \A i, j \in P : f[i] = f[j] => i = j BY <1>1
<1>5. \A j \in R : \E i \in P : f[i] = j
  <2> SUFFICES ASSUME NEW j \in R PROVE j - 1 \in P /\ f[j - 1] = j OBVIOUS
  <2>1. j - 1 \in 1..Len(Tail(s)) /\ (j - 1) + 1 = j BY <1>1
  <2>2. Tail(s)[j - 1] = s[j] BY <1>1, <2>1
  <2> QED BY <2>1, <2>2
<1>6. f \in Bijection(P, R)
  <2> HIDE DEF f, P, R
  <2> QED BY <1>3, <1>4, <1>5 DEF Bijection, Injection, Surjection, IsInjective
<1>7. IsFiniteSet(R) /\ Cardinality(R) = Cardinality(P)
  <2> HIDE DEF f, P, R
  <2> QED BY <1>2, <1>6, FS_Bijection DEF ExistsBijection
<1>8. Cardinality(P) \in Nat BY <1>2, FS_CardinalityType
<1>9. CASE Head(s) \in S
  <2>1. Q = R \cup {1} /\ 1 \notin R BY <1>1, <1>9
  <2>2. Cardinality(Q) = Cardinality(R) + 1 BY <1>7, <2>1, FS_AddElement
  <2> QED BY <1>7, <1>9, <2>2 DEF CountOf
<1>10. CASE Head(s) \notin S
  <2>1. Q = R BY <1>1, <1>10
  <2>2. CountOf(Tail(s), S) = Cardinality(P) /\ CountOf(s, S) = Cardinality(Q)
    BY DEF CountOf
  <2> HIDE DEF P, Q, R
  <2> QED BY <1>7, <1>8, <1>10, <2>1, <2>2
<1> QED BY <1>9, <1>10

Question(t) == <<"task", t>>
Reply == [job : Job, result : Result]
RepliesTo(t) == [job : {Question(t)}, result : Result]

\* The four places of the questions about t.
Queued(t) == CountOf(queue, {Question(t)})
InHand(t) == IF job = Question(t) THEN 1 ELSE 0
Replied(t) == CountOf(answers, RepliesTo(t))

\* The inductive invariant, on top of TriesInv: every question that is no longer
\* under way has failed, or was answered and has been made up for; of a task that
\* was started there is one more.
Balanced(t) ==
  timers[t] + Queued(t) + InHand(t) + Replied(t) + failed[t]
    >= again[t] + (IF t \in started THEN 1 ELSE 0)

WatchInv ==
  /\ timers \in [Commands -> Nat] /\ started \subseteq Commands
  /\ again \in [Commands -> Nat] /\ failed \in [Commands -> Nat]
  /\ \A t \in Commands \ ended : Balanced(t)

\* The counts are numbers.
LEMMA Counts ==
  ASSUME queue \in Seq(Job), answers \in Seq(Reply), NEW t
  PROVE  Queued(t) \in Nat /\ InHand(t) \in Nat /\ Replied(t) \in Nat
  BY CountType DEF Queued, InHand, Replied

\* Each step keeps the balance.
LEMMA StepWatch == TriesInv /\ WatchInv /\ [Next]_vars => WatchInv'
<1> SUFFICES ASSUME TriesInv, WatchInv, [Next]_vars PROVE WatchInv' OBVIOUS
<1>1. /\ queue \in Seq(Job) /\ answers \in Seq(Reply) /\ job \in Job \cup {NoJob}
      /\ timers \in [Commands -> Nat] /\ started \subseteq Commands
      /\ again \in [Commands -> Nat] /\ failed \in [Commands -> Nat]
  BY DEF TriesInv, PlacesOK, WatchInv, Reply
<1>2. \A t \in Commands \ ended : Balanced(t) BY DEF WatchInv
<1>3. ASSUME NEW t \in Commands
      PROVE  /\ Question(t) \in Job /\ Question(t) # NoJob
             /\ \A u \in Commands : Question(u) = Question(t) => u = t
             /\ \A j \in Job : j[1] = "task" => j = Question(j[2])
             /\ \A j \in Job : j[1] = "command" => j # Question(t)
             /\ \A r \in Reply : r \in RepliesTo(t) <=> r.job = Question(t)
  BY ChannelConstants DEF Job, Question, RepliesTo, Reply
<1>4. \A t : Queued(t) \in Nat /\ InHand(t) \in Nat /\ Replied(t) \in Nat
  BY <1>1, Counts
<1>5. ASSUME NEW t \in Commands, Ask(t)
      PROVE  \A u \in Commands : Queued(u)' = Queued(u) + (IF u = t THEN 1 ELSE 0)
  <2>1. queue' = Append(queue, Question(t)) BY <1>5 DEF Ask, Question
  <2>2. ASSUME NEW u \in Commands
        PROVE  Queued(u)' = Queued(u) + (IF Question(t) \in {Question(u)} THEN 1 ELSE 0)
    BY <1>1, <1>3, <2>1, CountAppend DEF Queued
  <2> QED BY <1>3, <2>2
<1>6. ASSUME NEW c \in Commands, SendCommand(c) PROVE WatchInv'
  <2>1. queue' = Append(queue, CommandOf(c)) /\ UNCHANGED <<job, answers, timers, tasks>>
    BY <1>6 DEF SendCommand, CommandOf, workerVars, coreVars
  <2>2. ASSUME NEW t \in Commands PROVE Queued(t)' = Queued(t)
    <3>1. CommandOf(c) \notin {Question(t)} /\ CommandOf(c) \in Job BY Jobs DEF Question
    <3>2. Queued(t)' = Queued(t) + (IF CommandOf(c) \in {Question(t)} THEN 1 ELSE 0)
      BY <1>1, <2>1, <3>1, CountAppend DEF Queued
    <3> QED BY <1>4, <3>1, <3>2
  <2>3. ASSUME NEW t \in Commands PROVE InHand(t)' = InHand(t) /\ Replied(t)' = Replied(t)
    BY <2>1 DEF InHand, Replied
  <2>4. ASSUME NEW t \in Commands, Balanced(t) PROVE Balanced(t)'
    BY <2>1, <2>2, <2>3, <2>4 DEF Balanced, tasks
  <2> QED BY <1>1, <1>2, <2>1, <2>4 DEF WatchInv, tasks
<1>7. CASE TakeRequest
  <2>1. /\ queue # <<>> /\ job' = Head(queue) /\ queue' = Tail(queue) /\ job = NoJob
        /\ UNCHANGED <<answers, timers, tasks>>
    BY <1>7 DEF TakeRequest, coreVars
  <2>2. ASSUME NEW t \in Commands
        PROVE  /\ Queued(t)' + InHand(t)' = Queued(t) + InHand(t)
               /\ Queued(t)' \in Nat /\ InHand(t)' \in Nat
    <3>1. Queued(t) = Queued(t)' + (IF Head(queue) \in {Question(t)} THEN 1 ELSE 0)
      BY <1>1, <2>1, CountTail DEF Queued
    <3>2. InHand(t) = 0 /\ InHand(t)' = IF Head(queue) \in {Question(t)} THEN 1 ELSE 0
      BY <1>3, <2>1 DEF InHand
    <3>3. Queued(t)' \in Nat
      <4>1. queue' \in Seq(Job) BY <1>1, <2>1
      <4> QED BY <4>1, CountType DEF Queued
    <3> QED BY <3>1, <3>2, <3>3
  <2>3. ASSUME NEW t \in Commands PROVE Replied(t)' = Replied(t) BY <2>1 DEF Replied
  <2>4. ASSUME NEW t \in Commands, Balanced(t) PROVE Balanced(t)'
    <3>1. timers[t] \in Nat /\ failed[t] \in Nat /\ again[t] \in Nat BY <1>1
    <3>2. /\ timers'[t] = timers[t] /\ failed'[t] = failed[t] /\ again'[t] = again[t]
          /\ started' = started
      BY <2>1 DEF tasks
    <3>3. Queued(t)' + InHand(t)' = Queued(t) + InHand(t) /\ Replied(t)' = Replied(t)
      BY <2>2, <2>3
    <3>4. Queued(t)' \in Nat /\ InHand(t)' \in Nat BY <2>2
    <3>5. Queued(t) \in Nat /\ InHand(t) \in Nat /\ Replied(t) \in Nat BY <1>4
    <3> QED BY <2>4, <3>1, <3>2, <3>3, <3>4, <3>5 DEF Balanced
  <2> QED BY <1>1, <1>2, <2>1, <2>4 DEF WatchInv, tasks
<1>8. ASSUME NEW r \in Result, Deliver(r), job # NoJob, UNCHANGED <<queue, timers, tasks>>
      PROVE  WatchInv'
  <2>1. PICK a : a = [job |-> job, result |-> r] OBVIOUS
  <2>2. a \in Reply /\ a.job = job BY <1>1, <1>8, <2>1 DEF Reply
  <2>3. answers' = Append(answers, a) /\ job' = NoJob BY <1>8, <2>1 DEF Deliver
  <2>4. ASSUME NEW t \in Commands
        PROVE  InHand(t)' = 0 /\ Replied(t)' = Replied(t) + InHand(t) /\ Queued(t)' = Queued(t)
    <3>1. Replied(t)' = Replied(t) + (IF a \in RepliesTo(t) THEN 1 ELSE 0)
      BY <1>1, <2>2, <2>3, CountAppend DEF Replied
    <3>2. a \in RepliesTo(t) <=> job = Question(t) BY <1>3, <2>2
    <3>3. InHand(t)' = 0 BY <1>3, <2>3 DEF InHand
    <3> QED BY <1>8, <3>1, <3>2, <3>3 DEF InHand, Queued
  <2>5. ASSUME NEW t \in Commands, Balanced(t) PROVE Balanced(t)'
    <3>1. timers[t] \in Nat /\ failed[t] \in Nat /\ again[t] \in Nat BY <1>1
    <3> QED BY <1>4, <1>8, <2>4, <2>5, <3>1 DEF Balanced, tasks
  <2> QED BY <1>1, <1>2, <1>8, <2>5 DEF WatchInv, tasks
<1>9. ASSUME UNCHANGED <<queue, job, answers, timers, tasks>> PROVE WatchInv'
  <2>1. ASSUME NEW t \in Commands, Balanced(t) PROVE Balanced(t)'
    BY <1>9, <2>1 DEF Balanced, Queued, InHand, Replied, tasks
  <2> QED BY <1>1, <1>2, <1>9, <2>1 DEF WatchInv, tasks
<1>10. CASE ConnectionLost \/ Accepted \/ Unauthorized \/ Forbidden
  <2>1. job # NoJob /\ UNCHANGED <<queue, timers, tasks>>
    BY <1>10 DEF ConnectionLost, Accepted, Unauthorized, Forbidden
  <2>2. (\E r \in Result : Deliver(r)) \/ UNCHANGED <<job, answers>>
    BY <1>10 DEF ConnectionLost, Accepted, Unauthorized, Forbidden, Result
  <2> QED BY <1>8, <1>9, <2>1, <2>2
<1>11. CASE Challenged \/ Expire \/ UNCHANGED vars \/ \E c \in Commands : FinishTask(c)
  <2>1. UNCHANGED <<queue, job, answers, timers, tasks>>
    BY <1>11 DEF Challenged, Expire, FinishTask, vars, workerVars, coreVars
  <2> QED BY <1>9, <2>1
<1>12. ASSUME NEW c \in Commands, TimerExpires(c) PROVE WatchInv'
  <2>1. /\ timers[c] > 0 /\ timers' = [timers EXCEPT ![c] = @ - 1] /\ Ask(c)
        /\ UNCHANGED <<job, answers, tasks>>
    BY <1>12 DEF TimerExpires, workerVars
  <2>2. timers' \in [Commands -> Nat] BY <1>1, <2>1
  <2>3. ASSUME NEW t \in Commands PROVE InHand(t)' = InHand(t) /\ Replied(t)' = Replied(t)
    BY <2>1 DEF InHand, Replied
  <2>4. ASSUME NEW t \in Commands, Balanced(t) PROVE Balanced(t)'
    <3>1. timers[t] \in Nat /\ failed[t] \in Nat /\ again[t] \in Nat BY <1>1
    <3>2. Queued(t)' = Queued(t) + (IF t = c THEN 1 ELSE 0) BY <1>5, <2>1
    <3>3. timers'[t] = timers[t] - (IF t = c THEN 1 ELSE 0) BY <1>1, <2>1
    <3>4. failed'[t] = failed[t] /\ again'[t] = again[t] /\ started' = started
      BY <2>1 DEF tasks
    <3>5. Queued(t) \in Nat /\ InHand(t) \in Nat /\ Replied(t) \in Nat BY <1>4
    <3> QED BY <2>3, <2>4, <3>1, <3>2, <3>3, <3>4, <3>5 DEF Balanced
  <2> QED BY <1>1, <1>2, <2>1, <2>2, <2>4 DEF WatchInv, tasks
<1>13. CASE Core
  <2> DEFINE a == Head(answers)
             u == a.job[2]
  <2>1. answers # <<>> /\ answers' = Tail(answers) /\ UNCHANGED job
    BY <1>13 DEF Core, processTaskId, TaskUnfinished, TaskEnded, QuestionFailed, CommandFailed,
                 Answered, workerVars
  <2>2. a \in Reply /\ a.job \in Job /\ u \in Commands
    <3>1. a \in Reply BY <1>1, <2>1
    <3>2. a.job \in Job BY <3>1 DEF Reply
    <3> QED BY <3>1, <3>2, Jobs
  <2>3. ASSUME NEW t \in Commands
        PROVE  /\ Replied(t) = Replied(t)' + (IF a.job = Question(t) THEN 1 ELSE 0)
               /\ Replied(t)' \in Nat /\ InHand(t)' = InHand(t)
    <3>1. Replied(t) = Replied(t)' + (IF a \in RepliesTo(t) THEN 1 ELSE 0)
      BY <1>1, <2>1, CountTail DEF Replied
    <3>2. Replied(t)' \in Nat
      <4>1. answers' \in Seq(Reply) BY <1>1, <2>1
      <4> QED BY <4>1, CountType DEF Replied
    <3> QED BY <1>3, <2>1, <2>2, <3>1, <3>2 DEF InHand
  <2>4. ASSUME NEW t \in Commands
        PROVE  /\ a.job[1] = "command" => a.job # Question(t)
               /\ a.job[1] = "task" => (a.job = Question(t) <=> t = u)
    BY <1>3, <2>2
  <2> HIDE DEF a, u
  <2>5. \A t \in Commands : timers[t] \in Nat /\ failed[t] \in Nat /\ again[t] \in Nat BY <1>1
  <2>6. CASE processTaskId
    <3>1. /\ a.job[1] = "command" /\ Ask(u) /\ started' = started \cup {u}
          /\ UNCHANGED <<timers, ended, again, failed>>
      BY <2>6 DEF processTaskId, Answered, a, u
    <3>2. ASSUME NEW t \in Commands, Balanced(t) PROVE Balanced(t)'
      <4>1. Replied(t)' = Replied(t) /\ InHand(t)' = InHand(t) BY <1>4, <2>3, <2>4, <3>1
      <4>2. Queued(t)' = Queued(t) + (IF t = u THEN 1 ELSE 0) BY <1>5, <2>2, <3>1
      <4>3. t \in started' => t \in started \/ t = u BY <3>1
      <4> QED BY <1>4, <2>5, <3>1, <3>2, <4>1, <4>2, <4>3 DEF Balanced
    <3>3. started' \subseteq Commands BY <1>1, <2>2, <3>1
    <3> QED BY <1>1, <1>2, <3>1, <3>2, <3>3 DEF WatchInv
  <2>7. CASE TaskUnfinished
    <3>1. /\ a.job[1] = "task" /\ Ask(u) /\ timers' = [timers EXCEPT ![u] = @ + 1]
          /\ again' = [again EXCEPT ![u] = @ + 1] /\ UNCHANGED <<started, ended, failed>>
      BY <2>7 DEF TaskUnfinished, Answered, a, u
    <3>2. timers' \in [Commands -> Nat] /\ again' \in [Commands -> Nat] BY <1>1, <2>2, <3>1
    <3>3. ASSUME NEW t \in Commands, Balanced(t) PROVE Balanced(t)'
      <4>1. /\ timers'[t] = timers[t] + (IF t = u THEN 1 ELSE 0)
            /\ again'[t] = again[t] + (IF t = u THEN 1 ELSE 0)
        BY <1>1, <2>2, <3>1
      <4>2. Queued(t)' = Queued(t) + (IF t = u THEN 1 ELSE 0) BY <1>5, <2>2, <3>1
      <4>3. /\ Replied(t) = Replied(t)' + (IF t = u THEN 1 ELSE 0)
            /\ Replied(t)' \in Nat /\ InHand(t)' = InHand(t)
        BY <2>3, <2>4, <3>1
      <4> QED BY <1>4, <2>5, <3>1, <3>3, <4>1, <4>2, <4>3 DEF Balanced
    <3> QED BY <1>1, <1>2, <3>1, <3>2, <3>3 DEF WatchInv
  <2>8. CASE TaskEnded
    <3>1. a.job[1] = "task" /\ ended' = ended \cup {u} /\ UNCHANGED <<queue, timers, started, again, failed>>
      BY <2>8 DEF TaskEnded, Answered, AskEnded, a, u
    <3>2. ASSUME NEW t \in Commands, t # u, Balanced(t) PROVE Balanced(t)'
      <4>1. Replied(t)' = Replied(t) /\ InHand(t)' = InHand(t)
        BY <1>4, <2>3, <2>4, <3>1, <3>2
      <4>2. Queued(t)' = Queued(t) BY <3>1 DEF Queued
      <4> QED BY <3>1, <3>2, <4>1, <4>2 DEF Balanced
    <3> QED BY <1>1, <1>2, <3>1, <3>2 DEF WatchInv
  <2>9. CASE QuestionFailed
    <3>1. /\ a.job[1] = "task" /\ failed' = [failed EXCEPT ![u] = @ + 1]
          /\ UNCHANGED <<queue, timers, started, ended, again>>
      BY <2>9 DEF QuestionFailed, Answered, a, u
    <3>2. failed' \in [Commands -> Nat] BY <1>1, <2>2, <3>1
    <3>3. ASSUME NEW t \in Commands, Balanced(t) PROVE Balanced(t)'
      <4>1. failed'[t] = failed[t] + (IF t = u THEN 1 ELSE 0) BY <1>1, <2>2, <3>1
      <4>2. Queued(t)' = Queued(t) BY <3>1 DEF Queued
      <4>3. /\ Replied(t) = Replied(t)' + (IF t = u THEN 1 ELSE 0)
            /\ Replied(t)' \in Nat /\ InHand(t)' = InHand(t)
        BY <2>3, <2>4, <3>1
      <4> QED BY <1>4, <2>5, <3>1, <3>3, <4>1, <4>2, <4>3 DEF Balanced
    <3> QED BY <1>1, <1>2, <3>1, <3>2, <3>3 DEF WatchInv
  <2>10. CASE CommandFailed
    <3>1. a.job[1] = "command" /\ UNCHANGED <<queue, timers, tasks>>
      BY <2>10 DEF CommandFailed, Answered, a
    <3>2. ASSUME NEW t \in Commands, Balanced(t) PROVE Balanced(t)'
      <4>1. Replied(t)' = Replied(t) /\ InHand(t)' = InHand(t) BY <1>4, <2>3, <2>4, <3>1
      <4>2. Queued(t)' = Queued(t) BY <3>1 DEF Queued
      <4> QED BY <3>1, <3>2, <4>1, <4>2 DEF Balanced, tasks
    <3> QED BY <1>1, <1>2, <3>1, <3>2 DEF WatchInv, tasks
  <2> QED BY <1>13, <2>6, <2>7, <2>8, <2>9, <2>10 DEF Core
<1> QED BY <1>6, <1>7, <1>10, <1>11, <1>12, <1>13 DEF Next, Worker

\* processTask() makes up for every answer that says "not done": a task whose end
\* has not been heard is asked for unless more questions about it failed than
\* were answered, through any number of expiries, lost connections and refusals.
THEOREM TasksStayWatched == Spec => []TaskWatched
<1>1. Init => WatchInv
  <2> SUFFICES ASSUME Init PROVE WatchInv OBVIOUS
  <2>1. queue \in Seq(Job) /\ answers \in Seq(Reply) BY DEF Init
  <2>2. ASSUME NEW t \in Commands PROVE Balanced(t)
    <3>1. Queued(t) \in Nat /\ InHand(t) \in Nat /\ Replied(t) \in Nat BY <2>1, Counts
    <3>2. timers[t] = 0 /\ failed[t] = 0 /\ again[t] = 0 /\ t \notin started BY DEF Init
    <3> QED BY <3>1, <3>2 DEF Balanced
  <2> QED BY <2>2 DEF Init, WatchInv
<1>2. TriesInv /\ WatchInv => TaskWatched
  <2> SUFFICES ASSUME TriesInv, WatchInv, NEW t \in started \ ended
               PROVE  Questions(t) + failed[t] > again[t]
    BY DEF TaskWatched
  <2>1. Questions(t) = timers[t] + Queued(t) + InHand(t) + Replied(t)
    BY DEF Questions, Queued, InHand, Replied, RepliesTo, Question
  <2>2. Queued(t) \in Nat /\ InHand(t) \in Nat /\ Replied(t) \in Nat
    BY Counts DEF TriesInv, PlacesOK, Reply
  <2>3. /\ timers[t] \in Nat /\ failed[t] \in Nat /\ again[t] \in Nat
        /\ Balanced(t)
    BY DEF WatchInv
  <2> QED BY <2>1, <2>2, <2>3 DEF Balanced
<1> QED BY <1>1, <1>2, InitTries, StepTries, StepWatch, PTL DEF Spec
=============================================================================
