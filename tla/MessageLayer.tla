---------------------------- MODULE MessageLayer ---------------------------
(***************************************************************************)
(* The threads of the process and the two queues between them.             *)
(*                                                                         *)
(*   "core"  MessageLayer::run: takes messages from m_queue and runs the   *)
(*           logic handlers, which may send requests to PRIME;             *)
(*   "http"  HttpTransport::workerThread: performs the requests of its     *)
(*           queue one at a time, and puts the response into m_queue;      *)
(*   io      the asio thread: display touches and the 1 s tick of          *)
(*           PrimeLogic, which polls the events unless m_waitingResponse;  *)
(*   ark     the terminal's thread, whose ARKAIM_INITIALIZED starts the    *)
(*           tick;                                                         *)
(*   main    the menu, which on 'q' stops and joins the others.            *)
(*                                                                         *)
(* Both consumers wait on a condition variable: the test of the predicate  *)
(* and the blocking are two steps under the mutex, so that what is done    *)
(* without the mutex can fall between them.  Spurious wake-ups are left    *)
(* out: no thread can count on one.                                        *)
(***************************************************************************)
EXTENDS Naturals, Sequences

CONSTANTS
    MaxTouches    \* bound: touches of the display

ASSUME LayerAssumption == MaxTouches \in Nat

Consumers == {"core", "http"}

\* "poll" is the events request, "other" any other request; a response has
\* the name of its request.
CoreMessages == {"poll", "other", "touch"}

\* Where a consumer thread can be.
Positions == {"loop", "lock", "tested", "blocked", "work", "send", "notify", "done"}

VARIABLES
    m_running,   \* m_running of MessageLayer and of HttpTransport
    queue,       \* their m_queue, oldest first
    pc,          \* where the two consumer threads are
    current,     \* the message or task a consumer has taken
    m_waitingResponse,
    io, ark, main,   \* where the other threads are
    touches      \* touches so far

layerVars == <<m_running, queue, pc, current, m_waitingResponse, io, ark, main, touches>>

LayerInit ==
    /\ m_running = [t \in Consumers |-> TRUE]
    /\ queue = [t \in Consumers |-> <<>>]
    /\ pc = [t \in Consumers |-> "loop"]
    /\ current = [t \in Consumers |-> "other"]
    /\ m_waitingResponse = FALSE
    /\ io = "idle"
    /\ ark = "off"
    /\ main = "menu"
    /\ touches = 0

-----------------------------------------------------------------------------
(***************************************************************************)
(* Mutex, condition variable and queue.                                    *)
(***************************************************************************)

\* A consumer keeps its mutex from the test of the predicate to the blocking.
MutexFree(t) == pc[t] # "tested"

\* The program counters after a notification of t.
Notified(pcs, t) == IF pcs[t] = "blocked" THEN [pcs EXCEPT ![t] = "lock"] ELSE pcs

Push(t, m) ==
    /\ MutexFree(t)
    /\ queue' = [queue EXCEPT ![t] = Append(@, m)]

\* A bug: the queue is filled without its mutex.
send_NoLock(m) ==
    queue' = IF m_running["http"]
             THEN [queue EXCEPT !["http"] = Append(@, m)]
             ELSE queue

\* HttpTransport::send(): nothing once stopped, else a push under the mutex;
\* the notification is the caller's next step.
send(m) == IF m_running["http"] THEN Push("http", m) ELSE UNCHANGED queue

\* The receive handler of registerChannel(): push and notification are both
\* under the mutex.
ReceiveHandler(m) == Push("core", m)

\* A bug: the response does not wake the core thread.
ReceiveWake_Missing(pcs) == pcs

ReceiveWake(pcs) == Notified(pcs, "core")

-----------------------------------------------------------------------------
(***************************************************************************)
(* The loop of a consumer; run() and workerThread() share its shape.       *)
(***************************************************************************)

\* while (m_running)
Loop(t) ==
    /\ pc[t] = "loop"
    /\ pc' = [pc EXCEPT ![t] = IF m_running[t] THEN "lock" ELSE "done"]
    /\ UNCHANGED <<queue, current>>

\* The mutex is taken and the predicate holds: a message is taken out, or the
\* loop is left when there is none.
Take(t) ==
    /\ pc[t] = "lock"
    /\ IF queue[t] = <<>>
       THEN /\ ~m_running[t]
            /\ pc' = [pc EXCEPT ![t] = "done"]
            /\ UNCHANGED <<queue, current>>
       ELSE /\ current' = [current EXCEPT ![t] = Head(queue[t])]
            /\ queue' = [queue EXCEPT ![t] = Tail(@)]
            /\ pc' = [pc EXCEPT ![t] = "work"]

\* The predicate does not hold.
Test(t) ==
    /\ pc[t] = "lock"
    /\ m_running[t]
    /\ queue[t] = <<>>
    /\ pc' = [pc EXCEPT ![t] = "tested"]
    /\ UNCHANGED <<queue, current>>

\* wait() gives the mutex back and blocks.
Block(t) ==
    /\ pc[t] = "tested"
    /\ pc' = [pc EXCEPT ![t] = "blocked"]
    /\ UNCHANGED <<queue, current>>

Consume(t) ==
    /\ Loop(t) \/ Take(t) \/ Test(t) \/ Block(t)
    /\ UNCHANGED <<m_running, m_waitingResponse, io, ark, main, touches>>

-----------------------------------------------------------------------------
(***************************************************************************)
(* The core thread at work: every message of PrimeLogic clears the flag; a *)
(* touch may end in a request.                                             *)
(***************************************************************************)

Dispatch ==
    /\ pc["core"] = "work"
    /\ m_waitingResponse' = FALSE
    /\ \E next \in IF current["core"] = "touch" THEN {"send", "loop"} ELSE {"loop"} :
          pc' = [pc EXCEPT !["core"] = next]
    /\ UNCHANGED <<m_running, queue, current, io, ark, main, touches>>

HandlerSends ==
    /\ pc["core"] = "send"
    /\ send("other")
    /\ pc' = [pc EXCEPT !["core"] = "notify"]
    /\ UNCHANGED <<m_running, current, m_waitingResponse, io, ark, main, touches>>

HandlerNotifies ==
    /\ pc["core"] = "notify"
    /\ pc' = Notified([pc EXCEPT !["core"] = "loop"], "http")
    /\ UNCHANGED <<m_running, queue, current, m_waitingResponse, io, ark, main, touches>>

\* The HTTP worker at work: the request ends, with an answer of PRIME or with
\* an exception, and the response goes to the core.
performRequest ==
    /\ pc["http"] = "work"
    /\ ReceiveHandler(current["http"])
    /\ pc' = ReceiveWake([pc EXCEPT !["http"] = "loop"])
    /\ UNCHANGED <<m_running, current, m_waitingResponse, io, ark, main, touches>>

-----------------------------------------------------------------------------
(***************************************************************************)
(* The io thread.                                                          *)
(***************************************************************************)

\* The display sends a touch.
TouchArrives ==
    /\ io = "idle"
    /\ touches < MaxTouches
    /\ touches' = touches + 1
    /\ ReceiveHandler("touch")
    /\ pc' = ReceiveWake(pc)
    /\ UNCHANGED <<m_running, current, m_waitingResponse, io, ark, main>>

\* onTimerExpired(): no response is awaited, so the events are polled.
onTimerExpired ==
    /\ io = "idle"
    /\ ark = "on"
    /\ ~m_waitingResponse
    /\ io' = "send"
    /\ UNCHANGED <<m_running, queue, pc, current, m_waitingResponse, ark, main, touches>>

startPolling ==
    /\ io = "send"
    /\ send("poll")
    /\ io' = "notify"
    /\ UNCHANGED <<m_running, pc, current, m_waitingResponse, ark, main, touches>>

TickNotifies ==
    /\ io = "notify"
    /\ pc' = Notified(pc, "http")
    /\ io' = "store"
    /\ UNCHANGED <<m_running, queue, current, m_waitingResponse, ark, main, touches>>

\* m_waitingResponse.store(true) comes after the request; the timer is armed
\* again.
TickStores ==
    /\ io = "store"
    /\ m_waitingResponse' = TRUE
    /\ io' = "idle"
    /\ UNCHANGED <<m_running, queue, pc, current, ark, main, touches>>

\* ios.run() returns when the work is gone and no handler is pending; the
\* tick, once started, always is.
IoEnds ==
    /\ io = "idle"
    /\ ark # "on"
    /\ main \in {"joinCore", "joinIo"}
    /\ io' = "done"
    /\ UNCHANGED <<m_running, queue, pc, current, m_waitingResponse, ark, main, touches>>

-----------------------------------------------------------------------------
\* ARKAIM_INITIALIZED: startLoop() asks for the devices and starts the tick.
startLoop ==
    /\ ark = "off"
    /\ m_waitingResponse' = FALSE
    /\ send("other")
    /\ ark' = "notify"
    /\ UNCHANGED <<m_running, pc, current, io, main, touches>>

LoopNotifies ==
    /\ ark = "notify"
    /\ pc' = Notified(pc, "http")
    /\ ark' = "on"
    /\ UNCHANGED <<m_running, queue, current, m_waitingResponse, io, main, touches>>

-----------------------------------------------------------------------------
(***************************************************************************)
(* The main thread: core.stop() clears the flags and notifies, without the *)
(* mutexes, and joins the worker; main joins the core and the io thread.   *)
(***************************************************************************)

\* m_running of t is cleared.
Clear(t, before, after) ==
    /\ main = before
    /\ m_running' = [m_running EXCEPT ![t] = FALSE]
    /\ main' = after
    /\ UNCHANGED <<queue, pc, current, m_waitingResponse, io, ark, touches>>

\* notify_all() on the condition variable of t.
NotifyAll(t, before, after) ==
    /\ main = before
    /\ pc' = Notified(pc, t)
    /\ main' = after
    /\ UNCHANGED <<m_running, queue, current, m_waitingResponse, io, ark, touches>>

Join(ended, before, after) ==
    /\ main = before
    /\ ended
    /\ main' = after
    /\ UNCHANGED <<m_running, queue, pc, current, m_waitingResponse, io, ark, touches>>

Quit == Clear("core", "menu", "notifyCore")

stop ==
    \/ NotifyAll("core", "notifyCore", "clearHttp")
    \/ Clear("http", "clearHttp", "notifyHttp")
    \/ NotifyAll("http", "notifyHttp", "joinHttp")
    \/ Join(pc["http"] = "done", "joinHttp", "joinCore")
    \/ Join(pc["core"] = "done", "joinCore", "joinIo")
    \/ Join(io = "done", "joinIo", "stopped")

CoreThread == Consume("core") \/ Dispatch \/ HandlerSends \/ HandlerNotifies
HttpThread == Consume("http") \/ performRequest
TickThread == onTimerExpired \/ startPolling \/ TickNotifies \/ TickStores \/ IoEnds

LayerNext ==
    \/ CoreThread
    \/ HttpThread
    \/ TickThread
    \/ TouchArrives
    \/ startLoop
    \/ LoopNotifies
    \/ Quit
    \/ stop

\* Every thread that can run does; a request ends at the latest with the
\* session's timeout.  Nobody has to touch the display or to quit.
LayerFairness ==
    /\ WF_layerVars(CoreThread)
    /\ WF_layerVars(HttpThread)
    /\ WF_layerVars(TickThread)
    /\ WF_layerVars(LoopNotifies)
    /\ WF_layerVars(stop)

LayerSpec == LayerInit /\ [][LayerNext]_layerVars /\ LayerFairness

-----------------------------------------------------------------------------
LayerTypeOK ==
    /\ m_running \in [Consumers -> BOOLEAN]
    /\ queue \in [Consumers -> Seq(CoreMessages)]
    /\ pc \in [Consumers -> Positions]
    /\ current \in [Consumers -> CoreMessages]
    /\ m_waitingResponse \in BOOLEAN
    /\ io \in {"idle", "send", "notify", "store", "done"}
    /\ ark \in {"off", "notify", "on"}
    /\ main \in {"menu", "notifyCore", "clearHttp", "notifyHttp", "joinHttp",
                 "joinCore", "joinIo", "stopped"}
    /\ touches \in 0..MaxTouches

\* No wake-up is lost to a message: a consumer blocked in front of a filled
\* queue is about to be notified by the thread that filled it.
NoLostWakeup ==
    \A t \in Consumers : pc[t] = "blocked" /\ queue[t] # <<>> =>
        /\ t = "http"
        /\ pc["core"] = "notify" \/ io = "notify" \/ ark = "notify"

\* What is queued is worked on, by the core thread and by the worker, as long
\* as they are not stopped.
QueuesAreServed ==
    \A t \in Consumers : queue[t] # <<>> ~> (pc[t] = "work" \/ ~m_running[t])

\* The tick keeps polling: PrimeLogic.cpp:133 has a "Watchdog" that would
\* "сбрасываем флаг, если зависли" (reset the flag if we are stuck).
PollingGoesOn == (ark = "on") ~> (io = "send" \/ main # "menu")

\* stop() ends the worker: ITransport.hpp promises "Остановить транспорт".
StopEndsWorker == ~m_running["http"] ~> pc["http"] = "done"

\* 'q' ends the program: the menu says "q - Quit".
QuitEnds == (main # "menu") ~> (main = "stopped")

=============================================================================
