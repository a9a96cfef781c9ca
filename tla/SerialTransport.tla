--------------------------- MODULE SerialTransport ---------------------------
(***************************************************************************)
(* The UART transport of the DWIN display (src/transport/SerialTransport): *)
(* any thread may call send(); frames are queued under write_serial_mutex  *)
(* and written one at a time by boost::asio on the io thread.  A burst of  *)
(* more than MAX_BURST_BYTES is broken by a 10 ms throttle timer.          *)
(*                                                                         *)
(* One action is one critical section of write_serial_mutex or one handler *)
(* run by the io thread.  send() tests `running' before it takes the       *)
(* mutex, so its two halves are separate actions of the calling thread.    *)
(***************************************************************************)
EXTENDS Naturals, Sequences

CONSTANTS
  Threads,          \* threads that call send(): core, io and main thread
  Packets,          \* frames
  Size,             \* bytes of each frame
  MAX_BURST_BYTES,  \* SerialTransport.hpp: 64
  None,             \* "this thread is not inside send()"
  MaxSends          \* bound: how many frames a behaviour sends

ASSUME TransportAssumption ==
  /\ Size \in [Packets -> Nat \ {0}] /\ MAX_BURST_BYTES \in Nat
  /\ None \notin Packets /\ MaxSends \in Nat

VARIABLES
  running,             \* std::atomic<bool> running
  port_open,           \* port.is_open()
  close_posted,        \* closePort() posted by stop(), not yet run
  sending,             \* per thread: the frame it carries past `running'
  write_serial_queue,
  m_write_in_progress,
  m_burst_bytes,
  writes,              \* async_write operations outstanding
  timers,              \* async_wait operations outstanding
  cancelled,           \* closePort() cancelled the outstanding operation
  reading,             \* an async_read_some is outstanding
  wire,                \* history: frames written to the port
  sends                \* how many sends were started (bounded by MaxSends)

writer == <<write_serial_queue, m_write_in_progress, m_burst_bytes, writes, timers>>
life   == <<running, port_open, close_posted, cancelled, reading>>
portVars == <<writer, life, sending, wire, sends>>

PortTypeOK ==
  /\ running \in BOOLEAN
  /\ port_open \in BOOLEAN
  /\ close_posted \in BOOLEAN
  /\ sending \in [Threads -> Packets \cup {None}]
  /\ write_serial_queue \in Seq(Packets)
  /\ m_write_in_progress \in BOOLEAN
  /\ m_burst_bytes \in Nat
  /\ writes \in Nat
  /\ timers \in Nat
  /\ cancelled \in BOOLEAN
  /\ reading \in BOOLEAN
  /\ wire \in Seq(Packets)
  /\ sends \in Nat

PortInit ==
  /\ running = FALSE
  /\ port_open = FALSE
  /\ close_posted = FALSE
  /\ sending = [t \in Threads |-> None]
  /\ write_serial_queue = <<>>
  /\ m_write_in_progress = FALSE
  /\ m_burst_bytes = 0
  /\ writes = 0
  /\ timers = 0
  /\ cancelled = FALSE
  /\ reading = FALSE
  /\ wire = <<>>
  /\ sends = 0

-----------------------------------------------------------------------------
(* The write cycle.                                                        *)

\* Mutant: the burst counted down instead of up.
doWriteImpl_Countdown(q, burst, w) ==
  /\ m_burst_bytes' = burst - Size[Head(q)]
  /\ writes' = w + 1

\* doWriteImpl() on queue q, counting from `burst' bytes, with w other
\* async_write operations outstanding.
doWriteImpl(q, burst, w) ==
  /\ m_burst_bytes' = burst + Size[Head(q)]
  /\ writes' = w + 1

\* Mutant: the frame about to be written is not counted.
MustPause_IgnoresFrame(q, burst) ==
  burst > MAX_BURST_BYTES

\* A frame that would push a started burst over the limit has to wait.
MustPause(q, burst) ==
  burst > 0 /\ burst + Size[Head(q)] > MAX_BURST_BYTES

\* doWrite() on queue q: nothing left, arm the throttle timer, or write.
doWrite(q, w) ==
  \/ /\ q = <<>>
     /\ m_write_in_progress' = FALSE
     /\ m_burst_bytes' = 0
     /\ writes' = w
     /\ UNCHANGED timers
  \/ /\ q # <<>>
     /\ MustPause(q, m_burst_bytes)
     /\ m_write_in_progress' = TRUE
     /\ timers' = timers + 1
     /\ writes' = w
     /\ UNCHANGED m_burst_bytes
  \/ /\ q # <<>>
     /\ ~MustPause(q, m_burst_bytes)
     /\ m_write_in_progress' = TRUE
     /\ doWriteImpl(q, m_burst_bytes, w)
     /\ UNCHANGED timers

\* send(), first half: the frame is dropped unless `running' is seen.
SendCheck(t, p) ==
  /\ sending[t] = None
  /\ sends < MaxSends
  /\ running
  /\ sending' = [sending EXCEPT ![t] = p]
  /\ sends' = sends + 1
  /\ UNCHANGED <<writer, life, wire>>

\* Mutant: send() starts a write cycle without testing m_write_in_progress.
SendPush_NoTest(t) ==
  /\ sending[t] # None
  /\ sending' = [sending EXCEPT ![t] = None]
  /\ LET q == Append(write_serial_queue, sending[t])
     IN  /\ write_serial_queue' = q
         /\ doWrite(q, writes)
  /\ UNCHANGED <<life, wire, sends>>

\* send(), second half, under write_serial_mutex.
SendPush(t) ==
  /\ sending[t] # None
  /\ sending' = [sending EXCEPT ![t] = None]
  /\ LET q == Append(write_serial_queue, sending[t])
     IN  /\ write_serial_queue' = q
         /\ \/ /\ m_write_in_progress
               /\ UNCHANGED <<m_write_in_progress, m_burst_bytes, writes, timers>>
            \/ /\ ~m_write_in_progress
               /\ doWrite(q, writes)
  /\ UNCHANGED <<life, wire, sends>>

\* handleWrite() without error.  A cancelled write may have completed just
\* before the cancellation; one started on a closed port never succeeds.
HandleWriteOk ==
  /\ writes > 0
  /\ port_open \/ cancelled
  /\ wire' = Append(wire, Head(write_serial_queue))
  /\ write_serial_queue' = Tail(write_serial_queue)
  /\ doWrite(Tail(write_serial_queue), writes - 1)
  /\ cancelled' = FALSE
  /\ UNCHANGED <<running, port_open, close_posted, reading, sending, sends>>

\* Mutants of handleWrite()'s error branch: m_write_in_progress not reset;
\* only the failed frame dropped; the queue kept whatever the error.
HandleWriteError_StaysBusy(aborted) ==
  /\ writes > 0
  /\ aborted => cancelled
  /\ write_serial_queue' = IF aborted THEN write_serial_queue ELSE <<>>
  /\ m_burst_bytes' = 0
  /\ writes' = writes - 1
  /\ cancelled' = FALSE
  /\ UNCHANGED <<m_write_in_progress, timers, running, port_open, close_posted,
                 reading, sending, wire, sends>>

HandleWriteError_Leaves(aborted, q) ==
  /\ writes > 0
  /\ aborted => cancelled
  /\ write_serial_queue' = q
  /\ m_write_in_progress' = FALSE
  /\ m_burst_bytes' = 0
  /\ writes' = writes - 1
  /\ cancelled' = FALSE
  /\ UNCHANGED <<timers, running, port_open, close_posted, reading, sending, wire, sends>>

HandleWriteError_DropsOne(aborted) ==
  HandleWriteError_Leaves(aborted, IF aborted THEN write_serial_queue
                                              ELSE Tail(write_serial_queue))

HandleWriteError_KeepsAll(aborted) ==
  HandleWriteError_Leaves(aborted, write_serial_queue)

\* handleWrite() with an error.  operation_aborted keeps the queue, any
\* other error (the device, a port that is not open) empties it.
HandleWriteError(aborted) ==
  /\ writes > 0
  /\ aborted => cancelled
  /\ write_serial_queue' = IF aborted THEN write_serial_queue ELSE <<>>
  /\ m_write_in_progress' = FALSE
  /\ m_burst_bytes' = 0
  /\ writes' = writes - 1
  /\ cancelled' = FALSE
  /\ UNCHANGED <<timers, running, port_open, close_posted, reading, sending, wire, sends>>

\* The throttle timer's handler; it does nothing once cancelled or stopped.
ThrottleExpired ==
  /\ timers > 0
  /\ timers' = timers - 1
  /\ cancelled' = FALSE
  /\ \/ /\ ~cancelled /\ running
        /\ doWriteImpl(write_serial_queue, 0, writes)
     \/ /\ cancelled \/ ~running
        /\ UNCHANGED <<m_burst_bytes, writes>>
  /\ UNCHANGED <<write_serial_queue, m_write_in_progress, running, port_open,
                 close_posted, reading, sending, wire, sends>>

-----------------------------------------------------------------------------
(* Life cycle and reading.                                                 *)

\* start(): `running' is set before the port is opened and stays set when
\* opening fails.  MessageLayer::run() calls it once.
Start(opened) ==
  /\ ~running /\ ~close_posted /\ ~port_open /\ sends = 0
  /\ running' = TRUE
  /\ port_open' = opened
  /\ reading' = opened
  /\ UNCHANGED <<writer, close_posted, cancelled, sending, wire, sends>>

\* stop(): any thread; the port is closed later, on the io thread.
Stop ==
  /\ running
  /\ running' = FALSE
  /\ close_posted' = TRUE
  /\ UNCHANGED <<writer, port_open, cancelled, reading, sending, wire, sends>>

\* closePort(): cancels the timer and the port's operations.
ClosePort ==
  /\ close_posted
  /\ close_posted' = FALSE
  /\ port_open' = FALSE
  /\ reading' = FALSE
  /\ cancelled' = (timers > 0 \/ (port_open /\ writes > 0))
  /\ UNCHANGED <<writer, running, sending, wire, sends>>

\* handleRead(): data is passed on and the next read started while running;
\* an error ends reading for good.
HandleRead(ok) ==
  /\ reading
  /\ reading' = (ok /\ running)
  /\ UNCHANGED <<writer, running, port_open, close_posted, cancelled, sending, wire, sends>>

-----------------------------------------------------------------------------
IoThread ==
  \/ HandleWriteOk
  \/ \E aborted \in BOOLEAN : HandleWriteError(aborted)
  \/ ThrottleExpired
  \/ ClosePort

PortNext ==
  \/ \E t \in Threads, p \in Packets : SendCheck(t, p)
  \/ \E t \in Threads : SendPush(t)
  \/ IoThread
  \/ \E opened \in BOOLEAN : Start(opened)
  \/ Stop
  \/ \E ok \in BOOLEAN : HandleRead(ok)

\* The io thread runs every completed handler (io_service::run), and a
\* thread inside send() leaves it: it only takes a mutex held briefly.
Fairness ==
  /\ WF_portVars(IoThread)
  /\ \A t \in Threads : WF_portVars(SendPush(t))

PortSpec == PortInit /\ [][PortNext]_portVars
FairSpec == PortSpec /\ Fairness

-----------------------------------------------------------------------------
(* Properties.                                                             *)

\* At most one asynchronous operation of the writer is outstanding, whatever
\* threads call send() and whatever the burst counter says: boost::asio
\* forbids a second async_write on the port, and doWriteImpl() reads
\* queue.front(), which only the owner of the operation may do.
OneOperation == writes + timers <= 1

\* m_write_in_progress is never left set with nothing outstanding while the
\* transport runs, on any of the error paths: otherwise every later send()
\* would only queue and the display would go dead.
NotStuck == running => (m_write_in_progress <=> writes + timers > 0)

\* While a frame is being written the burst is within the limit, unless the
\* frame alone exceeds it (doWrite(), the comment on MAX_BURST_BYTES).
BurstBounded ==
  writes > 0 => \/ m_burst_bytes <= MAX_BURST_BYTES
                \/ m_burst_bytes = Size[Head(write_serial_queue)]

\* Frames reach the port in the order of their send() calls, none twice, and
\* are lost only by a write error that empties the queue.
Pipe == INSTANCE PacketPipe WITH waiting <- write_serial_queue
ImplementsPipe == Pipe!Spec

\* Every queued frame is written or dropped as long as the transport runs:
\* the throttle and the error paths never leave the queue unattended.
QueueDrains == (write_serial_queue # <<>>) ~> (write_serial_queue = <<>> \/ ~running)
=============================================================================
