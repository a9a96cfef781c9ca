# Dwin: a TLA+ verification project

Dwin is the control program of a self-service petrol terminal. It sits between
a DWIN touch display (UART), a PRIME forecourt controller (HTTP, digest
authentication), the back office "BOS"/1C (HTTPS) and an Arkaim card terminal
(ITP over a named pipe). This directory models its core in TLA+, checks the
models with TLC on small instances and proves the central invariants with
TLAPS. Paths below are those of the repository (`src/logic/PrimeLogic.cpp`,
`include/bridge/...`); `PROJECT.json` maps each definition to its lines.

## 1. Inventory

### Threads

| thread | runs |
|---|---|
| core | `MessageLayer::run`: takes a message from the core queue, calls `handle` of the logic registered for its source |
| io | boost::asio: serial reads and writes, and the 1 s tick of `PrimeLogic` |
| HTTP worker (one per server) | `HttpTransport::workerThread`: one request at a time, in FIFO order; pushes the answer into the core queue |
| Arkaim poll thread | callbacks of the ITP library; `sendToLogicLayer` runs the handlers of `PrimeLogic` on this thread |
| main | the console menu; `q` stops the core and joins core and io |

### Components

| component | state | operations | must hold |
|---|---|---|---|
| `SerialTransport` | write queue, busy flag, burst counter, throttle timer, port | start, stop, send, write completion, throttle expiry, read | one operation on the port; never busy without one; bursts bounded; frames leave in order |
| `ArkaimLogic` | current card and PIN, resolve flag, pending payment, order -> transaction map | card detected/resolved, pay, PIN, balance, confirm, cancel, clear, and the answers | a settlement names the order's own charge; no charge is settled twice or lost; a PIN stays with its card; one resolve at a time |
| `PrimeLogic` | chosen dispenser, dispensers, orders, pending sales, gauge queues, start flags, last event id, page timers | touches, tick, events, status, parameters, errors, payment answers | fuel only for paid orders; each record of an order confirmed once, each delivery reported once and completely |
| `PrimeLogic`, amounts | recorded and final amount per order, time of the last change of the display, pause flag | display events, order events, status answers, tick | the card terminal is told what was delivered; the pause alarm means a pause |
| `PrimeLogic`, tasks | timers of `processTask` | task number, task answer, timer | an unfinished task stays asked for; polling ends |
| `PrimeLogic`, reception | gauge, document and initial reading of the reception, readings, gauge tasks of orders | document number, accept, finish, gauge pages, tick, answers | two readings of the reception's own gauge, in order; sales with readings from before and after |
| `PrimeLogic`, settings | used dispensers, their number, page index, prices; `config.json` | toggle, reset, accept, amount, paging, price, failed save, restart | prices agree with the file and fit; a restart restores; the list is not read outside |
| `BosLogic` + repositories | `sent_to_server` per row | report sale/reception, response | a row is marked only if 1C has it |
| `HttpTransport`, `DigestAuthenticator` | queue, worker, session cookie, nonce | send, worker, attempt and repetition, 401 challenge, reset, stop | every request ends; order kept; few repetitions; an expired session is replaced; stop ends the worker |
| `MessageLayer`, `main` | core queue, running flag | receive, run, sendTo, stop, join | no lost wakeup; queues served; quit ends |
| `DwinParser` | frame buffer | parse, serialize | every touch becomes one message, in order, however the bytes arrive |
| `DwinLogic`, `DwinCommands` | the buffer all pin pads share | touches, amounts and balances to show | the typed text stays a number; what is ordered was shown; every text fits its field |

What is hard in this code: the core, io, poll and HTTP threads share
`PrimeLogic` and `ArkaimLogic` almost without locks; answers and events of the
controller reach the same state over two ways (poll and query) in any order;
flags and "current" values belong to no order; answers are matched with state
that has moved on; requests are repeated on failure; the process may die
between the database and the server. The `hazards` of `PROJECT.json` name the
lines.

## 2. Modules

| module | models | used by |
|---|---|---|
| `PacketPipe` | abstract: an in-order pipe that may flush everything it holds | refined by `SerialTransport` |
| `SerialTransport` | `SerialTransport.cpp` | `MCSerialTransport`, `DisplayProofs` |
| `ArkaimLogic` | `ArkaimLogic.cpp`, both threads | `MCArkaimLogic`, `ArkaimLogicProofs` |
| `PrimeLogic` | the life of an order in `PrimeLogic.cpp`, with the controller, the HTTP worker, the display's pages and the card terminal around it | `MCPrimeLogic`, `PrimeLogicProofs` |
| `FuelDelivery` | the amounts of an order and the pause supervision in `PrimeLogic.cpp`, with the controller around it | `MCFuelDelivery`, `FuelDeliveryProofs` |
| `FuelReception` | reception, gauge pages and gauge tasks in `PrimeLogic.cpp`, the report's conversion | `MCFuelReception`, `FuelReceptionProofs` |
| `StationSetup` | the service menu in `PrimeLogic.cpp`, `config.json` | `MCStationSetup`, `StationSetupProofs` |
| `PrimeChannel` | `HttpTransport.cpp` towards the controller, `DigestAuthenticator.cpp`, task polling in `PrimeLogic.cpp` | `MCPrimeChannel`, `PrimeChannelProofs` |
| `BosSync` | `BosLogic`, repositories, BOS `HttpTransport`, crash | `MCBosSync`, `BosSyncProofs` |
| `MessageLayer` | the threads, queues, condition variables and the shutdown | `MCMessageLayer`, `DisplayProofs` |
| `DwinParser` | `DwinParser::parse` | `DwinDisplay` |
| `DwinLogic` | `DwinLogic.cpp`, `DwinCommands.hpp` | `DwinDisplay` |
| `DwinDisplay` | composes the two with the display and the core queue | `MCDwinDisplay`, `DisplayProofs` |

### SerialTransport

`writes` and `timers` count the asynchronous operations that asio holds;
`send` is two steps because `running` is tested before the mutex is taken.
The body of `doWrite`/`doWriteImpl` is an operator on queue and burst counter,
used by the three handlers that end in it. `closePort` runs on the io thread
some time after `stop`. Frames are names with a size. The limit of 64 bytes is
the constant `MAX_BURST_BYTES`. Fairness: weak fairness of the io thread's
handlers, which asio runs when their operation completes; nothing is assumed
of the senders.

### ArkaimLogic

One action per message of `handle` (core thread) and per ITP callback (poll
thread), up to the places where the other thread's writes to card, PIN and
payment make a difference; `at` says where each thread stands. The mutex covers
the test of `tryProcessPendingPayment` and the transaction that follows it, not
the card: `resetCardState` and `onCardResolve` take no mutex. So
`sendTransaction` reads card (`FrameCard`) and PIN in two steps between which the
other thread runs, `resetCardState` clears the card first and PIN and payment
later (`FinishReset`), and `onCardResolve` stores the card, sets the flag
(`CardFlagged`) and clears the PIN (`CardAnnounced`). What `PrimeLogic` does
synchronously inside a callback (asking for the balance, clearing the card) is
part of the callback. The one promise asked of the caller is a single
`PAY_TRANSACTION` per order, the variable `requested` (`asked` in
`createPayment` of `PrimeLogic`). `PAY_CONFIRM` may come at any time and again:
`PrimeLogic` sends one per record of an order, and may make a second record
(`ConfirmedPerRecord`, `ConfirmedOnce`).
A PIN is represented by the card it was typed for. `misread` (history) says that
an answer to RESOLVE could not be parsed, which may leave a card without its
flag behind. Other accesses to shared members, each of them one assignment or
one look-up, are taken as atomic.

### PrimeLogic

`requests` is the HTTP worker's queue, `responses` the core queue. `handle` is
one action per message, except that the answer to `GET_EVENTS` is worked off
one event per step, because payment callbacks run on another thread in
between. The controller keeps a journal of events; `GET_EVENTS` returns what
lies after the last id, so two outstanding polls return the same events. A
chain of ticks, each falling into the handling of the previous answer, makes a
poll that reaches arbitrarily far back.

A request that fails (`RequestFails`: connection lost, refused, an error code)
is gone: `processHandleHttpError` and `dispatchError` repeat nothing, and the
task of a gauge query stays in its queue, where the next answer of the gauge is
taken for it. A command that was executed and whose answer was lost is the case
in which it is acknowledged, since nothing depends on the acknowledgement.

Five variables are history. `records` counts how often an order was put into
`m_orders`, `reports` what was sent to BOS, `failed` the queries of each gauge
that failed (and, under `NoGauge`, other requests); `Unread` are the orders on a
tank with a failed query. `repeated` holds the orders whose end
was visited again after their sale had been sent: the code begins a new sale and
sends it. `untimely` holds the orders whose sale may lack its reading for reasons
other than the gauge queue: authorised before they were paid for (see
`prime_unpaid`), so that the product need not be known and no gauge is asked;
created while their dispenser was not the chosen one, or visited as created a
second time; or with the nozzle hung up before they were authorised.

Assumptions on what is not in the repository:

* the display project decides which page shows which button. The model lets
  Next be touched on the page shown after a successful payment, and Cancel
  there and on the page after it; with `DoubleTap` a button can be touched
  again before its page is gone;
* the controller creates an order on a dispenser with a lifted nozzle and
  without an order, authorises a READY order, does not close one while fuel
  flows, and may report the end of an interrupted order and the IDLE status in
  either order;
* the terminal gives one final answer to a payment; an answer asking for a PIN
  changes only pages.

Abstractions: volumes, prices and receipts are left out; a product is known or
not; a pending sale keeps its type and whether the reading before fuelling is
in it (the reading after it is always there, for it sends the sale); task
polling (`GET_TASKS`) is part of `Acknowledge` (`PrimeChannel` has it); all page
timers whose expiry clears the chosen dispenser are one; how a request comes to
fail is left to `PrimeChannel`, what the amounts are to `FuelDelivery`.

`handleDispenserStatus` runs after `handleRandomDispenserStatus` has stored the
same status, so its branch for "after fuelling" (prev status COMPLETE) is never
taken; the model has only what is reached.

### FuelDelivery

Keeps of an order the amount the display showed (`amount`), the amount that is
confirmed (`fact`), its status and `order_finalized`; amounts are whole roubles
(`stod` stops at the decimal comma). An event is handled in one step each, as in
`PrimeLogic`. The times that `checkFuellingProcess` compares are counted in
ticks up to `Timeout`; `still` is what the dispenser itself would say. Payment
and gauges are left out: any READY order may be started. `told` records in a
confirmation whether the end of its order had been polled; `overwritten` the
orders whose record was changed by an event from before their creation, which a
repeated poll brings.

### PrimeChannel

The worker holds one request (`job`) and is on its first try, on the second
over a new connection, or on the digest try. A lost connection may have lost
the request or the answer. Cookies and nonces are numbers, and the controller
accepts the youngest; `Strict` says that it refuses an expired cookie even next
to a valid digest, the case in which `reset()` is needed. `Ask` puts a question
about a task into the queue; an unfinished answer asks again at once and starts
a timer that asks once more; a question that fails (`QuestionFailed`) is not
repeated. `again` and `failed` count the two for each task, `ended` are the tasks
that an answer called finished. Fairness: worker, core and timers run, and the
controller finishes the tasks it has begun.

### FuelReception

A reading is its gauge, the number of changes of the tank before it, and whole
cubic metres. An order is its two events, each of which queues a gauge task and
asks for the gauge; answers are matched with tasks by the gauge alone, as in
`processParameters`. The events of an answer are visited one per step (`batch`),
and the core handles nothing else before the last. Buttons are touched in any order. The report's quantity is
one character (see the finding); reading it back may fail, and a byte that is
not UTF-8 makes `dump()` throw out of `handle`, as `stod` does for a reading that
never came. `BosSync` takes over where the record has been stored.
Left out: `m_current_tanker_id`, which is written and never read, and gauges
named "". Fairness: core, worker and timer run, and the controller answers.

### StationSetup

`config` is `config.json`, `settings` what was read of it at the start. A typed
text is its digits and the number of decimals. The three functions that save
print an error and return, and their callers go on: the file was written
(`Saved`), was left as it is (`NotSaved`: it cannot be parsed, or not be opened
for writing), or is lost (`FileLost`: it was emptied and not written, or could
not be opened for reading, so that only the part just saved is written and
`load()` misses the rest). `CutWhileSaving` is a power cut in between. `Restart`
loads what it finds; `load()` catches the error of a lost file and the process
starts without dispensers and prices and with an `amount_trk` that was never
initialised. Addresses and widths of the display are then uninitialised too;
the model keeps `FieldWidth` and lets touches reach their handlers. The history
`accepted` and `entered` is what was saved last, `unsaved` and `unsavedList` what
has not been saved since the start.

The button touched on the start page carries its position, left or right, or
stands for the page index; it is not tied to the number of dispensers, because a
page timer sends the start page that was current when it was started, and it may
expire whether or not a dispenser is chosen. Reading outside
`m_selected_dispensers` is undefined: the process ends or goes on with some
dispenser, and `stray` records that it happened. Before the devices have come a
dispenser is a null pointer, which ends the process. A volume is typed on a page
that may still be shown when a timer has cleared the chosen dispenser.

### BosSync

A row is its `sent_to_server` flag. A response carries only the row number
back, as `resource_id` does. Each attempt of `authenticate` is delivered and
answered, refused, not delivered, or delivered with the answer lost; the first
exception repeats the request. A crash empties the queues and keeps rows and
the server's records. Fairness: weak fairness of the worker, of the network
(each attempt ends, which Poco's timeouts give) and of the core thread.
The metrological report is left out: no message reaches its handler.

### MessageLayer

The two consumers (`MessageLayer::run`, `HttpTransport::workerThread`) have the
same shape: test of the flag, lock, test of the predicate, block, take. A
notification moves a blocked consumer back to its test; one sent between test
and block is lost, unless the mutex prevents it: a consumer between its test
and its block holds the mutex, so a push waits, while `stop`, which takes no
mutex, does not. Spurious wakeups are left out: a program that needs them is
not correct. The tick is split at the request and at the store to
`m_waitingResponse`. Fairness: weak fairness of every thread, none of touches
and of Quit.

### DwinParser, DwinLogic, DwinDisplay

Bytes are numbers and frames are real ones, because framing is about bytes.
One iteration of the loop in `parse` is one action of the io thread; the
messages are queued when it returns, as the receive handler does, and the core
thread handles earlier ones meanwhile. `DwinLogic` contributes what a message
does: `TouchPinPad` is the whole of `handleTouchPinPad`, `PassOn` the handlers
that only send a message to `PrimeLogic` (tables give its type), `ShowAmount`
and `ShowBalance` those of other layers' messages, of which only the lengths of
the texts are kept. `out` is what a step passes on, `shown` what a pad's field
displays, `pad` (history) the pad whose field was written last, `alive` whether the process still runs: a text wider than its field
makes the unsigned padding of `sendRightAlignmentWithPadding` wrap around, and
no handler catches what the allocation throws.

External: the display sends a frame per touch, acknowledges writes, turns
pages, and a stray byte (5A, the worst one, being the first of a header) may
precede a frame. Lost bytes and a length byte of 0 are left out. The display
takes steps only while `parse` is not running, as the bytes would wait in the
port. Pages turn while no touch is in flight, which only bounds the mixtures of
buttons.

## 3. Runs

Passing runs:

| run | shows |
|---|---|
| `serial_transport` | two threads, three frames (small, nearly a burst, larger than a burst), 3 sends, errors, stop: the four invariants, refinement of `PacketPipe`, the queue empties |
| `arkaim_payment` | 2 orders, 2 cards, 4 requests to the terminal, with the PIN on the display or with a PIN pad; both threads interleaved inside their handlers |
| `prime_order` | 2 dispensers on one tank, 2 order ids, 2 requests outstanding; from power-on with 3 touches, double taps and a failed request, with a customer who is paying and 1 touch (2 if no request fails any more), or from a busy station: an order is paid and just authorised while the other dispenser delivers, or its authorisation is on its way when the other has delivered, states that an ordinary customer at each brings about |
| `fuel_delivery` | 1 dispenser, 2 orders of 2 roubles, supervision after 1 tick; from power-on, with fuel flowing, with the next customer waiting, or with the end of the last order polled again |
| `prime_channel` | 2 commands, 1 expiry, 2 lost connections, 1 request forbidden, 2 unfinished answers |
| `fuel_reception` | 2 gauges, 1 order, 4 touches, 1 change of a tank, 1 failed request |
| `station_setup` | 3 dispensers, 2 products, 6 touches, 1 failed save or lost file, 1 restart; prices "0,00", "99,9", "101" and "1000,5", volumes "12,5" and "700,00" |
| `bos_sync` | 3 sales, 1 reception, 1 crash |
| `message_layer` | all threads, 2 touches, shutdown included |
| `dwin_display` | every kind of button, 2 touches in flight, frames cut after 5 bytes or whole, stray bytes between them; a pin pad for 4 keys with a field of 5; the Enter key of a second pad on a page of its own |

Every module has its `TypeOK` (`PortTypeOK`, `LayerTypeOK`). Two of the runs list it; it holds with the
constants of the others too (add it to the INVARIANTS of their configurations),
where the runs are kept for what depends on the code. `KeepsRunning` holds in
`DwinDisplay.cfg`, whose field is one wider than the text it is for.

Why the bounds are enough: 2 orders are what every confusion of orders needs,
2 requests outstanding what the duplicate poll and the race of query and poll
need, 4 terminal requests cover resolve, two payments, of one order or of two,
and a settlement, or resolve, balance, payment and settlement (any other request
may fail to be pushed). A third sale lets a repeated request stand between
two others. Two lost connections are what a try and its repetition can meet;
two unfinished answers make four questions, so that a task is asked about after
its end. Four touches are a whole reception (document, accept, finish) with the
page moved away; six are an edited and accepted list, or an edited
price, followed by a customer who chooses and orders; one failed save and one
restart are what it takes for memory and file to differ and to meet again. On the pin pad 4 keys allow a comma with two decimals and a fifth
character after a full text; a cut after 5 bytes falls, with the stray bytes,
into header, address and key of the frames. `prime_order` uses symmetry: its
dispensers draw from the same tank and the initial states, the actions and the
invariants treat dispensers and orders alike. The counterexamples below are
found within the same bounds or smaller ones, so the interesting interleavings
do happen in them. Deadlock is checked in the display's runs, where someone can
always touch a button; the other models end when their bounds are used up or
the program has stopped.

Violation runs, each about one sentence of the repository that the code does
not keep (`findings` quotes it):

| run | what happens |
|---|---|
| `prime_unpaid` | a start flag left by a cancelled order authorises the next before its payment |
| `reception_stored` | the received litres become one character: 19 m³ are stored as 8 litres, others not at all |

The modules state more expectations that TLC refutes. They have no run of their
own; to see a counterexample, put the definition in place of the properties of
the configuration named, as an INVARIANT unless said otherwise.

| definition | configuration | what happens |
|---|---|---|
| `ConfirmedIsReported` | `PrimeReported.cfg` | the status query sees IDLE before the event: the order is confirmed, never reported, although `PrimeLogic.cpp:1221` is there to send its end |
| `PendingKeptForCancel` | `ArkaimPendingKept.cfg` | the answer to order 1's confirm deactivates order 2's pending payment, which `ArkaimLogic.cpp:524` says is kept; Cancel then sends nothing |
| `SentIsAccepted` | `BosSent.cfg` | the answer to reception 1 marks sale 1, although the handler is to check what the server took (`BosLogic.hpp:31`) |
| `PollingGoesOn` (a PROPERTY) | `MessagePolling.cfg` | the poll's answer comes before `store(true)`: no poll is sent any more until another message comes; the watchdog announced in `PrimeLogic.cpp:133` is empty |
| `KeepsRunning` | `DwinPinpad.cfg` | shipped widths: six digits and the comma make seven characters for a field of six; the padding wraps around and the process ends |
| `ConfirmedIsDelivered` | `FuelDelivery.cfg` | the status asked for by Back is answered after the delivery and handled before its event: the terminal is told an older amount |
| `AlarmIsReal` (a PROPERTY) | `FuelDelivery.cfg` | choosing a dispenser that delivers sounds the pause alarm, its time being that of the last display event handled while it was chosen |
| `InitialIsCurrent` | `FuelStored.cfg` | the reception begins with an old reading |
| `MenuKeepsRunning` | `FuelStored.cfg` | a gauge button without gauges, or a reception finished before its gauge was read, ends the process |
| `VolumeKept` | `StationSetup.cfg` | "700,00" litres are 70000 hundredths, as a `uint16_t` 4464 |
| `OrderIsPriced` | `StationSetup.cfg` | the price "0,00" is not "0": orders are created with it |
| `PriceAccepted` (a PROPERTY) | `StationSetup.cfg` | "101" fits its field of three and is refused (`<` for `<=`), although `PrimeLogic.cpp:765` refuses what is longer than three and the shipped `config.json` holds such a price |
| `SetupKeepsRunning` | `StationSetup.cfg` | Enter on the volume pad after its timer, or a button before products and devices have come |
| `NoStrayRead` | `StationSetup.cfg` | an event while the list is being edited reads outside it; so does the right button of a page for two, brought back by a timer, when one dispenser was accepted |
| `PricesSaved` | `StationSetup.cfg` | the save of a price fails: customers pay the new price until the restart and the old one after it |
| `ConfirmedOnce` | `PrimeRepeated.cfg` (more than 5 minutes) | two polls carry the whole order: its order_created is visited again, the new record is not finalized, and the terminal is told a second time |
| `SaleIsComplete` without `untimely` | `PrimeRepeated.cfg` | a left-over start flag authorises an order before its product is known: no gauge is asked, and the sale goes out without the reading before fuelling |
| `NeverOvercharged` | `FuelDelivery.cfg` | the end of the last order is visited again on the record of the next, whose own order_created is not heeded because a timer has cleared the chosen dispenser; STATUS then finalizes with the old amount |
| `SaleIsComplete` without `OneOnTank` | `PrimeOrder.cfg` | two dispensers on one tank: reporting one sale erases the gauge task of the other order, whose sale goes out without the reading before fuelling |
| `DeliveryReportedOnce` without `repeated` | `PrimeOrder.cfg` | the end of an order is polled a second time after its sale was sent: a status answer that still names the order creates the pending sale again, and the new gauge task sends it, although `order_finalized` is there so that the same order is not recorded twice (`types.hpp:103`) |
| `SaleIsComplete` without the hung nozzle in `untimely` | `PrimeReported.cfg` with `MaxLifts = 2` | the nozzle is hung up after the order was created; STATUS says IDLE, so the product stays unknown, and AUTHORIZED asks no gauge |
| `ReportedOnce` | `PrimeReported.cfg` with 4 touches | Cancel crosses the start of fuelling: the order is reported as returned, then as delivered |
| `DeadOrdersOnly` (a PROPERTY) | `PrimeReported.cfg` | a new order is closed as dead because its event is not polled yet |
| `TapWithoutDispenserCleared` | `ArkaimPendingKept.cfg` | a card tapped without a chosen dispenser is cleared before its answer fills it in: it stays and pays the next order, although `PrimeLogic.cpp:383` clears it for that reason |
| `PayingCardKept` | `ArkaimPendingKept.cfg` | the map stores the card that is present when the answer comes, not the one charged |
| `TransactionHasCard` | `ArkaimLogic.cfg` | the card is reset between the test in `tryProcessPendingPayment` and its use: the transaction goes out without a card |
| `ChargedOnce` | `ArkaimLogic.cfg` | a transaction is on its way and `tryProcessPendingPayment` is called again: the order is charged twice, and of the two charges one is lost in the ways `ChargeKeptForSettling` names |
| `PinOfItsCard` without `misread` | `ArkaimLogic.cfg` | an answer to RESOLVE that cannot be parsed leaves a card number without the flag; its PIN is typed, the next card replaces the number, and its transaction carries the old PIN |
| `NeverForgotten` | `PrimeChannel.cfg` | the first question about a task fails: nobody asks again |
| `EveryTaskIsRead` | `PrimeOrder.cfg` | the query of a gauge fails: its task waits without a question |
| `StopEndsWorker` (a PROPERTY) | `MessagePolling.cfg` | `stop()` between the worker's test and its wait: the worker sleeps on, `join` hangs |
| `OrderedWasShown` (a PROPERTY) | `DwinDisplay.cfg` | digits typed on the volume pad, the page turned, Enter on the price pad: it passes on digits that its field never showed |
| `QuitEnds` (a PROPERTY) | `MessagePolling.cfg` | the tick re-arms itself for ever; `ioThread.join()` does not return |

`SaleIsComplete` without `Unread` is not violated within the bounds of
`PrimeOrder.cfg`, where one order of a dispenser is followed to its report. It is
violated from the state which a first order leaves whose query before fuelling
failed: its last task is still in the queue, takes the reading meant for the
second order of the same dispenser, and the report erases the rest, so that the
second sale goes out without its first reading.

Two lines of `PrimeLogic` act on the dispenser chosen at the time rather than
on the one concerned: a failed payment closes the order of the chosen dispenser
(`PaymentFailure`), a low tank level cancels the transaction of the chosen one
(`LowVolumeAnswer`). The models have both; nothing in the repository says what
is intended, so no property is stated. `waiting_pin_for_balance` survives
`resetCardState` in the same way: the PIN typed for the next payment is then
sent as a balance request. After a restart the start page is that of the old
`amount_trk`, which `handleAcceptSelectedTRK` does not save.

Below the models' detail, and worth a reviewer's eye: a null order id when the
PIN request for a balance cannot be sent (`ArkaimLogic.cpp:787`), the iterator
`end()` at `PrimeLogic.cpp:1447`, the body of a repeated request appended to what
the first attempt had read (`HttpTransport.cpp:195`) and parsed without a guard,
a frame from the display with length 0 (`DwinParser.cpp:53`), frames without a
checksum, balances and card numbers wider than their fields
(`DwinCommands.hpp:163`), and the frame of `PLAY_SOUND` (`DwinParser.cpp:172`).

## 4. Proofs

All theorems hold for every value of the constants, under the `ASSUME`s of the
modules (TLC evaluates them in every run).

* `DisplayProofs` follows the way of a touch: the serial port, the frames and
  the pin pads, the core queue. It extends `DwinDisplay`, `SerialTransport` and
  `MessageLayer`, which share no variable; the names of the latter two begin with
  `Port` and `Layer` where all three would have the same.
  * `SerialInv` adds to the named invariants of the port what links the busy flag
    with the operations asio holds and with the head of the queue: a pending
    write or timer implies a frame in front, a posted close a stopped transport.
    Without that link `NotStuck` is not inductive: a completion handler could
    find an empty queue. From it `SerialTypes`, `OneOperationHolds`,
    `NotStuckHolds`, `BurstBoundedHolds`, and `TransportImplementsPipe`, which maps
    the write queue to the pipe's and shows every step to be a put, a delivery, a
    flush or a stutter.
  * `TouchesKept` and `TouchesOrdered`. The bytes on their way (in the parser's
    buffer and on the line) are a concatenation of items, a frame or a stray
    byte each, no two stray bytes in a row; so are the messages not handled yet,
    and the touches of all those items are `pending`, in order (`SentInv`). The
    parser cuts the first item off or waits: that a frame is never taken for a
    stray byte, nor a stray byte with part of a frame for a header, is read off
    the bytes (`FirstIs`, `HeaderIsFrame`, `GarbageIsStray`). How bytes split into
    items is a function from items to positions (`CutAt`), which avoids an
    induction. Assumed: frames carry bytes (`TouchAssumption`), pieces are not
    empty, stray bytes are bytes.
  * `PinpadNumber`: the typed text stays a number with at most one comma and two
    decimals, which is inductive. `OrderedShown` needs `FieldIsBuffer` besides: the
    field written last shows the buffer.
  * `WakeupsArrive`. `LayerInv` says of each consumer that is blocked over a
    non-empty queue that a notification is on its way: some producer stands
    between its push and its notify. `HttpTransport::send` notifies after it
    releases the mutex, which is why the producers' positions are part of it.
* `BosSyncProofs`: the property "at most twice" needs to know where a request
  is: a request not yet in the worker was accepted 0 times, one in its first
  attempt 0 times, in its second at most once; requests in queue and worker are
  distinct and name existing rows; a positive response belongs to an accepted
  record with its number. From it `AtMostTwice` and `SentIsSomething`.
* `StationSetupProofs`: `PricesStayInStep` and `RestartsRestore`. Neither is
  inductive, since the file is read at the start and the memory filled later,
  by the controller's answers, while saves fail and files are lost. `IInv` says
  what holds in between: the file holds the list and the prices saved last, or is
  lost (`FileAsSaved`); no price is edited before the products have come, and
  until then what was read at the start is what was saved last, but for what was
  not saved since (`PriceInv`); so is the list in memory, unless it is being
  edited, its save failed or the devices have come to stand for an empty list
  (`ListInv`). Nothing is assumed of the number of failures and restarts.
* `PrimeChannelProofs`: two independent invariants. `SessionInv`, for
  `OneRefusalPerExpiry`: while anything about the session is stale (the cookie,
  the cookie of the request in hand, the digest it is repeated with), the
  request that the latest expiry may cost is not yet counted. `TriesInv`, for
  `TwoExecutions`: a command is unsent, in the queue once, or in hand; before
  its first try it was executed 0 times, in any later one at most once.
  On top of it `WatchInv`, for `TasksStayWatched`, keeps a balance (`Balanced`):
  the timers, questions and answers under way for a task, with the questions
  that failed, are at least as many as its unfinished answers, and one more once
  the task is started. An unfinished answer takes one away and brings two, a
  failed question takes one away and is counted.
* `ArkaimLogicProofs`: one invariant for each piece of state that both threads
  write. `CardInv` (`OneCardResolved`, `PinsStayWithCards`): the resolve flag is
  up as long as the terminal owes the answer to a RESOLVE, and no card counts as
  resolved meanwhile (`ResolveFlagged`), so a new card comes only where the last
  one was reset. A PIN that is not the card's is about to be cleared by a thread
  inside `resetCardState` (`PinKept`), and what `sendTransaction` has read of the
  card is the PIN's card or none until it reads the PIN (`FrameOK`): the core
  thread brings no card in, and the poll thread does not while it sends.
  `ChargeInv` (`OwnTransactionSettled`, `ChargesKept`, and the
  action property `SettledIsFinal`): request ids and transactions are apart, and
  the map holds under each order a transaction that was charged for that order
  and that the terminal has not settled. `PendingInv` (`CancelledOnce`): a
  payment is pending only for an order that was asked for, and not for one that
  was cancelled; this is the only place where the caller's promise is needed.
* `FuelReceptionProofs`: `ReceptionReported`, `SaleReadInOrder`. An answer does
  not say who asked for it, so no invariant can follow a question to its
  answer. What saves the readings is that requests and answers are queues.
  `Since` says that whatever reading of a gauge is still to come, behind a given
  answer, is not older than a given moment; `QueueInv` says it of each answer in
  the queue, `KeptInv` of each thing the program holds (stored readings, events
  being visited, tasks, sales). `ReceptionInv` then compares the two readings of
  a reception.
* `PrimeLogicProofs`: `TasksAreAsked` counts, for each gauge, the tasks and the
  questions and answers on their way. Its lemmas sort all actions into three
  shapes: those that queue tasks together with their question (`Asks`), the
  answer that takes a task (`Reads`), the controller turning a question into an
  answer, or its failure, which `failed` counts (`Serves`). `OneConfirmPerRecord` needs `RecordInv`: the journal creates
  an order on one dispenser only (`LogInv`), whatever is or will be visited is in
  the journal (`HeardInv`), so two dispensers never hold records of the same
  order (`OwnOrder`), and an unfinalized record is one more than the confirmations
  (`CountInv`). `OneReportPerConfirmation` stands on it: only the gauge task of
  an order's end sends its sale, and that task is queued only for a finalized
  record (`FinalInv`), so it does not suffice to count reports and confirmations;
  `AfterInv` says that as long as such a task waits, it waits for the tank of the
  order's own dispenser and a confirmation is still without its report, unless
  the order was cancelled or its end repeated. That nothing is assumed about the
  dispensers on a tank is what the proof adds to the run, which has one tank.
  `SaleComplete` is the longest argument of the project. It follows one order
  from the journal to its report with `Sound`, an invariant in four parts:
  `Begins` (once the order's AUTHORIZED event is visited, the reading before
  fuelling is queued or taken; until then the event is still to be visited,
  `NotYet`), `Closing` (when the record is closed, the nozzle was hung
  up after the order's creation and the reading of an authorized order is safe),
  `Ending` (a task that sends the sale stands behind the order's first reading)
  and `Earlier` (a task another order left in the gauge's queue gets its reading
  before any answer to a poll from after this order's creation is handled, so
  that no old task is taken for a new one). The last part is where order
  matters: it counts tasks and questions up to a position of a queue
  (`CountBefore`), and rests on `EveryTaskIsAsked` and on requests and answers
  being queues. All of it stands on `Ground`, which is about every order:
  the journal is numbered and well formed (`JournalInv`), what is paid, answered
  and recorded belongs to orders that were created (`PaidInv`, `AnswerInv`,
  `RecordOnce`, `SaleInv`), a paid order's product is known when it is authorized
  (`ProductInv`, `ConfirmInv`), and polls tell the journal without gaps
  (`StreamInv`, `VisitInv`). The hypotheses are those of the property; section 3
  has the counterexamples for two dispensers on a tank, for failed queries of the
  gauge and for untimely orders. Requests that fail elsewhere are harmless: the
  argument uses only that answers, if they come, come in order.
* `FuelDeliveryProofs`: `WithinDelivered`, `ToldExact` and the action property
  `FalseAlarms`. The answers to two polls may tell the same stretch of the
  journal, and a status answer may be older than either. `StreamInv` says that
  whatever is visited is a stretch of the journal and that every stretch reaches
  at least as far as the one before; `FreshInv` that a stretch telling of the
  next order of a dispenser is queued behind every status answer that still names
  the last one. So when a status answer finalizes an order, the record is still
  that order's: `RecordBounded` (its amount was delivered for it, unless an event
  from before its creation was written over it) and `RecordExact` (it is the final
  amount once the end of the order has been visited) then give the two
  invariants. `DisplayHeeded`: where a dispenser has been still for less
  time than the supervision counts, its last display event is not yet visited or
  was visited while another dispenser was chosen.
* Two more results on invariants above: `AcceptedListsRead` of
  `StationSetupProofs` (`PageInv`: outside editing the page index is within the
  list) and `InOrder` of `BosSyncProofs`, an action property (`OrderInv`: the
  requests of a table wait in the order of their ids, and the server has no
  record from the first waiting one on).

Only model-checked: all liveness (`QueueDrains`, `EveryRequestEnds`,
`QueuesAreServed`, `QuestionsEnd`, `PageFollowsTank`), as fairness is out of the
prover's reach.

## 5. Not modelled

Vendored libraries: of the 182,000 lines of the repository all but about 8,800
are third-party code (`include/+infrastructure`, `nlohmann::json` twice, SQLite,
generated protobuf), which the models use from outside; a share of all lines
would say nothing about the program. Of the program itself: logging, receipts and
printing, pages that only show values, the loading of constant settings, API
discovery of the card terminal, `DwinParser::serialize`, basic authentication,
and the functions without a caller (`getUnsent`, `update`, `deleteById`,
`handleBosMetrological`). Of the data races between poll and core thread the
interleaving of the accesses to card, PIN and payment is modelled; a string or a
container torn by a simultaneous write is below the models' detail.

## 6. Plan

1. `FuelStation`: `PrimeLogic` and `ArkaimLogic` composed, which discharges the
   promises that `ArkaimLogic` assumes of its caller.
2. `DwinParser::serialize` (the frame of `PLAY_SOUND` announces a byte more
   than it carries) in `DwinDisplay`, with a display that reads frames.
