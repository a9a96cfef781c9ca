----------------------------- MODULE MCPrimeLogic -----------------------------
(* Small stations for TLC: their dispensers draw from one tank.            *)
EXTENDS PrimeLogic, TLC

CONSTANTS d1, d2, o1, o2, lg

OneDispenser == {d1}
TwoDispensers == {d1, d2}
OneOrder == {o1}
TwoOrders == {o1, o2}
OneGauge == {lg}
SharedTank == [d \in Dispensers |-> lg]

(***************************************************************************)
(* A busy station: y is paid on b and its customer has touched Next.       *)
(* Either y has just been authorised, while the dispenser a delivers the   *)
(* fuel of x; or x is over, which was not polled yet, and a poll and the   *)
(* request that authorises y are on their way.  They got there by choosing *)
(* a dispenser and typing a volume; every answer of the controller was     *)
(* handled, the gauge reading before x included.                           *)
(***************************************************************************)
BusyLog(a, b, x, y, over) ==
  LET e(i, d, w, s, o) == [id |-> i, dev |-> d, what |-> w, status |-> s, order |-> o]
  IN  <<e(1, a, "status", "NOZZLE_UP", NoOrder),
        e(2, a, "created", "READY", x),
        e(3, a, "changed", "AUTHORIZED", x),
        e(4, a, "status", "FUELLING", NoOrder),
        e(5, b, "status", "NOZZLE_UP", NoOrder),
        e(6, b, "created", "READY", y)>>
      \o (IF over THEN <<e(7, a, "changed", "DELIVERED", x),
                         e(8, a, "status", "COMPLETE", NoOrder)>>
          ELSE <<e(7, b, "changed", "AUTHORIZED", y)>>)

\* f requests about dispensers have failed before.
Before(f) == [g \in Gauges \cup {NoGauge} |-> IF g = NoGauge THEN f ELSE 0]

BusyOrder(o, s) == [id |-> o, status |-> s, product |-> TRUE,
                    finalized |-> FALSE, closed |-> FALSE]

Busy(a, b, x, y, over) ==
  /\ current = b
  /\ disp = a :> [status |-> "FUELLING", order_id |-> x, product |-> TRUE]
            @@ b :> [status |-> "NOZZLE_UP", order_id |-> y, product |-> TRUE]
  /\ orders = a :> BusyOrder(x, "AUTHORIZED") @@ b :> BusyOrder(y, "READY")
  /\ sales = x :> [type |-> "", before |-> TRUE] @@ y :> [type |-> "", before |-> FALSE]
  /\ gauge_queue = [g \in Gauges \cup {NoGauge} |-> <<>>]
  /\ asked = {x, y}
  /\ ready = FALSE /\ next = FALSE /\ waiting = FALSE /\ timer = FALSE
  /\ last_event = 6
  /\ batch = <<>>
  /\ requests = (IF over THEN <<[cmd |-> "EVENTS", from |-> 6]>> \o Command("authorize", b)
                 ELSE <<>>)
  /\ responses = <<>>
  /\ page = "ready"
  /\ srv = a :> (IF over THEN [status |-> "COMPLETE", order |-> x, ostatus |-> "DELIVERED"]
                 ELSE [status |-> "FUELLING", order |-> x, ostatus |-> "AUTHORIZED"])
           @@ b :> [status |-> "NOZZLE_UP", order |-> y,
                    ostatus |-> IF over THEN "READY" ELSE "AUTHORIZED"]
  /\ log = BusyLog(a, b, x, y, over)
  /\ pay = [o \in Orders |-> "paid"]
  /\ settling = {}
  /\ cancelled = {}
  /\ records = [o \in Orders |-> 1]
  /\ confirms = [o \in OrderOrNone |-> 0]
  /\ reports = [o \in OrderOrNone |-> <<>>]
  /\ untimely = {} /\ repeated = {}
  /\ failed = Before(MaxFailed)
  /\ touches = MaxTouches /\ lifts = MaxLifts

InitBusy ==
  \E a, b \in Dispensers, x, y \in Orders, over \in BOOLEAN :
    a # b /\ x # y /\ Busy(a, b, x, y, over)

(***************************************************************************)
(* A customer at the dispenser d: chosen, its order x created, visited and *)
(* asked about, the charge not answered yet; n touches are counted, and f  *)
(* requests have failed.                                                   *)
(***************************************************************************)
Charging(d, x, n, f) ==
  /\ current = d
  /\ disp = [c \in Dispensers |->
               IF c = d THEN [status |-> "NOZZLE_UP", order_id |-> x, product |-> TRUE]
                        ELSE [status |-> "IDLE", order_id |-> NoOrder, product |-> FALSE]]
  /\ orders = [c \in Dispensers |-> IF c = d THEN BusyOrder(x, "READY") ELSE DefaultOrder]
  /\ sales = x :> [type |-> "", before |-> FALSE]
  /\ gauge_queue = [g \in Gauges \cup {NoGauge} |-> <<>>]
  /\ asked = {x}
  /\ ready = TRUE /\ next = FALSE /\ waiting = FALSE /\ timer = FALSE
  /\ last_event = 2
  /\ batch = <<>>
  /\ requests = <<>> /\ responses = <<>>
  /\ page = "other"
  /\ srv = [c \in Dispensers |->
              IF c = d THEN [status |-> "NOZZLE_UP", order |-> x, ostatus |-> "READY"]
                       ELSE [status |-> "IDLE", order |-> NoOrder, ostatus |-> ""]]
  /\ log = SubSeq(BusyLog(d, d, x, x, FALSE), 1, 2)
  /\ pay = [o \in Orders |-> IF o = x THEN "asked" ELSE "none"]
  /\ settling = {}
  /\ cancelled = {}
  /\ records = [o \in Orders |-> IF o = x THEN 1 ELSE 0]
  /\ confirms = [o \in OrderOrNone |-> 0]
  /\ reports = [o \in OrderOrNone |-> <<>>]
  /\ untimely = {} /\ repeated = {}
  /\ failed = Before(f)
  /\ touches = n /\ lifts = 1

InitCharging(n, f) == \E d \in Dispensers, x \in Orders : Charging(d, x, n, f)

ChargingSpec == InitCharging(2, 0) /\ [][Next]_vars

\* The station from power-on; with a customer who is paying and has one touch left
\* while a request may fail, or two; or busy.
StationSpec ==
  /\ \/ Init
     \/ InitCharging(MaxTouches - 1, 0)
     \/ InitCharging(MaxTouches - 2, MaxFailed)
     \/ InitBusy
  /\ [][Next]_vars

\* The initial states and Next treat the dispensers of the tank alike, and the orders.
Symmetry == Permutations(Dispensers) \cup Permutations(Orders)
=============================================================================
