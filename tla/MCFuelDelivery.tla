---------------------------- MODULE MCFuelDelivery ----------------------------
(* One dispenser, two orders of it.                                        *)
EXTENDS FuelDelivery, TLC

CONSTANTS d1, o1, o2
OneDispenser == {d1}
TwoOrders == {o1, o2}

E(i, d, w, s, o, a) == [id |-> i, dev |-> d, what |-> w, status |-> s, order |-> o, amount |-> a]

(***************************************************************************)
(* The events of the order o: its customer chose the dispenser, typed a    *)
(* volume and touched Next, and the fuel flowed in two steps.              *)
(***************************************************************************)
LogOf(d, o) ==
  <<E(1, d, "status", "NOZZLE_UP", NoOrder, 0), E(2, d, "created", "READY", o, 0),
    E(3, d, "changed", "AUTHORIZED", o, 0), E(4, d, "status", "FUELLING", NoOrder, 0),
    E(5, d, "display", "", NoOrder, 1), E(6, d, "display", "", NoOrder, 2)>>

\* It was delivered, and another customer lifted the nozzle.
LogToNext(d, o) ==
  LogOf(d, o) \o
  <<E(7, d, "changed", "DELIVERED", o, 2), E(8, d, "status", "COMPLETE", NoOrder, 0),
    E(9, d, "status", "IDLE", NoOrder, 0), E(10, d, "status", "NOZZLE_UP", NoOrder, 0)>>

\* It was interrupted, and another customer lifted the nozzle and typed a volume.
LogInterrupted(d, o, n) ==
  LogOf(d, o) \o
  <<E(7, d, "status", "IDLE", NoOrder, 0), E(8, d, "changed", "INTERRUPTED", o, 2),
    E(9, d, "status", "NOZZLE_UP", NoOrder, 0), E(10, d, "created", "READY", n, 0)>>

\* The dispenser d is chosen and the events es of it, all visited, have come.
Quiet(d, es, st) ==
  /\ current = d
  /\ status = [x \in Dispensers |-> st]
  /\ paused = [x \in Dispensers |-> FALSE]
  /\ last_event = Len(es) /\ waiting = FALSE
  /\ batch = <<>>
  /\ log = es
  /\ dropped = {} /\ overwritten = {}

\* It delivers o, and the display has changed once.
Fuelling(d, o) ==
  /\ Quiet(d, SubSeq(LogOf(d, o), 1, 5), "FUELLING")
  /\ age = [x \in Dispensers |-> 0] /\ still = age
  /\ orders = [x \in Dispensers |-> [id |-> o, status |-> "AUTHORIZED", amount |-> 1,
                                     fact |-> 1, finalized |-> FALSE]]
  /\ requests = <<>> /\ responses = <<>> /\ touches = 2
  /\ srv = [x \in Dispensers |-> [status |-> "FUELLING", order |-> o, ostatus |-> "AUTHORIZED"]]
  /\ poured = [x \in Orders |-> IF x = o THEN 1 ELSE 0]
  /\ confirmed = [x \in Orders |-> {}]

\* It has delivered o, and the next customer has just typed a volume.
NextCustomer(d, o) ==
  /\ Quiet(d, LogToNext(d, o), "NOZZLE_UP")
  /\ age = [x \in Dispensers |-> Timeout] /\ still = age
  /\ orders = [x \in Dispensers |-> [id |-> o, status |-> "DELIVERED", amount |-> 2,
                                     fact |-> 2, finalized |-> TRUE]]
  /\ requests = <<[cmd |-> "CREATE", dev |-> d]>> /\ responses = <<>> /\ touches = 2
  /\ srv = [x \in Dispensers |-> [status |-> "NOZZLE_UP", order |-> NoOrder, ostatus |-> ""]]
  /\ poured = [x \in Orders |-> IF x = o THEN 2 ELSE 0]
  /\ confirmed = [x \in Orders |-> IF x = o THEN {[amount |-> 2, told |-> TRUE]} ELSE {}]

(***************************************************************************)
(* The order o was interrupted, and its end was polled so often, each time *)
(* by a tick while the answer before was worked off, that an answer with   *)
(* the end of o waits behind one that has made the record of the order n.  *)
(***************************************************************************)
Repeated(d, o, n) ==
  /\ Quiet(d, LogInterrupted(d, o, n), "NOZZLE_UP")
  /\ age = [x \in Dispensers |-> Timeout] /\ still = age
  /\ orders = [x \in Dispensers |-> [id |-> n, status |-> "READY", amount |-> 0,
                                     fact |-> 0, finalized |-> FALSE]]
  /\ requests = <<[cmd |-> "STATUS", dev |-> d]>> /\ touches = 1
  /\ responses = <<[kind |-> "events", events |-> SubSeq(log, 8, 10)],
                   [kind |-> "status", dev |-> d, status |-> "NOZZLE_UP", order |-> n,
                    ostatus |-> "READY"]>>
  /\ srv = [x \in Dispensers |-> [status |-> "NOZZLE_UP", order |-> n, ostatus |-> "READY"]]
  /\ poured = [x \in Orders |-> IF x = o THEN 2 ELSE 0]
  /\ confirmed = [x \in Orders |-> {}]

DeliverySpec ==
  /\ \/ Init
     \/ \E d \in Dispensers, o \in Orders :
          \/ Fuelling(d, o) \/ NextCustomer(d, o)
          \/ \E n \in Orders \ {o} : Repeated(d, o, n)
  /\ [][Next]_vars

\* The initial states and Next treat the orders alike.
Symmetry == Permutations(Orders)
=============================================================================
