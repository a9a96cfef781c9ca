-------------------------- MODULE FuelDeliveryProofs --------------------------
(***************************************************************************)
(* Proofs about FuelDelivery, for any dispensers and orders, any amount    *)
(* and any number of touches, lifts, requests and answers: what the card   *)
(* terminal is told of an order, and when the supervision may be wrong.    *)
(*                                                                         *)
(* The amounts come in stretches of the controller's log that may overlap, *)
(* while a status answer is given once.  What holds the argument together  *)
(* is the order of the answers: a stretch that tells of the next order of  *)
(* a dispenser is queued behind every status answer that still names the   *)
(* last one, and every stretch reaches at least as far as the one before.  *)
(***************************************************************************)
EXTENDS FuelDelivery, TLAPS

Indices == 1..Len(log)

\* The event k of the log is the creation of an order on d.
CreatesOn(k, d) == log[k].what = "created" /\ log[k].dev = d
Creates(k, d, o) == CreatesOn(k, d) /\ log[k].order = o

\* The event k of the log is the end of its order.
Ends(k) == log[k].what = "changed" /\ log[k].status \in Finished

\* No order was created on d after o, up to the event x.
Unreplaced(o, d, x) ==
  \A c, j \in Indices : Creates(c, d, o) /\ c < j /\ j <= x => ~CreatesOn(j, d)

\* The order o is the last one created on d up to the event x.
Owner(o, d, x) ==
  /\ \E c \in Indices : c <= x /\ Creates(c, d, o)
  /\ Unreplaced(o, d, x)

-----------------------------------------------------------------------------
(* The controller and its log.                                             *)

\* Each event has its number, and the status of a dispenser or of an order.
Numbered ==
  \A k \in Indices :
    /\ log[k].id = k
    /\ log[k].what = "status" => log[k].status \in Statuses
    /\ log[k].what = "changed" => log[k].status \in OrderStatuses

CreatedOnce ==
  \A j, k \in Indices :
    /\ log[j].what = "created" => log[j].order \in Orders
    /\ log[j].what = "created" /\ log[k].what = "created" /\ log[j].order = log[k].order => j = k

\* An event that carries an amount belongs to the order created last before it,
\* and says no more than was delivered for that order; its end says exactly that.
AmountsOwned ==
  \A k \in Indices : \A d \in Dispensers : log[k].dev = d =>
    /\ log[k].what = "display" =>
         \E o \in Orders : Owner(o, d, k) /\ log[k].amount <= poured[o]
    /\ log[k].what = "changed" =>
         \E o \in Orders : log[k].order = o /\ Owner(o, d, k)
    /\ Ends(k) => log[k].amount = poured[log[k].order]

\* After the end of an order no amount is shown before the next one is created.
EndIsLast ==
  \A k, e \in Indices : \A d \in Dispensers :
    /\ Ends(k) /\ k < e
    /\ log[k].dev = d /\ log[e].dev = d
    /\ log[e].what = "display" \/ Ends(e)
    => \E j \in Indices : k < j /\ j <= e /\ CreatesOn(j, d)

ServerOrder ==
  \A d \in Dispensers :
    /\ \A o \in Orders, x \in Nat : srv[d].order = o /\ x >= Len(log) => Owner(o, d, x)
    /\ srv[d].ostatus # "" => srv[d].order \in Orders
    /\ srv[d].status = "FUELLING" => srv[d].ostatus = "AUTHORIZED"
    /\ \A k \in Indices : Ends(k) /\ log[k].order = srv[d].order => srv[d].ostatus \in Finished

LogInv == Numbered /\ CreatedOnce /\ AmountsOwned /\ EndIsLast /\ ServerOrder

-----------------------------------------------------------------------------
(* The answers of GET_EVENTS.                                              *)

\* The events s are a stretch of the log l.
StretchOf(s, l) ==
  \A j \in 1..Len(s) : s[j].id \in 1..Len(l) /\ s[j] = l[s[j].id] /\ s[j].id = s[1].id + (j - 1)
Stretch(s) == StretchOf(s, log)

\* The last event that was visited or is to be visited in this answer.
Reach == IF batch = <<>> THEN last_event ELSE batch[Len(batch)].id

Filled(r) == r.kind = "events" /\ r.events # <<>>
LastOf(r) == r.events[Len(r.events)].id

\* The answer in hand goes on where the last visit was, or further back.
BatchInv ==
  /\ Stretch(batch)
  /\ batch # <<>> => batch[1].id <= last_event + 1
  /\ last_event <= Reach /\ Reach <= Len(log) /\ Reach \in Nat

\* No event is left out by what is asked for.
AskedInv ==
  \A i \in 1..Len(requests) : requests[i].cmd = "EVENTS" => requests[i].from <= Reach

\* No event is left out between two answers, and each reaches at least as far.
AnswersInv ==
  /\ \A i \in 1..Len(responses) : Filled(responses[i]) =>
       /\ Stretch(responses[i].events)
       /\ responses[i].events[1].id <= Reach + 1 /\ Reach <= LastOf(responses[i])
  /\ \A i, j \in 1..Len(responses) :
       i < j /\ Filled(responses[i]) /\ Filled(responses[j])
         => LastOf(responses[i]) <= LastOf(responses[j])

AnswersFor(r, d, o) == r.kind = "status" /\ r.dev = d /\ r.order = o

\* A status answer that names an order was given before any order was created
\* after it on that dispenser, so before the answers of GET_EVENTS that tell of one.
FreshInv ==
  \A i \in 1..Len(responses) : \A d \in Dispensers : \A o \in Orders :
    AnswersFor(responses[i], d, o) =>
      \A x \in Nat :
        \/ x <= Reach
        \/ \E j \in 1..Len(responses) : j < i /\ Filled(responses[j]) /\ x <= LastOf(responses[j])
        => Unreplaced(o, d, x)

StreamInv == BatchInv /\ AskedInv /\ AnswersInv

-----------------------------------------------------------------------------
(* The records.                                                            *)

\* No answer will name the order o of d any more.
Dead(d, o) ==
  /\ srv[d].order # o
  /\ \A i \in 1..Len(responses) : ~AnswersFor(responses[i], d, o)

OwnOrder ==
  \A d \in Dispensers : \A o \in Orders :
    orders[d].id = o => \E c \in Indices : Creates(c, d, o)

RecordBounded ==
  \A d \in Dispensers : \A o \in Orders :
    orders[d].id = o /\ o \notin overwritten => orders[d].fact <= poured[o] \/ Dead(d, o)

RecordExact ==
  \A d \in Dispensers : \A o \in Orders : \A k \in Indices :
    orders[d].id = o /\ Ends(k) /\ log[k].order = o /\ k <= Reach =>
      \/ batch # <<>> /\ batch[1].id <= k
      \/ orders[d].fact = poured[o]
      \/ Dead(d, o)

ToldEnded ==
  \A o \in Orders : \A c \in confirmed[o] :
    c.told => \E k \in Indices : Ends(k) /\ log[k].order = o

\* The supervision of d is no older than its display, or the last change of the
\* display is to be visited, or was visited when d was not chosen.
DisplayHeeded ==
  \A d \in Dispensers :
    \/ LastDisplay(d) > last_event
    \/ LastDisplay(d) \in dropped
    \/ age[d] <= still[d]

-----------------------------------------------------------------------------
(* Data.                                                                   *)

LEMMA Concat ==
  ASSUME NEW S, NEW s \in Seq(S), NEW t \in Seq(S)
  PROVE  /\ s \o t \in Seq(S) /\ Len(s \o t) = Len(s) + Len(t)
         /\ \A i \in 1..Len(s) : (s \o t)[i] = s[i]
         /\ \A i \in 1..Len(t) : (s \o t)[Len(s) + i] = t[i]
  OBVIOUS

LEMMA TailFacts ==
  ASSUME NEW S, NEW s \in Seq(S), s # <<>>
  PROVE  /\ Tail(s) \in Seq(S) /\ Len(Tail(s)) = Len(s) - 1
         /\ Head(s) = s[1] /\ s[1] \in S /\ Len(s) \in Nat \ {0}
         /\ \A i \in 1..Len(s) - 1 : Tail(s)[i] = s[i + 1]
  OBVIOUS

LEMMA TailDiffers ==
  ASSUME NEW S, NEW s \in Seq(S), s # <<>>
  PROVE  Tail(s) # s
<1>1. Len(Tail(s)) = Len(s) - 1 /\ Len(s) \in Nat BY TailFacts
<1>2. \A n \in Nat : n - 1 # n OBVIOUS
<1> QED BY <1>1, <1>2

LEMMA Replace ==
  ASSUME NEW S, NEW T, NEW f \in [S -> T], NEW a \in S, NEW v \in T
  PROVE  [f EXCEPT ![a] = v] \in [S -> T]
  OBVIOUS

LEMMA Responses ==
  /\ \A r \in Response :
       /\ r.kind \in {"events", "status"}
       /\ r.kind = "events" => r.events \in Seq(Event)
       /\ r.kind = "status" => /\ r.dev \in Dispensers /\ r.status \in Statuses
                               /\ r.order \in OrderOrNone /\ r.ostatus \in OrderStatuses
  /\ \A es \in Seq(Event) : [kind |-> "events", events |-> es] \in Response
  /\ \A d \in Dispensers, s \in Statuses, o \in OrderOrNone, t \in OrderStatuses :
       [kind |-> "status", dev |-> d, status |-> s, order |-> o, ostatus |-> t] \in Response
  BY DEF Response

LEMMA AmountsAreNat == Amounts \subseteq Nat
  BY DeliveryBounds DEF Amounts

LEMMA EventFields ==
  \A e \in Event :
    /\ e.id \in Nat /\ e.dev \in Dispensers /\ e.order \in OrderOrNone /\ e.amount \in Nat
    /\ e.what \in {"status", "display", "changed", "created"}
    /\ e.amount \in Amounts /\ e.status \in Statuses \cup OrderStatuses
  BY AmountsAreNat DEF Event

LEMMA Requests ==
  /\ \A r \in Request : /\ r.cmd = "EVENTS" => r.from \in Nat
                        /\ r.cmd # "EVENTS" => r.dev \in Dispensers
  /\ \A n \in Nat : [cmd |-> "EVENTS", from |-> n] \in Request
  /\ \A c \in {"STATUS", "CREATE", "authorize", "close"}, d \in Dispensers \cup {None} :
       /\ Command(c, d) \in Seq(Request)
       /\ \A i \in 1..Len(Command(c, d)) : Command(c, d)[i].cmd # "EVENTS"
<1>1. \A n \in Nat : [cmd |-> "EVENTS", from |-> n] \in Request BY DEF Request
<1>2. \A r \in Request : /\ r.cmd = "EVENTS" => r.from \in Nat
                         /\ r.cmd # "EVENTS" => r.dev \in Dispensers
  BY DEF Request
<1>3. ASSUME NEW c \in {"STATUS", "CREATE", "authorize", "close"}, NEW d \in Dispensers \cup {None}
      PROVE  /\ Command(c, d) \in Seq(Request)
             /\ \A i \in 1..Len(Command(c, d)) : Command(c, d)[i].cmd # "EVENTS"
  <2>1. CASE d = None BY <2>1 DEF Command
  <2>2. CASE d # None
    <3>1. [cmd |-> c, dev |-> d] \in Request BY <2>2 DEF Request
    <3>2. Command(c, d) = <<[cmd |-> c, dev |-> d]>> BY <2>2 DEF Command
    <3> QED BY <3>1, <3>2
  <2> QED BY <2>1, <2>2
<1> QED BY <1>1, <1>2, <1>3

-----------------------------------------------------------------------------
(* The log.                                                                *)

Said == [dev : Dispensers, what : {"status", "display", "changed", "created"},
         status : Statuses \cup OrderStatuses, order : OrderOrNone, amount : Amounts]

\* The log only grows.
Grows ==
  /\ log \in Seq(Event) /\ log' \in Seq(Event) /\ Len(log) <= Len(log')
  /\ \A i \in 1..Len(log) : log'[i] = log[i]

\* What the controller says is numbered and added to the log.
LEMMA LoggedEvents ==
  ASSUME log \in Seq(Event), NEW es \in Seq(Said), Logged(es)
  PROVE  /\ Grows /\ Len(log') = Len(log) + Len(es)
         /\ \A i \in 1..Len(es) :
              /\ log'[Len(log) + i].id = Len(log) + i
              /\ log'[Len(log) + i].dev = es[i].dev
              /\ log'[Len(log) + i].what = es[i].what
              /\ log'[Len(log) + i].status = es[i].status
              /\ log'[Len(log) + i].order = es[i].order
              /\ log'[Len(log) + i].amount = es[i].amount
<1> DEFINE new(i) == [id |-> Len(log) + i, dev |-> es[i].dev, what |-> es[i].what,
                      status |-> es[i].status, order |-> es[i].order, amount |-> es[i].amount]
           news == [i \in 1..Len(es) |-> new(i)]
<1>1. Len(log) \in Nat /\ Len(es) \in Nat OBVIOUS
<1>2. ASSUME NEW i \in 1..Len(es) PROVE new(i) \in Event
  <2>1. es[i] \in Said /\ Len(log) + i \in Nat BY <1>1, <1>2
  <2> QED BY <2>1 DEF Said, Event
<1>3. news \in Seq(Event) BY <1>1, <1>2
<1>4. log' = log \o news BY DEF Logged
<1>5. Len(news) = Len(es) /\ \A i \in 1..Len(es) : news[i] = new(i) BY <1>1
<1> HIDE DEF news
<1>6. /\ log' \in Seq(Event) /\ Len(log') = Len(log) + Len(es)
      /\ \A i \in 1..Len(log) : log'[i] = log[i]
      /\ \A i \in 1..Len(es) : log'[Len(log) + i] = new(i)
  <2>1. /\ log \o news \in Seq(Event) /\ Len(log \o news) = Len(log) + Len(news)
        /\ \A i \in 1..Len(log) : (log \o news)[i] = log[i]
        /\ \A i \in 1..Len(news) : (log \o news)[Len(log) + i] = news[i]
    BY <1>3, Concat
  <2> QED BY <1>4, <1>5, <2>1
<1>7. Grows BY <1>1, <1>6 DEF Grows
<1>8. \A i \in 1..Len(es) :
        /\ new(i).id = Len(log) + i
        /\ new(i).dev = es[i].dev /\ new(i).what = es[i].what /\ new(i).status = es[i].status
        /\ new(i).order = es[i].order /\ new(i).amount = es[i].amount
  OBVIOUS
<1> HIDE DEF new
<1> QED BY <1>6, <1>7, <1>8

\* What the log said it goes on saying.
LEMMA Kept ==
  ASSUME Grows
  PROVE  /\ Indices \subseteq Indices' /\ Len(log) \in Nat /\ Len(log') \in Nat
         /\ \A k \in Indices : log'[k] = log[k]
         /\ \A k \in Indices : Ends(k)' = Ends(k)
         /\ \A k \in Indices, d \in Dispensers : CreatesOn(k, d)' = CreatesOn(k, d)
         /\ \A k \in Indices, d \in Dispensers, o \in Orders :
              Creates(k, d, o)' = Creates(k, d, o)
         /\ \A o \in Orders, d \in Dispensers, x \in Nat :
              x <= Len(log) => /\ Unreplaced(o, d, x) => Unreplaced(o, d, x)'
                               /\ Owner(o, d, x) => Owner(o, d, x)'
<1>1. /\ Indices \subseteq Indices' /\ Len(log) \in Nat /\ Len(log') \in Nat
      /\ \A k \in Indices : log'[k] = log[k]
  BY DEF Grows, Indices
<1>2. /\ \A k \in Indices : Ends(k)' = Ends(k)
      /\ \A k \in Indices, d \in Dispensers : CreatesOn(k, d)' = CreatesOn(k, d)
      /\ \A k \in Indices, d \in Dispensers, o \in Orders :
              Creates(k, d, o)' = Creates(k, d, o)
  BY <1>1 DEF Ends, CreatesOn, Creates
<1>3. ASSUME NEW o \in Orders, NEW d \in Dispensers, NEW x \in Nat, x <= Len(log),
             Unreplaced(o, d, x)
      PROVE  Unreplaced(o, d, x)'
  <2>1. \A j \in Indices' : j <= x => j \in Indices BY <1>1, <1>3 DEF Indices
  <2>2. ASSUME NEW c \in Indices', NEW j \in Indices', Creates(c, d, o)', c < j, j <= x
        PROVE  ~CreatesOn(j, d)'
    <3>1. c \in Indices /\ j \in Indices BY <1>1, <2>1, <2>2 DEF Indices
    <3> QED BY <1>2, <1>3, <2>2, <3>1 DEF Unreplaced
  <2> QED BY <2>2 DEF Unreplaced
<1>4. ASSUME NEW o \in Orders, NEW d \in Dispensers, NEW x \in Nat, x <= Len(log),
             Owner(o, d, x)
      PROVE  Owner(o, d, x)'
  BY <1>1, <1>2, <1>3, <1>4 DEF Owner
<1> QED BY <1>1, <1>2, <1>3, <1>4

\* Two orders cannot both be the last one created on a dispenser.
LEMMA OneOwner ==
  ASSUME log \in Seq(Event), CreatedOnce, NEW o \in Orders, NEW p \in Orders, NEW x \in Nat, NEW y \in Nat,
         NEW d \in Dispensers, Owner(o, d, x), Owner(p, d, y), x <= y, o # p
  PROVE  \E j \in Indices : x < j /\ j <= y /\ Creates(j, d, p)
<1>1. PICK a \in Indices : a <= x /\ Creates(a, d, o) BY DEF Owner
<1>2. PICK b \in Indices : b <= y /\ Creates(b, d, p) BY DEF Owner
<1>3. a # b BY <1>1, <1>2 DEF Creates
<1>4. a \in Nat /\ b \in Nat BY DEF Indices
<1>5. CASE b <= x
  <2>1. CASE a < b BY <1>1, <1>2, <1>5, <2>1 DEF Owner, Unreplaced, Creates
  <2>2. CASE b < a
    <3>1. a <= y BY <1>1, <1>4
    <3> QED BY <1>1, <1>2, <2>2, <3>1 DEF Owner, Unreplaced, Creates
  <2> QED BY <1>3, <1>4, <2>1, <2>2
<1>6. CASE b > x BY <1>2, <1>6
<1> QED BY <1>4, <1>5, <1>6

\* An order is created on one dispenser.
LEMMA OneDispenser ==
  ASSUME CreatedOnce, NEW o \in Orders, NEW d \in Dispensers, NEW e \in Dispensers,
         NEW b \in Indices, NEW c \in Indices, Creates(b, d, o), Creates(c, e, o)
  PROVE  b = c /\ d = e
  BY DEF CreatedOnce, Creates, CreatesOn

\* The order that the controller holds for d is the last one created on it.
LEMMA Holder ==
  ASSUME log \in Seq(Event), ServerOrder, NEW d \in Dispensers, NEW o \in Orders, srv[d].order = o
  PROVE  Owner(o, d, Len(log))
<1> DEFINE x == Len(log)
<1>1. x \in Nat /\ x >= Len(log) OBVIOUS
<1> HIDE DEF x
<1>2. Owner(o, d, x) BY <1>1, Zenon DEF ServerOrder
<1> QED BY <1>2 DEF x

NewEvents == Indices' \ Indices

\* The controller adds events of the order that d holds, and creates none.
AddsEvents(d) ==
  /\ \A k \in NewEvents :
       /\ log'[k].id = k /\ log'[k].what # "created"
       /\ log'[k].what = "status" => log'[k].status \in Statuses
       /\ log'[k].what = "changed" => log'[k].status \in OrderStatuses
       /\ log'[k].what \in {"display", "changed"} => log'[k].dev = d /\ srv[d].order \in Orders
       /\ log'[k].what = "changed" => log'[k].order = srv[d].order
       /\ log'[k].what = "display" => log'[k].amount <= poured'[srv[d].order]
       /\ Ends(k)' => /\ log'[k].amount = poured'[srv[d].order]
                      /\ srv'[d].ostatus \in Finished
       /\ log'[k].what = "display" \/ Ends(k)' => srv[d].ostatus = "AUTHORIZED"
  /\ \A j, k \in NewEvents : Ends(j)' /\ j < k => log'[k].what # "display" /\ ~Ends(k)'

\* Meanwhile the orders of the dispensers stay, and only that of d is poured.
KeepsOrders(d) ==
  /\ poured' \in [Orders -> Amounts]
  /\ \A o \in Orders :
       /\ poured[o] <= poured'[o]
       /\ poured'[o] # poured[o] => o = srv[d].order /\ srv[d].ostatus = "AUTHORIZED"
  /\ \A x \in Dispensers :
       /\ srv'[x].order = srv[x].order
       /\ srv'[x].ostatus # "" => srv[x].ostatus # ""
       /\ srv'[x].status = "FUELLING" => srv'[x].ostatus = "AUTHORIZED"
       /\ srv[x].ostatus \in Finished => srv'[x].ostatus \in Finished

LEMMA LogStep ==
  ASSUME TypeOK, LogInv, Grows, NEW d \in Dispensers, AddsEvents(d), KeepsOrders(d)
  PROVE  LogInv'
<1>1. /\ Indices \subseteq Indices' /\ Len(log) \in Nat /\ Len(log') \in Nat /\ Len(log) <= Len(log')
      /\ \A k \in NewEvents : k \in Nat /\ k > Len(log) /\ k <= Len(log')
      /\ \A k \in Indices : k \in Nat /\ k <= Len(log)
  BY DEF Grows, Indices, NewEvents
<1>2. /\ \A k \in Indices : log'[k] = log[k] /\ Ends(k)' = Ends(k)
      /\ \A k \in Indices, x \in Dispensers : CreatesOn(k, x)' = CreatesOn(k, x)
      /\ \A k \in Indices, x \in Dispensers, o \in Orders : Creates(k, x, o)' = Creates(k, x, o)
  BY Kept
<1>3. \A k \in Indices' : k \in Indices \/ k \in NewEvents BY DEF NewEvents
<1>4. "AUTHORIZED" \notin Finished /\ "" \notin Finished BY DEF Finished
<1>5. \A k \in Indices : log[k].dev \in Dispensers /\ log[k].amount \in Nat
  <2>1. log \in Seq(Event) BY DEF Grows
  <2>2. \A k \in Indices : log[k] \in Event BY <2>1 DEF Indices
  <2> QED BY <2>2, EventFields
<1>6. \A o \in Orders : poured[o] \in Nat /\ poured'[o] \in Nat
  <2>1. poured \in [Orders -> Amounts] /\ poured' \in [Orders -> Amounts]
    BY DEF TypeOK, KeepsOrders
  <2> QED BY <2>1, AmountsAreNat
<1>7. \A k \in Indices' : log'[k].what = "created" => k \in Indices /\ log[k].what = "created"
  BY <1>2, <1>3 DEF AddsEvents
<1>8. Numbered' BY <1>2, <1>3 DEF Numbered, AddsEvents, LogInv
<1>9. CreatedOnce' BY <1>2, <1>7 DEF CreatedOnce, LogInv
<1>10. \A k \in Indices', x \in Dispensers, o \in Orders :
         /\ CreatesOn(k, x)' => k \in Indices /\ CreatesOn(k, x)
         /\ Creates(k, x, o)' => k \in Indices /\ Creates(k, x, o)
  BY <1>2, <1>7 DEF CreatesOn, Creates
<1>11. ASSUME NEW x \in Dispensers, NEW o \in Orders, NEW y \in Nat, y >= Len(log),
              srv[x].order = o
       PROVE  Owner(o, x, y)'
  <2>1. Owner(o, x, y) BY <1>11 DEF LogInv, ServerOrder
  <2>2. \E c \in Indices' : c <= y /\ Creates(c, x, o)' BY <1>1, <1>2, <2>1 DEF Owner
  <2>3. Unreplaced(o, x, y)' BY <1>10, <2>1 DEF Owner, Unreplaced
  <2> QED BY <2>2, <2>3 DEF Owner
<1>12. \A o \in Orders, x \in Dispensers, k \in Indices : Owner(o, x, k) => Owner(o, x, k)'
  BY <1>1, Kept
<1>13. AmountsOwned'
  <2> SUFFICES ASSUME NEW k \in Indices', NEW x \in Dispensers, log'[k].dev = x
               PROVE  /\ log'[k].what = "display" =>
                           \E o \in Orders : Owner(o, x, k)' /\ log'[k].amount <= poured'[o]
                      /\ log'[k].what = "changed" =>
                           \E o \in Orders : log'[k].order = o /\ Owner(o, x, k)'
                      /\ Ends(k)' => log'[k].amount = poured'[log'[k].order]
    BY DEF AmountsOwned
  <2>1. CASE k \in Indices
    <3>1. log'[k] = log[k] /\ Ends(k)' = Ends(k) /\ log[k].dev = x BY <1>2, <2>1
    <3>2. /\ log[k].what = "display" =>
                           \E o \in Orders : Owner(o, x, k) /\ log[k].amount <= poured[o]
          /\ log[k].what = "changed" =>
                           \E o \in Orders : log[k].order = o /\ Owner(o, x, k)
          /\ Ends(k) => log[k].amount = poured[log[k].order]
      BY <2>1, <3>1 DEF AmountsOwned, LogInv
    <3>3. log[k].amount \in Nat BY <1>5, <2>1
    <3>4. \A o \in Orders : Owner(o, x, k) => Owner(o, x, k)' BY <1>12, <2>1
    <3>5. log[k].what = "display" =>
            \E o \in Orders : Owner(o, x, k)' /\ log[k].amount <= poured'[o]
      <4> SUFFICES ASSUME log[k].what = "display"
                   PROVE  \E o \in Orders : Owner(o, x, k)' /\ log[k].amount <= poured'[o]
        OBVIOUS
      <4>1. PICK o \in Orders : Owner(o, x, k) /\ log[k].amount <= poured[o] BY <3>2
      <4>2. poured[o] <= poured'[o] BY DEF KeepsOrders
      <4>3. log[k].amount <= poured'[o] BY <1>6, <3>3, <4>1, <4>2
      <4> QED BY <3>4, <4>1, <4>3
    <3>6. ASSUME Ends(k) PROVE log[k].amount = poured'[log[k].order]
      <4>1. log[k].order \in Orders BY <3>2, <3>6 DEF Ends
      <4>2. log[k].order = srv[d].order => srv[d].ostatus \in Finished
        BY <2>1, <3>6 DEF ServerOrder, LogInv
      <4> QED BY <1>4, <3>2, <3>6, <4>1, <4>2 DEF KeepsOrders
    <3> QED BY <3>1, <3>2, <3>4, <3>5, <3>6
  <2>2. CASE k \in NewEvents
    <3>1. k \in Nat /\ k >= Len(log) BY <1>1, <2>2
    <3>2. \A o \in Orders : srv[x].order = o => Owner(o, x, k)' BY <1>11, <3>1
    <3>3. Ends(k)' => log'[k].what = "changed" BY DEF Ends
    <3> QED BY <2>2, <3>2, <3>3 DEF AddsEvents
  <2> QED BY <1>3, <2>1, <2>2
<1>14. EndIsLast'
  <2> SUFFICES ASSUME NEW k \in Indices', NEW e \in Indices', NEW x \in Dispensers,
                      Ends(k)', k < e, log'[k].dev = x, log'[e].dev = x,
                      log'[e].what = "display" \/ Ends(e)'
               PROVE  \E j \in Indices' : k < j /\ j <= e /\ CreatesOn(j, x)'
    BY DEF EndIsLast
  <2>1. CASE e \in Indices
    <3>1. k \in Indices BY <1>1, <1>3, <2>1
    <3>2. \E j \in Indices : k < j /\ j <= e /\ CreatesOn(j, x)
      BY <1>2, <2>1, <3>1 DEF EndIsLast, LogInv
    <3> QED BY <1>1, <1>2, <3>2
  <2>2. CASE e \in NewEvents
    <3>1. x = d /\ srv[d].order \in Orders /\ srv[d].ostatus = "AUTHORIZED"
      <4>1. Ends(e)' => log'[e].what = "changed" BY DEF Ends
      <4> QED BY <2>2, <4>1 DEF AddsEvents
    <3>2. k \in Indices BY <1>3, <2>2 DEF AddsEvents
    <3>3. Ends(k) /\ log[k].dev = d BY <1>2, <3>1, <3>2
    <3>4. PICK o \in Orders : log[k].order = o /\ Owner(o, d, k)
      BY <3>2, <3>3 DEF AmountsOwned, LogInv, Ends
    <3>5. o # srv[d].order BY <1>4, <3>1, <3>2, <3>3, <3>4 DEF ServerOrder, LogInv
    <3>6. Owner(srv[d].order, d, Len(log)) BY <3>1, Holder DEF LogInv, Grows
    <3>7. k <= Len(log) /\ k \in Nat /\ e > Len(log) /\ e \in Nat BY <1>1, <2>2, <3>2
    <3>8. \E j \in Indices : k < j /\ j <= Len(log) /\ Creates(j, d, srv[d].order)
      BY <1>1, <3>1, <3>4, <3>5, <3>6, <3>7, OneOwner DEF LogInv, Grows
    <3> QED BY <1>1, <1>2, <3>1, <3>7, <3>8 DEF Creates
  <2> QED BY <1>3, <2>1, <2>2
<1>15. ServerOrder'
  <2> SUFFICES ASSUME NEW x \in Dispensers
               PROVE  /\ \A o \in Orders, y \in Nat : srv'[x].order = o /\ y >= Len(log') => Owner(o, x, y)'
                      /\ srv'[x].ostatus # "" => srv'[x].order \in Orders
                      /\ srv'[x].status = "FUELLING" => srv'[x].ostatus = "AUTHORIZED"
                      /\ \A k \in Indices' :
                           Ends(k)' /\ log'[k].order = srv'[x].order => srv'[x].ostatus \in Finished
    BY DEF ServerOrder
  <2>1. srv'[x].order = srv[x].order /\ (srv'[x].ostatus # "" => srv[x].ostatus # "")
        /\ (srv'[x].status = "FUELLING" => srv'[x].ostatus = "AUTHORIZED")
        /\ (srv[x].ostatus \in Finished => srv'[x].ostatus \in Finished)
    BY DEF KeepsOrders
  <2>2. \A o \in Orders, y \in Nat : srv'[x].order = o /\ y >= Len(log') => Owner(o, x, y)'
    <3> SUFFICES ASSUME NEW o \in Orders, NEW y \in Nat, srv[x].order = o, y >= Len(log')
                 PROVE  Owner(o, x, y)'
      BY <2>1
    <3>1. y >= Len(log) BY <1>1
    <3> QED BY <1>11, <3>1
  <2>3. ASSUME NEW k \in Indices', Ends(k)', log'[k].order = srv'[x].order
        PROVE  srv'[x].ostatus \in Finished
    <3>1. CASE k \in Indices BY <1>2, <2>1, <2>3, <3>1 DEF ServerOrder, LogInv
    <3>2. CASE k \in NewEvents
      <4>1. /\ log'[k].what = "changed" /\ srv[d].order \in Orders /\ log'[k].order = srv[d].order
            /\ srv'[d].ostatus \in Finished
        BY <2>3, <3>2 DEF AddsEvents, Ends
      <4>2. Owner(srv[d].order, d, Len(log)) /\ Owner(srv[x].order, x, Len(log))
        BY <2>1, <2>3, <4>1, Holder DEF LogInv, Grows
      <4>3. x = d
        <5>1. PICK b \in Indices : Creates(b, d, srv[d].order) BY <4>2 DEF Owner
        <5>2. PICK c \in Indices : Creates(c, x, srv[d].order) BY <2>1, <2>3, <4>1, <4>2 DEF Owner
        <5> QED BY <4>1, <5>1, <5>2, OneDispenser DEF LogInv
      <4> QED BY <4>1, <4>3
    <3> QED BY <1>3, <3>1, <3>2
  <2>4. srv'[x].ostatus # "" => srv'[x].order \in Orders BY <2>1 DEF ServerOrder, LogInv
  <2> QED BY <2>1, <2>2, <2>3, <2>4
<1> QED BY <1>8, <1>9, <1>13, <1>14, <1>15 DEF LogInv

\* The event k of the next log is what a says.
IsNew(k, a) ==
  /\ log'[k].id = k /\ log'[k].dev = a.dev /\ log'[k].what = a.what
  /\ log'[k].status = a.status /\ log'[k].order = a.order /\ log'[k].amount = a.amount

LEMMA LogOne ==
  ASSUME log \in Seq(Event), NEW a \in Said, Logged(<<a>>)
  PROVE  /\ Grows /\ Len(log) \in Nat /\ Len(log') = Len(log) + 1
         /\ NewEvents = {Len(log) + 1} /\ IsNew(Len(log) + 1, a)
<1> DEFINE es == <<a>>
<1>1. es \in Seq(Said) /\ Len(es) = 1 /\ es[1] = a OBVIOUS
<1> HIDE DEF es
<1>2. Logged(es) BY DEF es
<1>3. Grows /\ Len(log') = Len(log) + 1 /\ IsNew(Len(log) + 1, a)
  BY <1>1, <1>2, LoggedEvents DEF IsNew
<1> QED BY <1>3 DEF Grows, NewEvents, Indices

LEMMA LogTwo ==
  ASSUME log \in Seq(Event), NEW a \in Said, NEW b \in Said, Logged(<<a, b>>)
  PROVE  /\ Grows /\ Len(log) \in Nat /\ Len(log') = Len(log) + 2
         /\ NewEvents = {Len(log) + 1, Len(log) + 2}
         /\ IsNew(Len(log) + 1, a) /\ IsNew(Len(log) + 2, b)
<1> DEFINE es == <<a, b>>
<1>1. es \in Seq(Said) /\ Len(es) = 2 /\ es[1] = a /\ es[2] = b OBVIOUS
<1> HIDE DEF es
<1>2. Logged(es) BY DEF es
<1>3. Grows /\ Len(log') = Len(log) + 2 BY <1>1, <1>2, LoggedEvents
<1>4. IsNew(Len(log) + 1, a) /\ IsNew(Len(log) + 2, b)
  <2>1. 1 \in 1..Len(es) /\ 2 \in 1..Len(es) BY <1>1
  <2> QED BY <1>1, <1>2, <2>1, LoggedEvents DEF IsNew
<1>5. Len(log) \in Nat BY DEF Grows
<1>6. NewEvents = {Len(log) + 1, Len(log) + 2} BY <1>3, <1>5 DEF NewEvents, Indices
<1> QED BY <1>3, <1>4, <1>5, <1>6

\* What the controller says of d.
LEMMA SaidTypes ==
  ASSUME TypeOK, NEW d \in Dispensers
  PROVE  /\ \A s \in Statuses : StatusChanged(d, s) \in Said
         /\ srv[d].order \in Orders => \A s \in Finished : OrderEnded(d, s) \in Said
         /\ \A o \in Orders : Says(d, "created", "READY", o, 0) \in Said
         /\ Says(d, "changed", "AUTHORIZED", srv[d].order, 0) \in Said
         /\ \A a \in Amounts : Says(d, "display", "", NoOrder, a) \in Said
<1>1. 0 \in Amounts BY DeliveryBounds DEF Amounts
<1>2. srv[d].order \in OrderOrNone BY DEF TypeOK
<1>3. srv[d].order \in Orders => poured[srv[d].order] \in Amounts BY DEF TypeOK
<1> QED BY <1>1, <1>2, <1>3
     DEF Said, Says, StatusChanged, OrderEnded, OrderOrNone, OrderStatuses, Finished, Statuses

\* A new order is created on d.
LEMMA CreateStep ==
  ASSUME TypeOK, LogInv, NEW d \in Dispensers, NEW o \in Orders,
         \A i \in 1..Len(log) : log[i].order # o,
         srv[d].status = "NOZZLE_UP",
         srv' = [srv EXCEPT ![d].order = o, ![d].ostatus = "READY"],
         Logged(<<Says(d, "created", "READY", o, 0)>>), poured' = poured
  PROVE  LogInv' /\ Grows
<1>0. PICK n \in Nat : n = Len(log) + 1 BY DEF TypeOK
<1>1. /\ Grows /\ Len(log) \in Nat /\ Len(log') = n /\ NewEvents = {n}
      /\ IsNew(n, Says(d, "created", "READY", o, 0))
  BY <1>0, LogOne, SaidTypes DEF TypeOK
<1>2. /\ log'[n].id = n /\ log'[n].dev = d /\ log'[n].what = "created" /\ log'[n].order = o
  BY <1>1 DEF IsNew, Says
<1>3. /\ Indices \subseteq Indices' /\ \A k \in Indices' : k \in Indices \/ k = n
      /\ n \in Indices' /\ n \notin Indices /\ n \in Nat /\ n >= Len(log)
      /\ \A k \in Indices : k \in Nat /\ k < n /\ k <= Len(log)
  BY <1>0, <1>1 DEF NewEvents, Indices
<1>4. /\ \A k \in Indices : log'[k] = log[k] /\ Ends(k)' = Ends(k)
      /\ \A k \in Indices, x \in Dispensers : CreatesOn(k, x)' = CreatesOn(k, x)
      /\ \A k \in Indices, x \in Dispensers, p \in Orders : Creates(k, x, p)' = Creates(k, x, p)
      /\ \A x \in Dispensers, p \in Orders, k \in Indices : Owner(p, x, k) => Owner(p, x, k)'
  BY <1>1, <1>3, Kept
<1>5. ~Ends(n)' BY <1>2 DEF Ends
<1>6. \A x \in Dispensers : CreatesOn(n, x)' <=> x = d BY <1>2 DEF CreatesOn
<1>7. \A x \in Dispensers, p \in Orders : Creates(n, x, p)' <=> x = d /\ p = o
  BY <1>2, <1>6 DEF Creates
<1>8. \A k \in Indices : log[k].order # o BY DEF Indices
<1>9. Numbered' BY <1>2, <1>3, <1>4 DEF Numbered, LogInv
<1>10. CreatedOnce' BY <1>2, <1>3, <1>4, <1>8 DEF CreatedOnce, LogInv
<1>11. AmountsOwned'
  <2> SUFFICES ASSUME NEW k \in Indices', NEW x \in Dispensers, log'[k].dev = x
               PROVE  /\ log'[k].what = "display" =>
                           \E p \in Orders : Owner(p, x, k)' /\ log'[k].amount <= poured'[p]
                      /\ log'[k].what = "changed" =>
                           \E p \in Orders : log'[k].order = p /\ Owner(p, x, k)'
                      /\ Ends(k)' => log'[k].amount = poured'[log'[k].order]
    BY DEF AmountsOwned
  <2>1. CASE k = n BY <1>2, <1>5, <2>1
  <2>2. CASE k \in Indices
    <3>1. log'[k] = log[k] /\ Ends(k)' = Ends(k) BY <1>4, <2>2
    <3>2. /\ log[k].what = "display" =>
               \E p \in Orders : Owner(p, x, k) /\ log[k].amount <= poured[p]
          /\ log[k].what = "changed" => \E p \in Orders : log[k].order = p /\ Owner(p, x, k)
          /\ Ends(k) => log[k].amount = poured[log[k].order]
      BY <2>2, <3>1 DEF AmountsOwned, LogInv
    <3>3. \A p \in Orders : Owner(p, x, k) => Owner(p, x, k)' BY <1>4, <2>2
    <3> QED BY <3>1, <3>2, <3>3
  <2> QED BY <1>3, <2>1, <2>2
<1>12. EndIsLast'
  <2> SUFFICES ASSUME NEW k \in Indices', NEW e \in Indices', NEW x \in Dispensers,
                      Ends(k)', k < e, log'[k].dev = x, log'[e].dev = x,
                      log'[e].what = "display" \/ Ends(e)'
               PROVE  \E j \in Indices' : k < j /\ j <= e /\ CreatesOn(j, x)'
    BY DEF EndIsLast
  <2>1. k \in Indices /\ e \in Indices BY <1>2, <1>3, <1>5
  <2>2. \E j \in Indices : k < j /\ j <= e /\ CreatesOn(j, x)
    BY <1>4, <2>1 DEF EndIsLast, LogInv
  <2> QED BY <1>3, <1>4, <2>2
<1>13. ServerOrder'
  <2> SUFFICES ASSUME NEW x \in Dispensers
               PROVE  /\ \A p \in Orders, y \in Nat : srv'[x].order = p /\ y >= Len(log') => Owner(p, x, y)'
                      /\ srv'[x].ostatus # "" => srv'[x].order \in Orders
                      /\ srv'[x].status = "FUELLING" => srv'[x].ostatus = "AUTHORIZED"
                      /\ \A k \in Indices' :
                           Ends(k)' /\ log'[k].order = srv'[x].order => srv'[x].ostatus \in Finished
    BY DEF ServerOrder
  <2>1. CASE x = d
    <3>1. srv'[x].order = o /\ srv'[x].ostatus = "READY" /\ srv'[x].status = "NOZZLE_UP"
      BY <2>1 DEF TypeOK
    <3>2. ASSUME NEW y \in Nat, y >= Len(log') PROVE Owner(o, x, y)'
      <4>1. \E c \in Indices' : c <= y /\ Creates(c, x, o)'
        BY <1>1, <1>3, <1>7, <2>1, <3>2
      <4>2. \A c \in Indices' : Creates(c, x, o)' => c = n
        BY <1>3, <1>4, <1>8 DEF Creates
      <4>3. \A j \in Indices' : ~(n < j) BY <1>3
      <4>4. Unreplaced(o, x, y)' BY <4>2, <4>3 DEF Unreplaced
      <4> QED BY <4>1, <4>4 DEF Owner
    <3>3. \A k \in Indices' : ~(Ends(k)' /\ log'[k].order = o) BY <1>3, <1>4, <1>5, <1>8
    <3> QED BY <3>1, <3>2, <3>3
  <2>2. CASE x # d
    <3>1. srv'[x] = srv[x] BY <2>2 DEF TypeOK
    <3>2. ASSUME NEW p \in Orders, NEW y \in Nat, y >= Len(log'), srv[x].order = p
          PROVE  Owner(p, x, y)'
      <4>1. y >= Len(log) BY <1>1, <1>3, <3>2
      <4>2. Owner(p, x, y) BY <3>2, <4>1 DEF ServerOrder, LogInv
      <4>3. \E c \in Indices' : c <= y /\ Creates(c, x, p)' BY <1>3, <1>4, <4>2 DEF Owner
      <4>4. \A c \in Indices' : /\ CreatesOn(c, x)' => c \in Indices /\ CreatesOn(c, x)
                                /\ Creates(c, x, p)' => c \in Indices /\ Creates(c, x, p)
        BY <1>3, <1>4, <1>6, <1>7, <2>2
      <4>5. Unreplaced(p, x, y)' BY <4>2, <4>4 DEF Owner, Unreplaced
      <4> QED BY <4>3, <4>5 DEF Owner
    <3>3. \A k \in Indices' : Ends(k)' => k \in Indices /\ Ends(k) /\ log'[k] = log[k]
      BY <1>3, <1>4, <1>5
    <3>4. /\ srv[x].ostatus # "" => srv[x].order \in Orders
          /\ srv[x].status = "FUELLING" => srv[x].ostatus = "AUTHORIZED"
          /\ \A k \in Indices : Ends(k) /\ log[k].order = srv[x].order => srv[x].ostatus \in Finished
      BY DEF ServerOrder, LogInv
    <3> QED BY <3>1, <3>2, <3>3, <3>4
  <2> QED BY <2>1, <2>2
<1> QED BY <1>1, <1>9, <1>10, <1>11, <1>12, <1>13 DEF LogInv

\* What a step of the system means to the amounts and to the orders: the amount
\* of an order that has ended stands, and an ended order is not held again.
ServerFacts ==
  /\ Grows
  /\ poured \in [Orders -> Amounts] /\ poured' \in [Orders -> Amounts]
  /\ \A o \in Orders :
       /\ poured[o] <= poured'[o]
       /\ \A k \in Indices : Ends(k) /\ log[k].order = o => poured'[o] = poured[o]
       /\ \A x \in Dispensers :
            srv'[x].order = o => srv[x].order = o \/ \A k \in Indices : log[k].order # o

\* The controller forgets the order of a dispenser that does not fuel.
Closes(d) ==
  /\ srv[d].status # "FUELLING"
  /\ srv' = [srv EXCEPT ![d].order = NoOrder, ![d].ostatus = ""]

\* With the log and the amounts as they are.
LEMMA SameParts ==
  ASSUME TypeOK, LogInv, log' = log, poured' = poured
  PROVE  /\ Numbered' /\ CreatedOnce' /\ EndIsLast' /\ AmountsOwned'
         /\ Indices' = Indices /\ Len(log') = Len(log)
         /\ \A k \in Indices : Ends(k)' = Ends(k)
         /\ \A x \in Dispensers, o \in Orders, y \in Nat : Owner(o, x, y) => Owner(o, x, y)'
         /\ Grows /\ \A o \in Orders : poured[o] <= poured'[o]
         /\ poured \in [Orders -> Amounts] /\ poured' \in [Orders -> Amounts]
<1>1. log \in Seq(Event) /\ Len(log) \in Nat /\ poured \in [Orders -> Amounts] BY DEF TypeOK
<1>2. /\ Indices' = Indices /\ \A k \in Indices : k \in Nat
      /\ \A k \in Indices : Ends(k)' = Ends(k)
      /\ \A k \in Indices, d \in Dispensers : CreatesOn(k, d)' = CreatesOn(k, d)
  BY <1>1 DEF Indices, Ends, CreatesOn
<1>3. Grows BY <1>1 DEF Grows
<1>4. ASSUME NEW x \in Dispensers, NEW o \in Orders, NEW y \in Nat, Owner(o, x, y)
      PROVE  Owner(o, x, y)'
  <2>1. \A k \in Indices : Creates(k, x, o)' = Creates(k, x, o) BY <1>2 DEF Creates
  <2>2. \E c \in Indices' : c <= y /\ Creates(c, x, o)' BY <1>2, <1>4, <2>1 DEF Owner
  <2>3. Unreplaced(o, x, y)' BY <1>2, <1>4, <2>1 DEF Owner, Unreplaced
  <2> QED BY <2>2, <2>3 DEF Owner
<1>5. Numbered' /\ CreatedOnce' /\ EndIsLast' /\ AmountsOwned'
  BY <1>2, <1>4 DEF LogInv, Numbered, CreatedOnce, EndIsLast, AmountsOwned
<1>6. \A o \in Orders : poured[o] <= poured'[o]
  <2>1. \A o \in Orders : poured[o] \in Nat BY <1>1, AmountsAreNat
  <2> QED BY <2>1
<1> QED BY <1>1, <1>2, <1>3, <1>4, <1>5, <1>6

LEMMA SameLog ==
  ASSUME TypeOK, LogInv, log' = log, poured' = poured, srv' = srv
  PROVE  LogInv' /\ ServerFacts
<1>1. ServerOrder BY DEF LogInv
<1>2. ServerOrder'
  <2> SUFFICES ASSUME NEW x \in Dispensers
               PROVE  /\ \A o \in Orders, y \in Nat : srv'[x].order = o /\ y >= Len(log') => Owner(o, x, y)'
                      /\ srv'[x].ostatus # "" => srv'[x].order \in Orders
                      /\ srv'[x].status = "FUELLING" => srv'[x].ostatus = "AUTHORIZED"
                      /\ \A k \in Indices' :
                           Ends(k)' /\ log'[k].order = srv'[x].order => srv'[x].ostatus \in Finished
    BY DEF ServerOrder
  <2> QED BY <1>1, SameParts DEF ServerOrder
<1> QED BY <1>2, SameParts DEF LogInv, ServerFacts

LEMMA CloseStep ==
  ASSUME TypeOK, LogInv, log' = log, poured' = poured, NEW d \in Dispensers, Closes(d)
  PROVE  LogInv' /\ ServerFacts
<1>1. /\ srv'[d].order = NoOrder /\ srv'[d].ostatus = "" /\ srv'[d].status = srv[d].status
      /\ srv[d].status # "FUELLING"
      /\ \A x \in Dispensers : x # d => srv'[x] = srv[x]
  BY DEF TypeOK, Closes
<1>2. NoOrder \notin Orders BY DeliveryNames
<1>3. ServerOrder BY DEF LogInv
<1>4. \A k \in Indices : Ends(k) => log[k].order \in Orders
  <2>1. \A k \in Indices : log[k] \in Event BY DEF TypeOK, Indices
  <2>2. \A k \in Indices : log[k].dev \in Dispensers BY <2>1, EventFields
  <2> QED BY <2>2 DEF LogInv, AmountsOwned, Ends
<1>5. ServerOrder'
  <2> SUFFICES ASSUME NEW x \in Dispensers
               PROVE  /\ \A o \in Orders, y \in Nat : srv'[x].order = o /\ y >= Len(log') => Owner(o, x, y)'
                      /\ srv'[x].ostatus # "" => srv'[x].order \in Orders
                      /\ srv'[x].status = "FUELLING" => srv'[x].ostatus = "AUTHORIZED"
                      /\ \A k \in Indices' :
                           Ends(k)' /\ log'[k].order = srv'[x].order => srv'[x].ostatus \in Finished
    BY DEF ServerOrder
  <2>1. CASE x = d BY <1>1, <1>2, <1>4, <2>1, SameParts
  <2>2. CASE x # d
    <3>1. srv'[x] = srv[x] BY <1>1, <2>2
    <3> QED BY <1>3, <3>1, SameParts DEF ServerOrder
  <2> QED BY <2>1, <2>2
<1>6. \A x \in Dispensers, o \in Orders : srv'[x].order = o => srv[x].order = o BY <1>1, <1>2
<1> QED BY <1>5, <1>6, SameParts DEF LogInv, ServerFacts

\* A step that adds events of the order that d holds.
LEMMA AddStep ==
  ASSUME TypeOK, LogInv, Grows, NEW d \in Dispensers, AddsEvents(d), KeepsOrders(d)
  PROVE  LogInv' /\ ServerFacts
<1>1. LogInv' BY LogStep
<1>2. "AUTHORIZED" \notin Finished BY DEF Finished
<1>3. poured \in [Orders -> Amounts] BY DEF TypeOK
<1>4. \A o \in Orders, k \in Indices : Ends(k) /\ log[k].order = o => poured'[o] = poured[o]
  BY <1>2 DEF KeepsOrders, LogInv, ServerOrder
<1> QED BY <1>1, <1>3, <1>4 DEF ServerFacts, KeepsOrders

\* The events of a dispenser that its state alone allows.
LEMMA StatusSaid ==
  ASSUME TypeOK, LogInv, NEW d \in Dispensers, NEW s \in Statuses,
         srv[d].status # "FUELLING",
         s = "FUELLING" => srv[d].ostatus = "AUTHORIZED",
         srv' = [srv EXCEPT ![d].status = s],
         Logged(<<StatusChanged(d, s)>>), poured' = poured
  PROVE  LogInv' /\ ServerFacts
<1>0. PICK n \in Nat : n = Len(log) + 1 BY DEF TypeOK
<1>1. Grows /\ NewEvents = {n} /\ IsNew(n, StatusChanged(d, s))
  BY <1>0, LogOne, SaidTypes DEF TypeOK
<1>2. log'[n].id = n /\ log'[n].what = "status" /\ log'[n].status = s
  BY <1>1 DEF IsNew, StatusChanged, Says
<1>3. ~Ends(n)' BY <1>2 DEF Ends
<1>4. AddsEvents(d) BY <1>1, <1>2, <1>3 DEF AddsEvents
<1>5. /\ srv'[d].order = srv[d].order /\ srv'[d].ostatus = srv[d].ostatus /\ srv'[d].status = s
      /\ \A x \in Dispensers : x # d => srv'[x] = srv[x]
  BY DEF TypeOK
<1>6. \A x \in Dispensers : srv[x].status = "FUELLING" => srv[x].ostatus = "AUTHORIZED"
  BY DEF LogInv, ServerOrder
<1>7. poured \in [Orders -> Amounts] /\ poured' \in [Orders -> Amounts]
      /\ \A o \in Orders : poured[o] <= poured'[o]
  <2>1. poured \in [Orders -> Amounts] BY DEF TypeOK
  <2> QED BY <2>1, AmountsAreNat
<1>8. KeepsOrders(d) BY <1>5, <1>6, <1>7 DEF KeepsOrders
<1> QED BY <1>1, <1>4, <1>8, AddStep

\* The end of the order that d holds, with the new status of d after it or before it.
LEMMA EndSaid ==
  ASSUME TypeOK, LogInv, NEW d \in Dispensers, NEW s \in Statuses, NEW t \in Finished,
         srv[d].status = "FUELLING", s # "FUELLING",
         srv' = [srv EXCEPT ![d].status = s, ![d].ostatus = t],
         \/ Logged(<<OrderEnded(d, t), StatusChanged(d, s)>>)
         \/ Logged(<<StatusChanged(d, s), OrderEnded(d, t)>>),
         poured' = poured
  PROVE  LogInv' /\ ServerFacts
<1>0. srv[d].ostatus = "AUTHORIZED" /\ srv[d].order \in Orders BY DEF LogInv, ServerOrder
<1>1. PICK m \in Nat, n \in Nat :
        /\ m # n /\ Grows /\ NewEvents = {m, n}
        /\ IsNew(m, OrderEnded(d, t)) /\ IsNew(n, StatusChanged(d, s))
  <2>1. PICK k \in Nat : k = Len(log) + 1 BY DEF TypeOK
  <2>2. OrderEnded(d, t) \in Said /\ StatusChanged(d, s) \in Said BY <1>0, SaidTypes
  <2>3. CASE Logged(<<OrderEnded(d, t), StatusChanged(d, s)>>)
    <3>1. /\ Grows /\ NewEvents = {Len(log) + 1, Len(log) + 2}
          /\ IsNew(Len(log) + 1, OrderEnded(d, t)) /\ IsNew(Len(log) + 2, StatusChanged(d, s))
      BY <2>2, <2>3, LogTwo DEF TypeOK
    <3>2. PICK l \in Nat : l = Len(log) + 2 BY DEF TypeOK
    <3> QED BY <2>1, <3>1, <3>2
  <2>4. CASE Logged(<<StatusChanged(d, s), OrderEnded(d, t)>>)
    <3>1. /\ Grows /\ NewEvents = {Len(log) + 1, Len(log) + 2}
          /\ IsNew(Len(log) + 1, StatusChanged(d, s)) /\ IsNew(Len(log) + 2, OrderEnded(d, t))
      BY <2>2, <2>4, LogTwo DEF TypeOK
    <3>2. PICK l \in Nat : l = Len(log) + 2 BY DEF TypeOK
    <3> QED BY <2>1, <3>1, <3>2
  <2> QED BY <2>3, <2>4
<1>2. /\ log'[n].id = n /\ log'[n].what = "status" /\ log'[n].status = s
      /\ log'[m].id = m /\ log'[m].what = "changed" /\ log'[m].dev = d
      /\ log'[m].order = srv[d].order /\ log'[m].amount = poured[srv[d].order]
      /\ log'[m].status = t /\ t \in OrderStatuses
  BY <1>1 DEF IsNew, StatusChanged, OrderEnded, Says, OrderStatuses
<1>3. ~Ends(n)' BY <1>2 DEF Ends
<1>4. /\ srv'[d].order = srv[d].order /\ srv'[d].ostatus = t /\ srv'[d].status = s
      /\ \A x \in Dispensers : x # d => srv'[x] = srv[x]
  BY DEF TypeOK
<1>5. AddsEvents(d) BY <1>0, <1>1, <1>2, <1>3, <1>4 DEF AddsEvents
<1>6. \A x \in Dispensers : srv[x].status = "FUELLING" => srv[x].ostatus = "AUTHORIZED"
  BY DEF LogInv, ServerOrder
<1>7. poured \in [Orders -> Amounts] /\ poured' \in [Orders -> Amounts]
      /\ \A o \in Orders : poured[o] <= poured'[o]
  <2>1. poured \in [Orders -> Amounts] BY DEF TypeOK
  <2> QED BY <2>1, AmountsAreNat
<1>8. KeepsOrders(d) BY <1>0, <1>4, <1>6, <1>7 DEF KeepsOrders
<1> QED BY <1>1, <1>5, <1>8, AddStep

LEMMA PourStep ==
  ASSUME TypeOK, LogInv, NEW d \in Dispensers, Pour(d)
  PROVE  LogInv' /\ ServerFacts
<1>1. PICK o \in Orders : srv[d].ostatus = "AUTHORIZED" /\ srv[d].order = o
  BY DEF Pour, LogInv, ServerOrder
<1>2. poured \in [Orders -> Amounts] /\ \A p \in Orders : poured[p] \in Nat
  BY AmountsAreNat DEF TypeOK
<1>3. /\ poured[o] < MaxAmount /\ srv' = srv
      /\ poured' = [poured EXCEPT ![o] = @ + 1]
      /\ Logged(<<Says(d, "display", "", NoOrder, poured'[o])>>)
  BY <1>1 DEF Pour
<1>4. poured[o] + 1 \in Amounts /\ poured'[o] = poured[o] + 1 /\ poured[o] \in Nat
      /\ \A p \in Orders : p # o => poured'[p] = poured[p]
  <2>1. poured[o] \in Nat /\ poured[o] < MaxAmount /\ MaxAmount \in Nat
    BY <1>2, <1>3, DeliveryBounds
  <2>2. poured[o] + 1 \in Amounts BY <2>1 DEF Amounts
  <2> QED BY <1>2, <1>3, <2>1, <2>2
<1>5. poured' \in [Orders -> Amounts] BY <1>1, <1>2, <1>3, <1>4
<1>6. \A p \in Orders : poured[p] <= poured'[p] BY <1>2, <1>4
<1>0. PICK n \in Nat : n = Len(log) + 1 BY DEF TypeOK
<1>7. Grows /\ NewEvents = {n} /\ IsNew(n, Says(d, "display", "", NoOrder, poured'[o]))
  BY <1>0, <1>3, <1>4, LogOne, SaidTypes DEF TypeOK
<1>8. /\ log'[n].id = n /\ log'[n].what = "display" /\ log'[n].dev = d
      /\ log'[n].amount = poured'[o] /\ poured'[o] \in Nat
  <2>1. poured'[o] \in Nat BY <1>5, AmountsAreNat
  <2> QED BY <1>7, <2>1 DEF IsNew, Says
<1>9. ~Ends(n)' BY <1>8 DEF Ends
<1>10. AddsEvents(d)
  <2>1. log'[n].amount <= poured'[srv[d].order] BY <1>1, <1>8
  <2> QED BY <1>1, <1>7, <1>8, <1>9, <2>1 DEF AddsEvents
<1>11. KeepsOrders(d)
  <2>1. \A x \in Dispensers : srv[x].status = "FUELLING" => srv[x].ostatus = "AUTHORIZED"
    BY DEF LogInv, ServerOrder
  <2> QED BY <1>1, <1>3, <1>4, <1>5, <1>6, <2>1 DEF KeepsOrders
<1> QED BY <1>7, <1>10, <1>11, AddStep

LEMMA AuthorizeStep ==
  ASSUME TypeOK, LogInv, NEW d \in Dispensers, srv[d].ostatus = "READY",
         srv' = [srv EXCEPT ![d].ostatus = "AUTHORIZED"],
         Logged(<<Says(d, "changed", "AUTHORIZED", srv[d].order, 0)>>), poured' = poured
  PROVE  LogInv' /\ ServerFacts
<1>0. PICK n \in Nat : n = Len(log) + 1 BY DEF TypeOK
<1>1. /\ Grows /\ NewEvents = {n}
      /\ IsNew(n, Says(d, "changed", "AUTHORIZED", srv[d].order, 0))
  BY <1>0, LogOne, SaidTypes DEF TypeOK
<1>2. /\ log'[n].id = n /\ log'[n].what = "changed" /\ log'[n].dev = d
      /\ log'[n].status = "AUTHORIZED" /\ log'[n].order = srv[d].order
  BY <1>1 DEF IsNew, Says
<1>3. ~Ends(n)' /\ "AUTHORIZED" \in OrderStatuses BY <1>2 DEF Ends, Finished, OrderStatuses
<1>4. srv[d].order \in Orders BY DEF LogInv, ServerOrder
<1>5. AddsEvents(d) BY <1>1, <1>2, <1>3, <1>4 DEF AddsEvents
<1>6. /\ srv'[d].order = srv[d].order /\ srv'[d].ostatus = "AUTHORIZED"
      /\ srv'[d].status = srv[d].status
      /\ \A x \in Dispensers : x # d => srv'[x] = srv[x]
  BY DEF TypeOK
<1>7. \A x \in Dispensers : srv[x].status = "FUELLING" => srv[x].ostatus = "AUTHORIZED"
  BY DEF LogInv, ServerOrder
<1>8. poured \in [Orders -> Amounts] /\ poured' \in [Orders -> Amounts]
      /\ \A o \in Orders : poured[o] <= poured'[o]
  <2>1. poured \in [Orders -> Amounts] BY DEF TypeOK
  <2> QED BY <2>1, AmountsAreNat
<1>9. "READY" \notin Finished BY DEF Finished
<1>10. KeepsOrders(d) BY <1>6, <1>7, <1>8, <1>9 DEF KeepsOrders
<1> QED BY <1>1, <1>5, <1>10, AddStep

\* The steps of the controller and of the forecourt.
LEMMA ControllerStep ==
  ASSUME TypeOK, LogInv, [Next]_vars
  PROVE  LogInv' /\ ServerFacts
<1> DEFINE q == Head(requests)
<1>1. CASE UNCHANGED srvVars BY <1>1, SameLog DEF srvVars
<1>2. requests # <<>> => q \in Request BY TailFacts DEF TypeOK
<1>3. CASE ServeCreate
  <2>1. q.dev \in Dispensers BY <1>2, <1>3, Requests DEF ServeCreate, Served
  <2>2. poured' = poured BY <1>3 DEF ServeCreate, Served
  <2>3. CASE srv' = srv /\ log' = log BY <2>2, <2>3, SameLog
  <2>4. ASSUME NEW o \in Orders, \A i \in 1..Len(log) : log[i].order # o,
               srv[q.dev].status = "NOZZLE_UP",
               srv' = [srv EXCEPT ![q.dev].order = o, ![q.dev].ostatus = "READY"],
               Logged(<<Says(q.dev, "created", "READY", o, 0)>>)
        PROVE  LogInv' /\ ServerFacts
    <3>1. LogInv' /\ Grows BY <2>1, <2>2, <2>4, CreateStep
    <3>2. poured \in [Orders -> Amounts] /\ \A p \in Orders : poured[p] \in Nat
      BY AmountsAreNat DEF TypeOK
    <3>3. \A p \in Orders : poured[p] <= poured'[p] BY <2>2, <3>2
    <3>4. ASSUME NEW p \in Orders, NEW x \in Dispensers, srv'[x].order = p
          PROVE  srv[x].order = p \/ \A k \in Indices : log[k].order # p
      <4>1. CASE x = q.dev
        <5>1. srv'[x].order = o BY <2>1, <2>4, <4>1 DEF TypeOK
        <5> QED BY <2>4, <3>4, <5>1 DEF Indices
      <4>2. CASE x # q.dev
        <5>1. srv'[x] = srv[x] BY <2>1, <2>4, <4>2 DEF TypeOK
        <5> QED BY <3>4, <5>1
      <4> QED BY <4>1, <4>2
    <3> QED BY <2>2, <3>1, <3>2, <3>3, <3>4 DEF ServerFacts
  <2> QED BY <1>3, <2>3, <2>4 DEF ServeCreate
<1>4. CASE ServeAuthorize
  <2>1. q.dev \in Dispensers BY <1>2, <1>4, Requests DEF ServeAuthorize, Served
  <2>2. poured' = poured BY <1>4 DEF ServeAuthorize, Served
  <2> QED BY <1>4, <2>1, <2>2, SameLog, AuthorizeStep DEF ServeAuthorize
<1>5. CASE ServeClose
  <2>1. q.dev \in Dispensers BY <1>2, <1>5, Requests DEF ServeClose, Served
  <2>2. poured' = poured /\ log' = log BY <1>5 DEF ServeClose, Served
  <2>3. srv' = srv \/ Closes(q.dev) BY <1>5 DEF ServeClose, Closes
  <2> QED BY <2>1, <2>2, <2>3, SameLog, CloseStep
<1>6. ASSUME NEW d \in Dispensers, LiftNozzle(d) PROVE LogInv' /\ ServerFacts
  <2>1. "NOZZLE_UP" \in Statuses BY DEF Statuses
  <2> QED BY <1>6, <2>1, StatusSaid DEF LiftNozzle
<1>7. ASSUME NEW d \in Dispensers, StartFuelling(d) PROVE LogInv' /\ ServerFacts
  <2>1. "FUELLING" \in Statuses BY DEF Statuses
  <2> QED BY <1>7, <2>1, StatusSaid DEF StartFuelling
<1>8. ASSUME NEW d \in Dispensers, Deliver(d) PROVE LogInv' /\ ServerFacts
  <2>1. "COMPLETE" \in Statuses /\ "DELIVERED" \in Finished BY DEF Statuses, Finished
  <2> QED BY <1>8, <2>1, EndSaid DEF Deliver
<1>9. ASSUME NEW d \in Dispensers, HangNozzle(d) PROVE LogInv' /\ ServerFacts
  <2>1. "IDLE" \in Statuses /\ "INTERRUPTED" \in Finished BY DEF Statuses, Finished
  <2>2. poured' = poured BY <1>9 DEF HangNozzle
  <2>3. CASE /\ srv[d].status \in {"NOZZLE_UP", "COMPLETE"}
             /\ srv' = [srv EXCEPT ![d].status = "IDLE"]
             /\ Logged(<<StatusChanged(d, "IDLE")>>)
    BY <2>1, <2>2, <2>3, StatusSaid
  <2>4. CASE /\ srv[d].status = "FUELLING"
             /\ srv' = [srv EXCEPT ![d].status = "IDLE", ![d].ostatus = "INTERRUPTED"]
             /\ \/ Logged(<<OrderEnded(d, "INTERRUPTED"), StatusChanged(d, "IDLE")>>)
                \/ Logged(<<StatusChanged(d, "IDLE"), OrderEnded(d, "INTERRUPTED")>>)
    BY <2>1, <2>2, <2>4, EndSaid
  <2> QED BY <1>9, <2>3, <2>4 DEF HangNozzle
<1>10. UNCHANGED srvVars \/ ServeCreate \/ ServeAuthorize \/ ServeClose
       \/ \E d \in Dispensers : LiftNozzle(d) \/ StartFuelling(d) \/ Pour(d) \/ Deliver(d) \/ HangNozzle(d)
  BY DEF Next, Core, Worker, vars, srvVars, handleChooseTRK, createOrder, BeginFuelling,
         handleBasicTouch, ForgetDispenser, Touch, Tick, EventsAnswer, StatusEvent, DisplayEvent,
         OrderChangedEvent, OrderCreatedEvent, Visit, StatusAnswer, ServeEvents, ServeStatus,
         Served, Answer
<1> QED BY <1>1, <1>3, <1>4, <1>5, <1>6, <1>7, <1>8, <1>9, <1>10, PourStep

-----------------------------------------------------------------------------
(* Types.                                                                  *)

LEMMA TouchTypes ==
  ASSUME TypeOK,
         \/ \E d \in Dispensers : handleChooseTRK(d)
         \/ createOrder \/ BeginFuelling \/ handleBasicTouch \/ ForgetDispenser \/ Tick
  PROVE  TypeOK'
<1>1. /\ touches' \in 0..MaxTouches /\ current' \in Dispensers \cup {None} /\ waiting' \in BOOLEAN
      /\ UNCHANGED <<orders, status, last_event, batch, responses, srv, log, poured,
                     dropped, overwritten, confirmed>>
  <2>1. Touch => touches' \in 0..MaxTouches /\ waiting' \in BOOLEAN
                 /\ UNCHANGED <<orders, status, last_event, batch, responses, srv, log, poured,
                                dropped, overwritten, confirmed>>
    <3>1. Touch => touches' = touches + 1 /\ touches < MaxTouches /\ waiting' = FALSE BY DEF Touch
    <3>2. touches \in 0..MaxTouches /\ MaxTouches \in Nat BY DeliveryBounds DEF TypeOK
    <3>3. Touch => touches' \in 0..MaxTouches BY <3>1, <3>2
    <3>4. Touch => waiting' \in BOOLEAN BY <3>1, Zenon
    <3> QED BY <3>3, <3>4 DEF Touch, srvVars, pastVars
  <2>2. current \in Dispensers \cup {None} /\ touches \in 0..MaxTouches BY DEF TypeOK
  <2>3. waiting \in BOOLEAN /\ TRUE \in BOOLEAN BY Zenon DEF TypeOK
  <2>4. CASE Tick
    <3>1. /\ waiting' = TRUE /\ current' = current /\ touches' = touches
          /\ UNCHANGED <<orders, status, last_event, batch, responses, srv, log, poured,
                         dropped, overwritten, confirmed>>
      BY <2>4 DEF Tick, srvVars, pastVars
    <3>2. waiting' \in BOOLEAN BY <3>1, Zenon
    <3> QED BY <2>2, <3>1, <3>2
  <2>5. CASE ForgetDispenser
    BY <2>2, <2>3, <2>5 DEF ForgetDispenser, srvVars, pastVars, netVars
  <2>6. CASE (\E d \in Dispensers : handleChooseTRK(d)) \/ createOrder \/ BeginFuelling \/ handleBasicTouch
    <3>1. Touch /\ current' \in Dispensers \cup {None}
      BY <2>2, <2>6 DEF handleChooseTRK, createOrder, BeginFuelling, handleBasicTouch
    <3> QED BY <2>1, <3>1
  <2> QED BY <2>4, <2>5, <2>6
<1>2. requests' \in Seq(Request)
  <2>1. requests \in Seq(Request) /\ last_event \in Nat BY DEF TypeOK
  <2>2. current # None => current \in Dispensers BY DEF TypeOK
  <2>3. \A c \in {"STATUS", "CREATE", "authorize"} :
          current # None => requests \o Command(c, current) \in Seq(Request)
    BY <2>1, <2>2, Requests, Concat
  <2>4. requests \o <<[cmd |-> "EVENTS", from |-> last_event]>> \in Seq(Request)
        /\ requests \o <<>> \in Seq(Request)
    BY <2>1, Requests, Concat
  <2>5. CASE requests' = requests BY <2>1, <2>5
  <2>6. CASE createOrder \/ BeginFuelling \/ handleBasicTouch
    BY <2>3, <2>6 DEF createOrder, BeginFuelling, handleBasicTouch, Send
  <2>7. CASE Tick BY <2>4, <2>7 DEF Tick, Send
  <2> QED BY <2>5, <2>6, <2>7 DEF handleChooseTRK, ForgetDispenser, netVars
<1>3. age' \in [Dispensers -> 0..Timeout] /\ still' \in [Dispensers -> 0..Timeout]
  <2>1. age \in [Dispensers -> 0..Timeout] /\ still \in [Dispensers -> 0..Timeout]
    BY DEF TypeOK
  <2>2. \A n \in 0..Timeout : Older(n) \in 0..Timeout BY DeliveryBounds DEF Older
  <2>3. CASE Tick BY <2>1, <2>2, <2>3 DEF Tick
  <2>4. CASE age' = age /\ still' = still BY <2>1, <2>4
  <2> QED BY <2>3, <2>4
       DEF handleChooseTRK, createOrder, BeginFuelling, handleBasicTouch, ForgetDispenser, Touch
<1>4. paused' \in [Dispensers -> BOOLEAN]
  <2>1. paused \in [Dispensers -> BOOLEAN] BY DEF TypeOK
  <2>2. CASE Tick
    <3>1. paused' = [d \in Dispensers |-> paused[d] \/ (d = current /\ StandsStill)]
      BY <2>2 DEF Tick
    <3>2. \A d \in Dispensers : (paused[d] \/ (d = current /\ StandsStill)) \in BOOLEAN
      BY Zenon
    <3> QED BY <3>1, <3>2, Zenon
  <2>3. CASE paused' = paused BY <2>1, <2>3
  <2> QED BY <2>2, <2>3
       DEF handleChooseTRK, createOrder, BeginFuelling, handleBasicTouch, ForgetDispenser, Touch
<1> QED BY <1>1, <1>2, <1>3, <1>4 DEF TypeOK

\* What a visit leaves alone, and the event it visits.
LEMMA VisitTypes ==
  ASSUME TypeOK, Stretch(batch), NEW w, Visit(w)
  PROVE  /\ Head(batch) \in Event /\ Head(batch) = batch[1] /\ Head(batch).id \in 1..Len(log)
         /\ batch' \in Seq(Event) /\ last_event' \in Nat
         /\ UNCHANGED <<current, waiting, responses, srv, log, poured, still, confirmed, touches>>
<1>1. batch \in Seq(Event) /\ batch # <<>> /\ log \in Seq(Event) BY DEF TypeOK, Visit
<1>2. /\ batch' = Tail(batch) /\ last_event' = Head(batch).id
      /\ UNCHANGED <<current, waiting, responses, srv, log, poured, still, confirmed, touches>>
  BY DEF Visit, srvVars
<1>3. Head(batch) = batch[1] /\ batch[1] \in Event /\ Tail(batch) \in Seq(Event) /\ 1 \in 1..Len(batch)
  BY <1>1, TailFacts
<1>4. batch[1].id \in 1..Len(log) BY <1>3 DEF Stretch, StretchOf
<1>5. batch[1].id \in Nat BY <1>3, EventFields
<1> QED BY <1>2, <1>3, <1>4, <1>5

LEMMA FlowsTypes ==
  ASSUME TypeOK, NEW d \in Dispensers
  PROVE  /\ Flows(d) => age' \in [Dispensers -> 0..Timeout] /\ paused' \in [Dispensers -> BOOLEAN]
         /\ UNCHANGED <<age, paused>> => age' \in [Dispensers -> 0..Timeout]
                                         /\ paused' \in [Dispensers -> BOOLEAN]
<1>1. age \in [Dispensers -> 0..Timeout] /\ paused \in [Dispensers -> BOOLEAN] BY DEF TypeOK
<1>2. 0 \in 0..Timeout BY DeliveryBounds
<1>3. [age EXCEPT ![d] = 0] \in [Dispensers -> 0..Timeout] BY <1>1, <1>2, Replace
<1>4. [paused EXCEPT ![d] = FALSE] \in [Dispensers -> BOOLEAN] BY <1>1, Zenon
<1> QED BY <1>1, <1>3, <1>4 DEF Flows

\* The record of a new order.
LEMMA NewOrderFields ==
  ASSUME NEW d, NEW o \in OrderOrNone
  PROVE  NewOrder(d, o) \in DatabaseOrder /\ NewOrder(d, o).id = o /\ NewOrder(d, o).fact = 0
<1>1. /\ DefaultOrder.id = NoOrder /\ DefaultOrder.status = "" /\ DefaultOrder.amount = 0
      /\ DefaultOrder.fact = 0 /\ DefaultOrder.finalized = FALSE
  BY Zenon DEF DefaultOrder
<1>2. 0 \in Amounts /\ "" \in OrderStatuses /\ NoOrder \in OrderOrNone
  BY DeliveryBounds DEF Amounts, OrderStatuses, OrderOrNone
<1>3. FALSE \in BOOLEAN BY Zenon
<1>4. DefaultOrder \in DatabaseOrder BY <1>2, <1>3, Zenon DEF DefaultOrder, DatabaseOrder
<1> HIDE DEF DefaultOrder
<1> QED BY <1>1, <1>4 DEF NewOrder, DatabaseOrder

LEMMA EventTypes ==
  ASSUME TypeOK, LogInv, Stretch(batch),
         StatusEvent \/ DisplayEvent \/ OrderChangedEvent \/ OrderCreatedEvent
  PROVE  TypeOK'
<1> DEFINE e == Head(batch)
           d == e.dev
<1>1. /\ e \in Event /\ e.id \in 1..Len(log)
      /\ batch' \in Seq(Event) /\ last_event' \in Nat
      /\ UNCHANGED <<current, waiting, responses, srv, log, poured, still, confirmed, touches>>
  BY VisitTypes DEF StatusEvent, DisplayEvent, OrderChangedEvent, OrderCreatedEvent
<1>2. /\ d \in Dispensers /\ e.order \in OrderOrNone /\ e.amount \in Amounts
      /\ e.status \in Statuses \cup OrderStatuses
  BY <1>1, EventFields
<1>3. orders \in [Dispensers -> DatabaseOrder] /\ requests \in Seq(Request)
      /\ status \in [Dispensers -> Statuses] /\ dropped \subseteq 1..Len(log) /\ overwritten \subseteq Orders
  BY DEF TypeOK
<1>4. /\ \A c \in {"STATUS", "close"} : requests \o Command(c, d) \in Seq(Request)
      /\ requests \o <<>> \in Seq(Request)
  BY <1>2, <1>3, Requests, Concat
<1>5. orders[d] \in DatabaseOrder BY <1>2, <1>3
<1>6. log[e.id] = e /\ e.id \in Indices
  <2>1. batch # <<>> /\ e = batch[1] /\ 1 \in 1..Len(batch)
    <3>1. batch # <<>>
      BY DEF StatusEvent, DisplayEvent, OrderChangedEvent, OrderCreatedEvent, Visit
    <3>2. batch \in Seq(Event) BY DEF TypeOK
    <3> QED BY <3>1, <3>2, TailFacts
  <2> QED BY <1>1, <2>1 DEF Stretch, StretchOf, Indices
<1>7. e.what = "status" => e.status \in Statuses BY <1>6 DEF LogInv, Numbered
<1>8. e.what = "changed" => e.status \in OrderStatuses BY <1>6 DEF LogInv, Numbered
<1>9. e.what = "created" => e.order \in Orders BY <1>6 DEF LogInv, CreatedOnce
<1>10. OverwrittenBy(e) \subseteq Orders
  <2>1. \A i \in e.id..Len(log) : log[i].what = "created" => log[i].order \in Orders
    <3>1. \A i \in e.id..Len(log) : i \in Indices BY <1>1, <1>6 DEF Indices
    <3> QED BY <3>1 DEF LogInv, CreatedOnce
  <2> QED BY <2>1 DEF OverwrittenBy
<1> HIDE DEF e
<1>11. CASE StatusEvent
  <2>1. e.what = "status" BY <1>11 DEF StatusEvent, Visit, e
  <2>2. status' \in [Dispensers -> Statuses]
    <3>1. status' = [status EXCEPT ![d] = e.status] BY <1>11 DEF StatusEvent, e
    <3> QED BY <1>2, <1>3, <1>7, <2>1, <3>1, Replace
  <2>3. requests' \in Seq(Request) BY <1>4, <1>11 DEF StatusEvent, Send, e
  <2>4. age' \in [Dispensers -> 0..Timeout] /\ paused' \in [Dispensers -> BOOLEAN]
    BY <1>2, <1>11, FlowsTypes DEF StatusEvent, e
  <2>5. UNCHANGED <<orders, dropped, overwritten>> BY <1>11 DEF StatusEvent, pastVars
  <2> QED BY <1>1, <2>2, <2>3, <2>4, <2>5 DEF TypeOK
<1>12. CASE DisplayEvent
  <2>1. [orders[d] EXCEPT !.amount = e.amount, !.fact = e.amount] \in DatabaseOrder
    BY <1>2, <1>5 DEF DatabaseOrder
  <2>2. orders' \in [Dispensers -> DatabaseOrder]
    <3>1. [orders EXCEPT ![d].amount = e.amount, ![d].fact = e.amount]
            = [orders EXCEPT ![d] = [orders[d] EXCEPT !.amount = e.amount, !.fact = e.amount]]
      BY <1>2, <1>3
    <3>2. \/ orders' = orders
          \/ orders' = [orders EXCEPT ![d].amount = e.amount, ![d].fact = e.amount]
      BY <1>12 DEF DisplayEvent, e
    <3>3. [orders EXCEPT ![d] = [orders[d] EXCEPT !.amount = e.amount, !.fact = e.amount]]
            \in [Dispensers -> DatabaseOrder]
      BY <1>2, <1>3, <2>1, Replace
    <3> QED BY <1>3, <3>1, <3>2, <3>3
  <2>3. age' \in [Dispensers -> 0..Timeout] /\ paused' \in [Dispensers -> BOOLEAN]
    BY <1>2, <1>12, FlowsTypes DEF DisplayEvent, DisplayFlows, e
  <2>4. dropped' \subseteq 1..Len(log) /\ overwritten' \subseteq Orders
    BY <1>1, <1>3, <1>10, <1>12 DEF DisplayEvent, e
  <2>5. UNCHANGED <<status, requests>> BY <1>12 DEF DisplayEvent
  <2> QED BY <1>1, <2>2, <2>3, <2>4, <2>5 DEF TypeOK
<1>13. CASE OrderChangedEvent
  <2>1. e.what = "changed" BY <1>13 DEF OrderChangedEvent, Visit, e
  <2>2. [orders[d] EXCEPT !.status = e.status, !.fact = ChangedFact(orders[d], e)] \in DatabaseOrder
    BY <1>2, <1>5, <1>8, <2>1 DEF DatabaseOrder, ChangedFact
  <2>3. orders' \in [Dispensers -> DatabaseOrder]
    <3>1. orders' = [orders EXCEPT ![d] = [orders[d] EXCEPT !.status = e.status,
                                             !.fact = ChangedFact(orders[d], e)]]
      <4>1. orders' = [orders EXCEPT ![d].status = e.status, ![d].fact = ChangedFact(orders[d], e)]
        BY <1>13 DEF OrderChangedEvent, e
      <4> QED BY <1>2, <1>3, <4>1
    <3> QED BY <1>2, <1>3, <2>2, <3>1, Replace
  <2>4. requests' \in Seq(Request) BY <1>4, <1>13 DEF OrderChangedEvent, Send, e
  <2>5. overwritten' \subseteq Orders BY <1>3, <1>10, <1>13 DEF OrderChangedEvent, e
  <2>6. UNCHANGED <<status, age, paused, dropped>> BY <1>13 DEF OrderChangedEvent
  <2> QED BY <1>1, <2>3, <2>4, <2>5, <2>6 DEF TypeOK
<1>14. CASE OrderCreatedEvent
  <2>1. e.what = "created" BY <1>14 DEF OrderCreatedEvent, Visit, e
  <2>2. NewOrder(d, e.order) \in DatabaseOrder
    BY <1>2, NewOrderFields
  <2>3. orders' \in [Dispensers -> DatabaseOrder]
    <3>1. orders' = orders \/ orders' = [orders EXCEPT ![d] = NewOrder(d, e.order)]
      BY <1>14 DEF OrderCreatedEvent, e
    <3> QED BY <1>2, <1>3, <2>2, <3>1, Replace
  <2>4. requests' \in Seq(Request) BY <1>3, <1>4, <1>14 DEF OrderCreatedEvent, Send, e
  <2>5. UNCHANGED <<status, age, paused, dropped, overwritten>>
    BY <1>14 DEF OrderCreatedEvent, pastVars
  <2> QED BY <1>1, <2>3, <2>4, <2>5 DEF TypeOK
<1> QED BY <1>11, <1>12, <1>13, <1>14

LEMMA AnswerTypes ==
  ASSUME TypeOK, EventsAnswer \/ StatusAnswer
  PROVE  TypeOK'
<1> DEFINE r == Head(responses)
           d == r.dev
<1>1. responses # <<>> /\ waiting' \in BOOLEAN /\ responses' = Tail(responses)
  <2>1. responses # <<>> /\ waiting' = FALSE /\ responses' = Tail(responses)
    BY DEF EventsAnswer, StatusAnswer, Handling, Taken
  <2>2. waiting' \in BOOLEAN BY <2>1, Zenon
  <2> QED BY <2>1, <2>2
<1>2. r \in Response /\ responses' \in Seq(Response) BY <1>1, TailFacts DEF TypeOK
<1> HIDE DEF r
<1>3. CASE EventsAnswer
  <2>1. r.kind = "events" /\ batch' = r.events BY <1>3 DEF EventsAnswer, Handling, r
  <2>2. batch' \in Seq(Event) BY <1>2, <2>1, Responses
  <2>3. UNCHANGED <<current, orders, status, age, paused, last_event, requests, srv, log, poured,
                    still, dropped, overwritten, confirmed, touches>>
    BY <1>3 DEF EventsAnswer, srvVars, pastVars
  <2> QED BY <1>1, <1>2, <2>2, <2>3 DEF TypeOK
<1>4. CASE StatusAnswer
  <2>1. /\ d \in Dispensers /\ r.status \in Statuses /\ r.order \in OrderOrNone
        /\ r.ostatus \in OrderStatuses
    BY <1>2, <1>4, Responses DEF StatusAnswer, Handling, r
  <2>2. status' \in [Dispensers -> Statuses]
    <3>1. status' = [status EXCEPT ![d] = r.status] BY <1>4 DEF StatusAnswer, r
    <3>2. status \in [Dispensers -> Statuses] BY DEF TypeOK
    <3> QED BY <2>1, <3>1, <3>2, Replace
  <2>3. age' \in [Dispensers -> 0..Timeout] /\ paused' \in [Dispensers -> BOOLEAN]
    BY <1>4, <2>1, FlowsTypes DEF StatusAnswer, r
  <2>4. UNCHANGED <<current, last_event, batch, srv, log, poured, still, dropped, overwritten, touches>>
    BY <1>4 DEF StatusAnswer, srvVars, pastVars
  <2>5. requests' \in Seq(Request)
    <3>1. requests \in Seq(Request) BY DEF TypeOK
    <3>2. requests \o Command("close", d) \in Seq(Request) BY <2>1, <3>1, Requests, Concat
    <3> QED BY <1>4, <3>1, <3>2 DEF StatusAnswer, Send, r
  <2>6. orders' \in [Dispensers -> DatabaseOrder]
        /\ confirmed' \in [Orders -> SUBSET [amount : Amounts, told : BOOLEAN]]
    <3> DEFINE o == [orders[d] EXCEPT !.status = r.ostatus]
    <3>1. orders \in [Dispensers -> DatabaseOrder]
          /\ confirmed \in [Orders -> SUBSET [amount : Amounts, told : BOOLEAN]]
      BY DEF TypeOK
    <3>2. o \in DatabaseOrder /\ orders[d] \in DatabaseOrder BY <2>1, <3>1 DEF DatabaseOrder
    <3>3. CASE UNCHANGED <<orders, confirmed>> BY <3>1, <3>3
    <3>4. CASE r.order # NoOrder /\ r.order = orders[d].id /\ processOrderFinalization(d, o)
      <4>1. o.id = orders[d].id /\ o.id \in Orders /\ o.fact \in Amounts
        BY <2>1, <3>2, <3>4 DEF DatabaseOrder, OrderOrNone
      <4> DEFINE c == [amount |-> o.fact, told |-> Told(o.id)]
                 f == [o EXCEPT !.finalized = TRUE]
      <4>2. f \in DatabaseOrder
        <5>1. TRUE \in BOOLEAN BY Zenon
        <5> QED BY <3>2, <5>1 DEF DatabaseOrder
      <4>3. c \in [amount : Amounts, told : BOOLEAN]
        <5>1. Told(o.id) \in BOOLEAN BY Zenon DEF Told
        <5> HIDE DEF o
        <5> QED BY <4>1, <5>1
      <4> HIDE DEF o, c, f
      <4>4. confirmed[o.id] \cup {c} \in SUBSET [amount : Amounts, told : BOOLEAN]
        BY <3>1, <4>1, <4>3
      <4>5. \/ orders' = [orders EXCEPT ![d] = f]
               /\ confirmed' = [confirmed EXCEPT ![o.id] = confirmed[o.id] \cup {c}]
            \/ orders' = [orders EXCEPT ![d] = o] /\ confirmed' = confirmed
        BY <3>4 DEF processOrderFinalization, c, f
      <4> QED BY <2>1, <3>1, <3>2, <4>1, <4>2, <4>4, <4>5, Replace
    <3> QED BY <1>4, <3>3, <3>4 DEF StatusAnswer, r
  <2> QED BY <1>1, <1>2, <2>2, <2>3, <2>4, <2>5, <2>6 DEF TypeOK
<1> QED BY <1>3, <1>4

LEMMA ServeTypes ==
  ASSUME TypeOK, Worker, ServerFacts
  PROVE  TypeOK'
<1> DEFINE q == Head(requests)
<1>1. /\ requests # <<>> /\ requests' = Tail(requests)
      /\ UNCHANGED <<current, orders, status, age, paused, last_event, batch, poured,
                     still, dropped, overwritten, confirmed, touches>>
  BY DEF Worker, ServeEvents, ServeStatus, ServeCreate, ServeAuthorize, ServeClose, Served, pastVars
<1>2. q \in Request /\ requests' \in Seq(Request) BY <1>1, TailFacts DEF TypeOK
<1>3. waiting' \in BOOLEAN
  <2>1. waiting \in BOOLEAN BY DEF TypeOK
  <2>2. waiting' = waiting \/ waiting' = FALSE
    BY DEF Worker, ServeEvents, ServeStatus, ServeCreate, ServeAuthorize, ServeClose, Answer, Acknowledge
  <2> QED BY <2>1, <2>2, Zenon
<1>4. responses' \in Seq(Response)
  <2>1. responses \in Seq(Response) /\ log \in Seq(Event) /\ Len(log) \in Nat BY DEF TypeOK
  <2>2. \A a \in Response : Append(responses, a) \in Seq(Response) BY <2>1
  <2>3. CASE responses' = responses BY <2>1, <2>3
  <2>4. CASE ServeEvents
    <3>1. q.from \in Nat BY <1>2, <2>4, Requests DEF ServeEvents, Served
    <3>2. SubSeq(log, q.from + 1, Len(log)) \in Seq(Event) BY <2>1, <3>1
    <3> QED BY <2>2, <2>4, <3>2, Responses DEF ServeEvents, Answer
  <2>5. CASE ServeStatus
    <3>1. q.dev \in Dispensers BY <1>2, <2>5, Requests DEF ServeStatus, Served
    <3>2. /\ srv[q.dev].status \in Statuses /\ srv[q.dev].order \in OrderOrNone
          /\ srv[q.dev].ostatus \in OrderStatuses
      BY <3>1 DEF TypeOK
    <3> QED BY <2>2, <2>5, <3>1, <3>2, Responses DEF ServeStatus, Answer
  <2> QED BY <2>3, <2>4, <2>5 DEF Worker, ServeCreate, ServeAuthorize, ServeClose, Acknowledge
<1>5. srv' \in [Dispensers -> [status : Statuses, order : OrderOrNone, ostatus : OrderStatuses]]
  <2>1. srv \in [Dispensers -> [status : Statuses, order : OrderOrNone, ostatus : OrderStatuses]]
    BY DEF TypeOK
  <2>2. {"", "READY", "AUTHORIZED"} \subseteq OrderStatuses /\ Orders \subseteq OrderOrNone
        /\ NoOrder \in OrderOrNone
    BY DEF OrderStatuses, OrderOrNone
  <2>3. CASE srv' = srv BY <2>1, <2>3
  <2>4. CASE ServeCreate
    <3>1. q.dev \in Dispensers BY <1>2, <2>4, Requests DEF ServeCreate, Served
    <3>2. srv' = srv \/ \E o \in Orders : srv' = [srv EXCEPT ![q.dev].order = o, ![q.dev].ostatus = "READY"]
      BY <2>4 DEF ServeCreate
    <3> QED BY <2>1, <2>2, <3>1, <3>2, ZenonT(60)
  <2>5. CASE ServeAuthorize
    <3>1. q.dev \in Dispensers BY <1>2, <2>5, Requests DEF ServeAuthorize, Served
    <3>2. srv' = srv \/ srv' = [srv EXCEPT ![q.dev].ostatus = "AUTHORIZED"]
      BY <2>5 DEF ServeAuthorize
    <3> QED BY <2>1, <2>2, <3>1, <3>2
  <2>6. CASE ServeClose
    <3>1. q.dev \in Dispensers BY <1>2, <2>6, Requests DEF ServeClose, Served
    <3>2. srv' = srv \/ srv' = [srv EXCEPT ![q.dev].order = NoOrder, ![q.dev].ostatus = ""]
      BY <2>6 DEF ServeClose
    <3> QED BY <2>1, <2>2, <3>1, <3>2, ZenonT(60)
  <2> QED BY <2>3, <2>4, <2>5, <2>6 DEF Worker, ServeEvents, ServeStatus, Answer
<1>6. log' \in Seq(Event) /\ dropped' \subseteq 1..Len(log')
  <2>1. log' \in Seq(Event) /\ Len(log) \in Nat /\ Len(log') \in Nat /\ Len(log) <= Len(log')
    BY DEF ServerFacts, Grows
  <2>2. dropped' = dropped /\ dropped \subseteq 1..Len(log) BY <1>1 DEF TypeOK
  <2> QED BY <2>1, <2>2
<1> QED BY <1>1, <1>2, <1>3, <1>4, <1>5, <1>6 DEF TypeOK

LEMMA ForecourtTypes ==
  ASSUME TypeOK, ServerFacts, NEW d \in Dispensers,
         LiftNozzle(d) \/ StartFuelling(d) \/ Pour(d) \/ Deliver(d) \/ HangNozzle(d)
  PROVE  TypeOK'
<1>1. UNCHANGED <<progVars, batch, netVars, pastVars, confirmed, touches>>
  BY DEF LiftNozzle, StartFuelling, Pour, Deliver, HangNozzle, Forecourt
<1>2. still' \in [Dispensers -> 0..Timeout]
  <2>1. still \in [Dispensers -> 0..Timeout] /\ 0 \in 0..Timeout BY DeliveryBounds DEF TypeOK
  <2>2. still' = still \/ still' = [still EXCEPT ![d] = 0]
    BY DEF LiftNozzle, StartFuelling, Pour, Deliver, HangNozzle
  <2> QED BY <2>1, <2>2, Replace
<1>3. srv' \in [Dispensers -> [status : Statuses, order : OrderOrNone, ostatus : OrderStatuses]]
  <2>1. srv \in [Dispensers -> [status : Statuses, order : OrderOrNone, ostatus : OrderStatuses]]
    BY DEF TypeOK
  <2>2. \E s \in Statuses, t \in OrderStatuses :
          \/ srv' = srv \/ srv' = [srv EXCEPT ![d].status = s]
          \/ srv' = [srv EXCEPT ![d].status = s, ![d].ostatus = t]
    <3>1. /\ {"NOZZLE_UP", "FUELLING", "COMPLETE", "IDLE"} \subseteq Statuses
          /\ {"DELIVERED", "INTERRUPTED"} \subseteq OrderStatuses
      BY DEF Statuses, OrderStatuses, Finished
    <3> QED BY <3>1 DEF LiftNozzle, StartFuelling, Pour, Deliver, HangNozzle
  <2> QED BY <2>1, <2>2
<1>4. log' \in Seq(Event) /\ dropped' \subseteq 1..Len(log') /\ poured' \in [Orders -> Amounts]
  <2>1. log' \in Seq(Event) /\ Len(log) \in Nat /\ Len(log') \in Nat /\ Len(log) <= Len(log')
        /\ poured' \in [Orders -> Amounts]
    BY DEF ServerFacts, Grows
  <2>2. dropped' = dropped /\ dropped \subseteq 1..Len(log) BY <1>1 DEF TypeOK, pastVars
  <2> QED BY <2>1, <2>2
<1> QED BY <1>1, <1>2, <1>3, <1>4 DEF TypeOK, progVars, netVars, pastVars

\* Every step keeps the types.
LEMMA StepTypes ==
  ASSUME TypeOK, LogInv, Stretch(batch), [Next]_vars
  PROVE  TypeOK'
<1>1. ServerFacts BY ControllerStep
<1>2. CASE UNCHANGED vars
  BY <1>2 DEF vars, progVars, netVars, srvVars, pastVars, TypeOK
<1>3. CASE Core BY <1>3, AnswerTypes, EventTypes DEF Core
<1>4. CASE Worker BY <1>1, <1>4, ServeTypes
<1> QED BY <1>1, <1>2, <1>3, <1>4, TouchTypes, ForecourtTypes DEF Next

-----------------------------------------------------------------------------
(* The stream of events.                                                   *)

\* A stretch of the log stays one when the log grows.
LEMMA StretchKept ==
  ASSUME NEW l \in Seq(Event), NEW m \in Seq(Event), Len(l) <= Len(m),
         \A i \in 1..Len(l) : m[i] = l[i], NEW s, StretchOf(s, l)
  PROVE  StretchOf(s, m)
<1>1. \A i \in 1..Len(l) : i \in 1..Len(m) OBVIOUS
<1> QED BY <1>1 DEF StretchOf

\* The last event of a stretch lies in the log.
LEMMA StretchEnds ==
  ASSUME NEW l \in Seq(Event), NEW s \in Seq(Event), s # <<>>, StretchOf(s, l)
  PROVE  /\ s[1].id \in 1..Len(l) /\ s[Len(s)].id \in 1..Len(l)
         /\ s[Len(s)].id = s[1].id + (Len(s) - 1) /\ Len(s) \in Nat \ {0}
<1>1. 1 \in 1..Len(s) /\ Len(s) \in 1..Len(s) /\ Len(s) \in Nat \ {0} BY TailFacts
<1> QED BY <1>1 DEF StretchOf

\* The rest of a stretch is one.
LEMMA StretchTail ==
  ASSUME NEW l \in Seq(Event), NEW s \in Seq(Event), s # <<>>, StretchOf(s, l)
  PROVE  /\ StretchOf(Tail(s), l)
         /\ Tail(s) # <<>> => /\ Tail(s)[1].id = s[1].id + 1
                              /\ Tail(s)[Len(Tail(s))].id = s[Len(s)].id
         /\ Tail(s) = <<>> => s[Len(s)].id = s[1].id
<1>1. /\ Tail(s) \in Seq(Event) /\ Len(Tail(s)) = Len(s) - 1 /\ Len(s) \in Nat \ {0}
      /\ \A i \in 1..Len(s) - 1 : Tail(s)[i] = s[i + 1]
  BY TailFacts
<1> DEFINE t == Tail(s)
<1> HIDE DEF t
<1>2. /\ t \in Seq(Event) /\ Len(t) = Len(s) - 1
      /\ \A i \in 1..Len(t) : t[i] = s[i + 1] /\ i + 1 \in 1..Len(s) /\ i \in Nat
  BY <1>1 DEF t
<1>3. s[1].id \in Nat
  <2>1. 1 \in 1..Len(s) BY <1>1
  <2> QED BY <2>1 DEF StretchOf
<1>4. \A i \in 1..Len(t) : /\ t[i].id \in 1..Len(l) /\ t[i] = l[t[i].id]
                           /\ t[i].id = s[1].id + i
  <2> SUFFICES ASSUME NEW i \in 1..Len(t)
               PROVE  t[i].id \in 1..Len(l) /\ t[i] = l[t[i].id] /\ t[i].id = s[1].id + i
    OBVIOUS
  <2>1. t[i] = s[i + 1] /\ i + 1 \in 1..Len(s) /\ i \in Nat BY <1>2
  <2>2. s[i + 1].id \in 1..Len(l) /\ s[i + 1] = l[s[i + 1].id] /\ s[i + 1].id = s[1].id + ((i + 1) - 1)
    BY <2>1 DEF StretchOf
  <2> QED BY <1>3, <2>1, <2>2
<1>5. StretchOf(t, l)
  <2>1. \A i \in 1..Len(t) : 1 \in 1..Len(t) /\ i \in Nat BY <1>1, <1>2
  <2>2. ASSUME NEW i \in 1..Len(t) PROVE t[i].id = t[1].id + (i - 1)
    <3>1. t[i].id = s[1].id + i /\ t[1].id = s[1].id + 1 /\ i \in Nat BY <1>4, <2>1
    <3> QED BY <1>3, <3>1
  <2> QED BY <1>4, <2>2 DEF StretchOf
<1>6. ASSUME t # <<>> PROVE t[1].id = s[1].id + 1 /\ t[Len(t)].id = s[Len(s)].id
  <2>1. 1 \in 1..Len(t) /\ Len(t) \in 1..Len(t) BY <1>1, <1>2, <1>6
  <2>2. t[Len(t)] = s[Len(t) + 1] BY <1>2, <2>1
  <2>3. Len(t) + 1 = Len(s) BY <1>1, <1>2
  <2> QED BY <1>4, <2>1, <2>2, <2>3
<1>7. ASSUME t = <<>> PROVE s[Len(s)].id = s[1].id
  <2>0. Len(t) = 0 BY <1>7
  <2>1. Len(s) \in Nat /\ Len(t) = Len(s) - 1 BY <1>1, <1>2
  <2>2. Len(s) = 1 BY <2>0, <2>1
  <2> QED BY <2>2
<1> QED BY <1>5, <1>6, <1>7 DEF t

\* What GET_EVENTS answers with: the log after the event n.
LEMMA StretchAsked ==
  ASSUME NEW l \in Seq(Event), \A k \in 1..Len(l) : l[k].id = k, NEW n \in Nat, n <= Len(l)
  PROVE  LET s == SubSeq(l, n + 1, Len(l))
         IN  /\ s \in Seq(Event) /\ StretchOf(s, l)
             /\ s # <<>> => s[1].id = n + 1 /\ s[Len(s)].id = Len(l)
<1> DEFINE s == SubSeq(l, n + 1, Len(l))
<1>1. /\ s \in Seq(Event) /\ Len(s) = Len(l) - n /\ Len(l) \in Nat
      /\ \A i \in 1..Len(s) : s[i] = l[n + i]
  OBVIOUS
<1> HIDE DEF s
<1>2. \A i \in 1..Len(s) : n + i \in 1..Len(l) /\ i \in Nat BY <1>1
<1>3. \A i \in 1..Len(s) : s[i].id = n + i /\ s[i].id \in 1..Len(l) /\ s[i] = l[s[i].id]
  <2> SUFFICES ASSUME NEW i \in 1..Len(s)
               PROVE  s[i].id = n + i /\ s[i].id \in 1..Len(l) /\ s[i] = l[s[i].id]
    OBVIOUS
  <2>1. n + i \in 1..Len(l) /\ s[i] = l[n + i] BY <1>1, <1>2
  <2>2. l[n + i].id = n + i BY <2>1
  <2> QED BY <2>1, <2>2
<1>4. StretchOf(s, l)
  <2>1. \A i \in 1..Len(s) : 1 \in 1..Len(s) /\ i \in Nat BY <1>1
  <2>2. \A i \in 1..Len(s) : s[i].id = s[1].id + (i - 1) BY <1>3, <2>1
  <2> QED BY <1>3, <2>2 DEF StretchOf
<1>5. ASSUME s # <<>> PROVE s[1].id = n + 1 /\ s[Len(s)].id = Len(l)
  <2>1. 1 \in 1..Len(s) /\ Len(s) \in 1..Len(s) /\ n + Len(s) = Len(l) BY <1>1, <1>5
  <2> QED BY <1>3, <2>1
<1> QED BY <1>1, <1>4, <1>5 DEF s

\* Most steps leave the answer in hand and the ones that wait.
SameAnswers == UNCHANGED <<batch, last_event, responses>>

\* Whatever is asked for, GET_EVENTS goes on from the last event visited.
AsksLately ==
  \A i \in 1..Len(requests') : requests'[i].cmd = "EVENTS" =>
    \/ requests'[i].from = last_event
    \/ \E j \in 1..Len(requests) : requests'[i] = requests[j]

LEMMA AsksMore ==
  ASSUME TypeOK, NEW rs \in Seq(Request), requests' = requests \o rs,
         \A i \in 1..Len(rs) : rs[i].cmd = "EVENTS" => rs[i].from = last_event
  PROVE  AsksLately
<1>1. requests \in Seq(Request) BY DEF TypeOK
<1>2. /\ Len(requests') = Len(requests) + Len(rs)
      /\ \A i \in 1..Len(requests) : requests'[i] = requests[i]
      /\ \A i \in 1..Len(rs) : requests'[Len(requests) + i] = rs[i]
  BY <1>1, Concat
<1>3. Len(requests) \in Nat /\ Len(rs) \in Nat BY <1>1
<1>4. ASSUME NEW i \in 1..Len(requests') , i \notin 1..Len(requests)
      PROVE  \E k \in 1..Len(rs) : requests'[i] = rs[k]
  <2>1. i - Len(requests) \in 1..Len(rs) /\ i = Len(requests) + (i - Len(requests))
    BY <1>2, <1>3, <1>4
  <2> QED BY <1>2, <2>1
<1> QED BY <1>2, <1>4 DEF AsksLately

LEMMA AsksStep ==
  ASSUME TypeOK, LogInv, Stretch(batch), [Next]_vars
  PROVE  AsksLately
<1>1. requests \in Seq(Request) /\ last_event \in Nat BY DEF TypeOK
<1>2. CASE requests' = requests BY <1>2 DEF AsksLately
<1>3. CASE requests # <<>> /\ requests' = Tail(requests)
  <2>1. /\ Len(requests') = Len(requests) - 1 /\ Len(requests) \in Nat
        /\ \A i \in 1..Len(requests) - 1 : requests'[i] = requests[i + 1]
    BY <1>1, <1>3, TailFacts
  <2>2. \A i \in 1..Len(requests') : i + 1 \in 1..Len(requests) BY <2>1
  <2> QED BY <2>1, <2>2 DEF AsksLately
<1>4. ASSUME NEW c \in {"STATUS", "CREATE", "authorize", "close"}, NEW d \in Dispensers \cup {None},
             Send(Command(c, d))
      PROVE  AsksLately
  <2>1. Command(c, d) \in Seq(Request) BY Requests
  <2>2. \A i \in 1..Len(Command(c, d)) : Command(c, d)[i].cmd # "EVENTS" BY Requests
  <2> QED BY <1>4, <2>1, <2>2, AsksMore DEF Send
<1>5. CASE Send(<<>>)
  <2>1. requests' = requests BY <1>1, <1>5 DEF Send
  <2> QED BY <1>2, <2>1
<1>6. CASE Send(<<[cmd |-> "EVENTS", from |-> last_event]>>)
  <2> DEFINE rs == <<[cmd |-> "EVENTS", from |-> last_event]>>
  <2>1. rs \in Seq(Request) BY <1>1, Requests
  <2>2. \A i \in 1..Len(rs) : rs[i].from = last_event OBVIOUS
  <2> QED BY <1>6, <2>1, <2>2, AsksMore DEF Send
<1>7. \/ requests' = requests \/ (requests # <<>> /\ requests' = Tail(requests))
      \/ Send(<<>>) \/ Send(<<[cmd |-> "EVENTS", from |-> last_event]>>)
      \/ \E c \in {"STATUS", "CREATE", "authorize", "close"}, d \in Dispensers \cup {None} :
           Send(Command(c, d))
  <2>1. current \in Dispensers \cup {None} BY DEF TypeOK
  <2>2. CASE \/ UNCHANGED vars \/ (\E d \in Dispensers : handleChooseTRK(d)) \/ ForgetDispenser
             \/ EventsAnswer \/ DisplayEvent
             \/ \E d \in Dispensers :
                  LiftNozzle(d) \/ StartFuelling(d) \/ Pour(d) \/ Deliver(d) \/ HangNozzle(d)
    BY <2>2 DEF vars, netVars, handleChooseTRK, ForgetDispenser, EventsAnswer, DisplayEvent,
                LiftNozzle, StartFuelling, Pour, Deliver, HangNozzle, Forecourt
  <2>3. CASE createOrder \/ BeginFuelling \/ handleBasicTouch
    BY <2>1, <2>3 DEF createOrder, BeginFuelling, handleBasicTouch
  <2>4. CASE Tick BY <2>4 DEF Tick
  <2>5. CASE Worker
    BY <2>5 DEF Worker, ServeEvents, ServeStatus, ServeCreate, ServeAuthorize, ServeClose, Served
  <2>6. CASE StatusEvent \/ OrderChangedEvent \/ OrderCreatedEvent
    <3>1. Head(batch).dev \in Dispensers
      <4>1. Head(batch) \in Event
        BY <2>6, VisitTypes DEF StatusEvent, OrderChangedEvent, OrderCreatedEvent
      <4> QED BY <4>1, EventFields
    <3> QED BY <2>6, <3>1 DEF StatusEvent, OrderChangedEvent, OrderCreatedEvent
  <2>7. CASE StatusAnswer
    <3>1. Head(responses).dev \in Dispensers
      <4>1. responses # <<>> /\ Head(responses).kind = "status" BY <2>7 DEF StatusAnswer, Handling
      <4>2. Head(responses) \in Response BY <4>1, TailFacts DEF TypeOK
      <4> QED BY <4>1, <4>2, Responses
    <3> QED BY <2>7, <3>1 DEF StatusAnswer
  <2> QED BY <2>2, <2>3, <2>4, <2>5, <2>6, <2>7 DEF Next, Core
<1> QED BY <1>2, <1>3, <1>4, <1>5, <1>6, <1>7

\* The answers that wait, and the reach, are within the log.
LEMMA AnswerFacts ==
  ASSUME TypeOK, BatchInv, AnswersInv
  PROVE  /\ log \in Seq(Event) /\ Len(log) \in Nat /\ Reach \in Nat /\ Reach <= Len(log)
         /\ \A i \in 1..Len(responses) : Filled(responses[i]) =>
              /\ responses[i].events \in Seq(Event) /\ responses[i].events[1].id \in Nat
              /\ LastOf(responses[i]) \in Nat /\ LastOf(responses[i]) <= Len(log)
<1>1. log \in Seq(Event) /\ Len(log) \in Nat /\ responses \in Seq(Response) BY DEF TypeOK
<1>2. Reach \in Nat /\ Reach <= Len(log) BY DEF BatchInv
<1>3. ASSUME NEW i \in 1..Len(responses), Filled(responses[i])
      PROVE  /\ responses[i].events \in Seq(Event) /\ responses[i].events[1].id \in Nat
             /\ LastOf(responses[i]) \in Nat /\ LastOf(responses[i]) <= Len(log)
  <2> DEFINE s == responses[i].events
  <2>1. s \in Seq(Event) /\ s # <<>>
    <3>1. responses[i] \in Response BY <1>1
    <3> QED BY <1>3, <3>1, Responses DEF Filled
  <2>2. StretchOf(s, log) BY <1>3 DEF AnswersInv, Stretch
  <2>3. s[1].id \in 1..Len(log) /\ s[Len(s)].id \in 1..Len(log) BY <1>1, <2>1, <2>2, StretchEnds
  <2> QED BY <1>1, <2>1, <2>3 DEF LastOf
<1> QED BY <1>1, <1>2, <1>3

LEMMA UnreplacedLess ==
  ASSUME NEW o, NEW d, NEW x \in Nat, NEW y \in Nat, x <= y, Unreplaced(o, d, y),
         Len(log) \in Nat
  PROVE  Unreplaced(o, d, x)
<1>1. \A j \in Indices : j <= x => j <= y BY DEF Indices
<1> QED BY <1>1 DEF Unreplaced

\* Steps that take no answer and give none.
LEMMA QuietStream ==
  ASSUME TypeOK, StreamInv, FreshInv, Grows, AsksLately, SameAnswers
  PROVE  StreamInv' /\ FreshInv'
<1>1. batch' = batch /\ last_event' = last_event /\ responses' = responses /\ Reach' = Reach
  BY DEF SameAnswers, Reach
<1>2. /\ log \in Seq(Event) /\ log' \in Seq(Event) /\ Len(log) <= Len(log')
      /\ Len(log) \in Nat /\ Len(log') \in Nat /\ \A i \in 1..Len(log) : log'[i] = log[i]
  BY DEF Grows
<1>3. \A s : StretchOf(s, log) => StretchOf(s, log') BY <1>2, StretchKept
<1>4. BatchInv'
  <2>1. StretchOf(batch', log') BY <1>1, <1>3 DEF StreamInv, BatchInv, Stretch
  <2>2. Reach' <= Len(log') BY <1>1, <1>2 DEF StreamInv, BatchInv
  <2> QED BY <1>1, <2>1, <2>2 DEF StreamInv, BatchInv, Stretch
<1>5. AskedInv'
  <2>1. last_event <= Reach BY DEF StreamInv, BatchInv
  <2> QED BY <1>1, <2>1 DEF StreamInv, AskedInv, AsksLately
<1>6. AnswersInv'
  <2>1. \A i \in 1..Len(responses) : Filled(responses[i]) => StretchOf(responses[i].events, log')
    BY <1>3 DEF StreamInv, AnswersInv, Stretch
  <2> QED BY <1>1, <2>1 DEF StreamInv, AnswersInv, Stretch
<1>7. FreshInv'
  <2> SUFFICES ASSUME NEW i \in 1..Len(responses), NEW d \in Dispensers, NEW o \in Orders,
                      AnswersFor(responses[i], d, o), NEW x \in Nat,
                      \/ x <= Reach
                      \/ \E j \in 1..Len(responses) : j < i /\ Filled(responses[j]) /\ x <= LastOf(responses[j])
               PROVE  Unreplaced(o, d, x)'
    BY <1>1 DEF FreshInv
  <2>1. Unreplaced(o, d, x) BY DEF FreshInv
  <2>2. x <= Len(log)
    <3>1. /\ Reach \in Nat /\ Reach <= Len(log)
          /\ \A j \in 1..Len(responses) : Filled(responses[j]) =>
               LastOf(responses[j]) \in Nat /\ LastOf(responses[j]) <= Len(log)
      BY AnswerFacts DEF StreamInv
    <3> QED BY <1>2, <3>1
  <2> QED BY <2>1, <2>2, Kept
<1> QED BY <1>4, <1>5, <1>6, <1>7 DEF StreamInv

\* An answer that may be given now.
GivenNow(r) ==
  \/ r.kind = "status" /\ r.dev \in Dispensers /\ r.order = srv[r.dev].order
  \/ /\ r.kind = "events"
     /\ r.events # <<>> => /\ StretchOf(r.events, log)
                           /\ r.events[1].id <= Reach + 1 /\ LastOf(r) = Len(log)

LEMMA GivenStream ==
  ASSUME TypeOK, LogInv, StreamInv, FreshInv, log' = log, AsksLately,
         UNCHANGED <<batch, last_event>>,
         NEW r \in Response, GivenNow(r), responses' = Append(responses, r)
  PROVE  StreamInv' /\ FreshInv'
<1>1. batch' = batch /\ last_event' = last_event /\ Reach' = Reach BY DEF Reach
<1>2. PICK n \in Nat : n = Len(responses) BY DEF TypeOK
<1>3. /\ responses \in Seq(Response) /\ Len(responses') = n + 1 /\ responses'[n + 1] = r
      /\ \A i \in 1..n : responses'[i] = responses[i]
  BY <1>2 DEF TypeOK
<1>4. \A i \in 1..n + 1 : i \in 1..n \/ i = n + 1 OBVIOUS
<1>5. /\ log \in Seq(Event) /\ Len(log) \in Nat /\ Reach \in Nat /\ Reach <= Len(log)
      /\ \A i \in 1..n : Filled(responses[i]) =>
              /\ LastOf(responses[i]) \in Nat /\ LastOf(responses[i]) <= Len(log)
  BY <1>2, AnswerFacts DEF StreamInv
<1>6. BatchInv' BY <1>1 DEF StreamInv, BatchInv, Stretch
<1>7. AskedInv'
  <2>1. last_event <= Reach BY DEF StreamInv, BatchInv
  <2> QED BY <1>1, <2>1 DEF StreamInv, AskedInv, AsksLately
<1>8. AnswersInv'
  <2>1. \A i \in 1..n + 1 : Filled(responses'[i]) =>
          /\ StretchOf(responses'[i].events, log)
          /\ responses'[i].events[1].id <= Reach + 1 /\ Reach <= LastOf(responses'[i])
    <3>1. \A i \in 1..n : Filled(responses[i]) =>
          /\ StretchOf(responses[i].events, log)
          /\ responses[i].events[1].id <= Reach + 1 /\ Reach <= LastOf(responses[i])
      BY <1>2 DEF StreamInv, AnswersInv, Stretch
    <3>2. Filled(r) => /\ StretchOf(r.events, log)
                       /\ r.events[1].id <= Reach + 1 /\ Reach <= LastOf(r)
      BY <1>5 DEF GivenNow, Filled
    <3> QED BY <1>3, <1>4, <3>1, <3>2
  <2>2. ASSUME NEW i \in 1..n + 1, NEW j \in 1..n + 1, i < j,
               Filled(responses'[i]), Filled(responses'[j])
        PROVE  LastOf(responses'[i]) <= LastOf(responses'[j])
    <3>1. i \in 1..n BY <2>2
    <3>2. CASE j \in 1..n BY <1>2, <1>3, <2>2, <3>1, <3>2 DEF StreamInv, AnswersInv
    <3>3. CASE j = n + 1
      <4>1. LastOf(r) = Len(log) BY <1>3, <2>2, <3>3 DEF GivenNow, Filled
      <4> QED BY <1>3, <1>5, <2>2, <3>1, <3>3, <4>1
    <3> QED BY <1>4, <3>2, <3>3
  <2> QED BY <1>1, <1>3, <2>1, <2>2 DEF AnswersInv, Stretch
<1>9. FreshInv'
  <2>1. \A o \in Orders, d \in Dispensers, x \in Nat : Unreplaced(o, d, x) => Unreplaced(o, d, x)'
    BY DEF Unreplaced, Creates, CreatesOn, Indices
  <2> SUFFICES ASSUME NEW i \in 1..n + 1, NEW d \in Dispensers, NEW o \in Orders,
                      AnswersFor(responses'[i], d, o), NEW x \in Nat,
                      \/ x <= Reach
                      \/ \E j \in 1..n + 1 : j < i /\ Filled(responses'[j]) /\ x <= LastOf(responses'[j])
               PROVE  Unreplaced(o, d, x)
    BY <1>1, <1>3, <2>1 DEF FreshInv
  <2>2. \/ x <= Reach
        \/ \E j \in 1..n : j < i /\ Filled(responses[j]) /\ x <= LastOf(responses[j])
    <3>1. \A j \in 1..n + 1 : j < i => j \in 1..n OBVIOUS
    <3> QED BY <1>3, <3>1
  <2>3. CASE i \in 1..n BY <1>2, <1>3, <2>2, <2>3 DEF FreshInv
  <2>4. CASE i = n + 1
    <3>1. srv[d].order = o BY <1>3, <2>4 DEF GivenNow, AnswersFor
    <3>2. Unreplaced(o, d, Len(log)) BY <1>5, <3>1, Holder DEF LogInv, Owner
    <3>3. x <= Len(log) BY <1>5, <2>2
    <3> QED BY <1>5, <3>2, <3>3, UnreplacedLess
  <2> QED BY <1>4, <2>3, <2>4
<1> QED BY <1>6, <1>7, <1>8, <1>9 DEF StreamInv

\* The head of the answers is taken: the others move up.
LEMMA Shifted ==
  ASSUME TypeOK, responses # <<>>, responses' = Tail(responses)
  PROVE  /\ responses[1] = Head(responses) /\ responses[1] \in Response /\ 1 \in 1..Len(responses)
         /\ Len(responses) \in Nat /\ Len(responses') = Len(responses) - 1
         /\ \A i \in 1..Len(responses') :
              /\ i \in Nat /\ i + 1 \in 1..Len(responses) /\ responses'[i] = responses[i + 1]
              /\ 1 < i + 1
<1>1. /\ Len(responses') = Len(responses) - 1 /\ Head(responses) = responses[1]
      /\ responses[1] \in Response /\ Len(responses) \in Nat \ {0}
      /\ \A i \in 1..Len(responses) - 1 : responses'[i] = responses[i + 1]
  BY TailFacts DEF TypeOK
<1>2. \A i \in 1..Len(responses') : i \in Nat /\ i + 1 \in 1..Len(responses) /\ 1 < i + 1
  BY <1>1
<1> QED BY <1>1, <1>2

\* An answer is taken, and the reach goes no further than it does.
LEMMA TakenStream ==
  ASSUME TypeOK, StreamInv, FreshInv, log' = log, AsksLately, batch = <<>>, responses # <<>>,
         responses' = Tail(responses), last_event' = last_event,
         \/ batch' = batch
         \/ responses[1].kind = "events" /\ batch' = responses[1].events
  PROVE  StreamInv' /\ FreshInv'
<1> DEFINE r == responses[1]
<1>1. /\ r \in Response /\ 1 \in 1..Len(responses) /\ Len(responses) \in Nat
      /\ \A i \in 1..Len(responses') :
           /\ i \in Nat /\ i + 1 \in 1..Len(responses) /\ responses'[i] = responses[i + 1] /\ 1 < i + 1
  BY Shifted
<1>2. /\ log \in Seq(Event) /\ Len(log) \in Nat /\ Reach \in Nat /\ Reach <= Len(log)
      /\ \A i \in 1..Len(responses) : Filled(responses[i]) =>
           /\ responses[i].events \in Seq(Event) /\ responses[i].events[1].id \in Nat
           /\ LastOf(responses[i]) \in Nat /\ LastOf(responses[i]) <= Len(log)
  BY AnswerFacts DEF StreamInv
<1>3. Reach = last_event BY DEF Reach
<1>4. CASE batch' = <<>>
  <2>1. Reach' = Reach BY <1>3, <1>4 DEF Reach
  <2>2. BatchInv' 
    <3>1. StretchOf(batch', log') BY <1>4 DEF StretchOf
    <3> QED BY <1>2, <1>3, <1>4, <2>1, <3>1 DEF StreamInv, BatchInv, Stretch
  <2>3. AskedInv' BY <1>3, <2>1 DEF StreamInv, AskedInv, AsksLately, BatchInv
  <2>4. AnswersInv'
    <3>1. \A i \in 1..Len(responses') : Filled(responses'[i]) =>
            /\ Stretch(responses'[i].events)
            /\ responses'[i].events[1].id <= Reach + 1 /\ Reach <= LastOf(responses'[i])
      BY <1>1 DEF StreamInv, AnswersInv
    <3>2. \A i, j \in 1..Len(responses') :
            i < j /\ Filled(responses'[i]) /\ Filled(responses'[j])
              => LastOf(responses'[i]) <= LastOf(responses'[j])
      BY <1>1 DEF StreamInv, AnswersInv
    <3> QED BY <2>1, <3>1, <3>2 DEF AnswersInv, Stretch
  <2>5. FreshInv'
    <3> SUFFICES ASSUME NEW i \in 1..Len(responses'), NEW d \in Dispensers, NEW o \in Orders,
                        AnswersFor(responses'[i], d, o), NEW x \in Nat,
                        \/ x <= Reach
                        \/ \E j \in 1..Len(responses') :
                             j < i /\ Filled(responses'[j]) /\ x <= LastOf(responses'[j])
                 PROVE  Unreplaced(o, d, x)
      <4>1. \A o \in Orders, d \in Dispensers, x \in Nat : Unreplaced(o, d, x) => Unreplaced(o, d, x)'
        BY DEF Unreplaced, Creates, CreatesOn, Indices
      <4> QED BY <2>1, <4>1 DEF FreshInv
    <3>1. AnswersFor(responses[i + 1], d, o) /\ i + 1 \in 1..Len(responses) BY <1>1
    <3>2. \/ x <= Reach
          \/ \E j \in 1..Len(responses) :
               j < i + 1 /\ Filled(responses[j]) /\ x <= LastOf(responses[j])
      <4>1. ASSUME NEW j \in 1..Len(responses'), j < i, Filled(responses'[j]), x <= LastOf(responses'[j])
            PROVE  \E k \in 1..Len(responses) : k < i + 1 /\ Filled(responses[k]) /\ x <= LastOf(responses[k])
        <5>1. j + 1 \in 1..Len(responses) /\ j + 1 < i + 1 /\ responses'[j] = responses[j + 1]
          BY <1>1, <4>1
        <5> QED BY <4>1, <5>1
      <4> QED BY <4>1
    <3> QED BY <3>1, <3>2 DEF FreshInv
  <2> QED BY <2>2, <2>3, <2>4, <2>5 DEF StreamInv
<1>5. CASE batch' # <<>>
  <2>0. Filled(r) /\ batch' = r.events BY <1>5 DEF Filled
  <2>1. Reach' = LastOf(r) BY <1>5, <2>0 DEF Reach, LastOf
  <2>2. /\ StretchOf(r.events, log) /\ r.events[1].id <= Reach + 1 /\ Reach <= LastOf(r)
        /\ LastOf(r) \in Nat /\ LastOf(r) <= Len(log)
    BY <1>1, <1>2, <2>0 DEF StreamInv, AnswersInv, Stretch
  <2>3. BatchInv'
    BY <1>2, <1>3, <1>5, <2>0, <2>1, <2>2 DEF BatchInv, Stretch
  <2>4. AskedInv'
    <3>1. \A i \in 1..Len(requests) : requests[i].cmd = "EVENTS" =>
            requests[i].from \in Nat /\ requests[i].from <= Reach
      <4>1. \A i \in 1..Len(requests) : requests[i] \in Request BY DEF TypeOK
      <4> QED BY <4>1, Requests DEF StreamInv, AskedInv
    <3>2. \A i \in 1..Len(requests) : requests[i].cmd = "EVENTS" => requests[i].from <= LastOf(r)
      BY <1>2, <2>2, <3>1
    <3>3. last_event <= LastOf(r) BY <1>3, <2>2
    <3> QED BY <2>1, <3>2, <3>3 DEF AskedInv, AsksLately
  <2>5. AnswersInv'
    <3>1. \A i \in 1..Len(responses') : Filled(responses'[i]) =>
            /\ Stretch(responses'[i].events)
            /\ responses'[i].events[1].id <= Reach + 1 /\ responses'[i].events[1].id \in Nat
            /\ LastOf(r) <= LastOf(responses'[i])
      BY <1>1, <1>2, <2>0 DEF StreamInv, AnswersInv
    <3>2. \A i, j \in 1..Len(responses') :
            i < j /\ Filled(responses'[i]) /\ Filled(responses'[j])
              => LastOf(responses'[i]) <= LastOf(responses'[j])
      BY <1>1 DEF StreamInv, AnswersInv
    <3>3. \A n \in Nat : n <= Reach + 1 => n <= LastOf(r) + 1 BY <1>2, <2>2
    <3> QED BY <2>1, <3>1, <3>2, <3>3 DEF AnswersInv, Stretch
  <2>6. FreshInv'
    <3> SUFFICES ASSUME NEW i \in 1..Len(responses'), NEW d \in Dispensers, NEW o \in Orders,
                        AnswersFor(responses'[i], d, o), NEW x \in Nat,
                        \/ x <= LastOf(r)
                        \/ \E j \in 1..Len(responses') :
                             j < i /\ Filled(responses'[j]) /\ x <= LastOf(responses'[j])
                 PROVE  Unreplaced(o, d, x)
      <4>1. \A o \in Orders, d \in Dispensers, x \in Nat : Unreplaced(o, d, x) => Unreplaced(o, d, x)'
        BY DEF Unreplaced, Creates, CreatesOn, Indices
      <4> QED BY <2>1, <4>1 DEF FreshInv
    <3>1. AnswersFor(responses[i + 1], d, o) /\ i + 1 \in 1..Len(responses) /\ 1 < i + 1 BY <1>1
    <3>2. \E j \in 1..Len(responses) : j < i + 1 /\ Filled(responses[j]) /\ x <= LastOf(responses[j])
      <4>1. ASSUME NEW j \in 1..Len(responses'), j < i, Filled(responses'[j]), x <= LastOf(responses'[j])
            PROVE  \E k \in 1..Len(responses) : k < i + 1 /\ Filled(responses[k]) /\ x <= LastOf(responses[k])
        <5>1. j + 1 \in 1..Len(responses) /\ j + 1 < i + 1 /\ responses'[j] = responses[j + 1]
          BY <1>1, <4>1
        <5> QED BY <4>1, <5>1
      <4> QED BY <1>1, <2>0, <3>1, <4>1
    <3> QED BY <3>1, <3>2 DEF FreshInv
  <2> QED BY <2>3, <2>4, <2>5, <2>6 DEF StreamInv
<1> QED BY <1>4, <1>5

\* An event is visited: the reach stays.
LEMMA VisitedStream ==
  ASSUME TypeOK, StreamInv, FreshInv, log' = log, AsksLately, NEW w, Visit(w)
  PROVE  /\ StreamInv' /\ FreshInv' /\ Reach' = Reach
         /\ batch' # <<>> => batch'[1].id = batch[1].id + 1
         /\ batch' = <<>> => Reach = batch[1].id
         /\ batch[1].id <= last_event + 1 /\ batch[1].id \in Indices /\ log[batch[1].id] = batch[1]
<1>1. /\ batch \in Seq(Event) /\ batch # <<>> /\ log \in Seq(Event) /\ Len(log) \in Nat
      /\ last_event \in Nat
  BY DEF TypeOK, Visit
<1>2. batch' = Tail(batch) /\ last_event' = batch[1].id /\ responses' = responses
  BY <1>1, TailFacts DEF Visit
<1>3. StretchOf(batch, log) BY DEF StreamInv, BatchInv, Stretch
<1>4. /\ batch[1].id \in 1..Len(log) /\ batch[Len(batch)].id \in 1..Len(log)
      /\ batch[Len(batch)].id = batch[1].id + (Len(batch) - 1) /\ Len(batch) \in Nat \ {0}
  BY <1>1, <1>3, StretchEnds
<1>5. /\ StretchOf(batch', log)
      /\ batch' # <<>> => /\ batch'[1].id = batch[1].id + 1
                          /\ batch'[Len(batch')].id = batch[Len(batch)].id
      /\ batch' = <<>> => batch[Len(batch)].id = batch[1].id
  BY <1>1, <1>2, <1>3, StretchTail
<1>6. Reach = batch[Len(batch)].id /\ Reach' = Reach BY <1>1, <1>2, <1>5 DEF Reach
<1>7. batch[1].id <= Reach /\ Reach \in Nat /\ batch[1].id \in Nat BY <1>1, <1>4, <1>6
<1>8. BatchInv'
  <2>1. batch' # <<>> => batch'[1].id <= last_event' + 1 BY <1>2, <1>5, <1>7
  <2>2. last_event' <= Reach' /\ Reach' <= Len(log') /\ Reach' \in Nat
    BY <1>2, <1>6, <1>7 DEF StreamInv, BatchInv
  <2> QED BY <1>5, <2>1, <2>2 DEF BatchInv, Stretch
<1>9. AskedInv' BY <1>6 DEF StreamInv, AskedInv, AsksLately, BatchInv
<1>10. AnswersInv' BY <1>2, <1>6 DEF StreamInv, AnswersInv, Stretch
<1>11. FreshInv'
  <2>1. \A o \in Orders, d \in Dispensers, x \in Nat : Unreplaced(o, d, x) => Unreplaced(o, d, x)'
    BY DEF Unreplaced, Creates, CreatesOn, Indices
  <2> QED BY <1>2, <1>6, <2>1 DEF FreshInv
<1>12. batch[1].id <= last_event + 1 BY <1>1 DEF StreamInv, BatchInv
<1>13. batch[1] = log[batch[1].id]
  <2>1. 1 \in 1..Len(batch) BY <1>4
  <2> QED BY <1>3, <2>1 DEF StretchOf
<1> QED BY <1>4, <1>5, <1>6, <1>8, <1>9, <1>10, <1>11, <1>12, <1>13 DEF StreamInv, Indices

\* What the worker gives.
LEMMA GivenAnswers ==
  ASSUME TypeOK, LogInv, StreamInv, ServeEvents \/ ServeStatus
  PROVE  /\ \E r \in Response : GivenNow(r) /\ responses' = Append(responses, r)
         /\ UNCHANGED <<batch, last_event, srv, log, poured, orders, overwritten, confirmed,
                        dropped, age, still>>
<1> DEFINE q == Head(requests)
<1>1. /\ requests # <<>>
      /\ UNCHANGED <<batch, last_event, srv, log, poured, orders, overwritten, confirmed,
                     dropped, age, still>>
  BY DEF ServeEvents, ServeStatus, Served, Answer, pastVars
<1>2. q \in Request /\ q = requests[1] /\ 1 \in 1..Len(requests) BY <1>1, TailFacts DEF TypeOK
<1>3. CASE ServeEvents
  <2> DEFINE s == SubSeq(log, q.from + 1, Len(log))
             r == [kind |-> "events", events |-> s]
  <2>1. q.cmd = "EVENTS" /\ q.from \in Nat BY <1>2, <1>3, Requests DEF ServeEvents, Served
  <2>2. q.from <= Reach BY <1>2, <2>1 DEF StreamInv, AskedInv
  <2>3. Reach <= Len(log) /\ Reach \in Nat /\ Len(log) \in Nat /\ log \in Seq(Event)
    BY DEF StreamInv, BatchInv, TypeOK
  <2>4. \A k \in 1..Len(log) : log[k].id = k BY DEF LogInv, Numbered, Indices
  <2>5. /\ s \in Seq(Event) /\ StretchOf(s, log)
        /\ s # <<>> => s[1].id = q.from + 1 /\ s[Len(s)].id = Len(log)
    <3>1. q.from <= Len(log) BY <2>1, <2>2, <2>3
    <3> QED BY <2>1, <2>3, <2>4, <3>1, StretchAsked
  <2>6. responses' = Append(responses, r) BY <1>3 DEF ServeEvents, Answer
  <2> HIDE DEF s
  <2>7. r \in Response /\ r.kind = "events" /\ r.events = s BY <2>5, Responses
  <2>8. s # <<>> => s[1].id <= Reach + 1 BY <2>1, <2>2, <2>3, <2>5
  <2>9. GivenNow(r) BY <2>5, <2>7, <2>8 DEF GivenNow, LastOf
  <2> QED BY <1>1, <2>6, <2>7, <2>9
<1>4. CASE ServeStatus
  <2> DEFINE r == [kind |-> "status", dev |-> q.dev, status |-> srv[q.dev].status,
                   order |-> srv[q.dev].order, ostatus |-> srv[q.dev].ostatus]
  <2>1. q.dev \in Dispensers BY <1>2, <1>4, Requests DEF ServeStatus, Served
  <2>2. /\ srv[q.dev].status \in Statuses /\ srv[q.dev].order \in OrderOrNone
        /\ srv[q.dev].ostatus \in OrderStatuses
    BY <2>1 DEF TypeOK
  <2>3. r \in Response BY <2>1, <2>2, Responses
  <2>4. responses' = Append(responses, r) BY <1>4 DEF ServeStatus, Answer
  <2>5. GivenNow(r) BY <2>1 DEF GivenNow
  <2> QED BY <1>1, <2>3, <2>4, <2>5
<1> QED BY <1>3, <1>4

\* The steps that leave the answers alone leave the records and what was confirmed.
QuietActions ==
  \/ UNCHANGED vars
  \/ \E d \in Dispensers : handleChooseTRK(d)
  \/ createOrder \/ BeginFuelling \/ handleBasicTouch \/ ForgetDispenser \/ Tick
  \/ ServeCreate \/ ServeAuthorize \/ ServeClose
  \/ \E d \in Dispensers :
       LiftNozzle(d) \/ StartFuelling(d) \/ Pour(d) \/ Deliver(d) \/ HangNozzle(d)

LEMMA QuietFrame ==
  QuietActions => SameAnswers /\ UNCHANGED <<orders, overwritten, confirmed, dropped>>
<1>1. CASE UNCHANGED vars
  BY <1>1 DEF SameAnswers, vars, progVars, netVars, pastVars
<1>2. CASE \/ \E d \in Dispensers : handleChooseTRK(d)
           \/ createOrder \/ BeginFuelling \/ handleBasicTouch \/ ForgetDispenser \/ Tick
  BY <1>2 DEF SameAnswers, handleChooseTRK, createOrder, BeginFuelling, handleBasicTouch,
              ForgetDispenser, Tick, Touch, netVars, pastVars
<1>3. CASE ServeCreate \/ ServeAuthorize \/ ServeClose
  BY <1>3 DEF SameAnswers, ServeCreate, ServeAuthorize, ServeClose, Served, Acknowledge, pastVars
<1>4. CASE \E d \in Dispensers :
             LiftNozzle(d) \/ StartFuelling(d) \/ Pour(d) \/ Deliver(d) \/ HangNozzle(d)
  BY <1>4 DEF SameAnswers, LiftNozzle, StartFuelling, Pour, Deliver, HangNozzle, Forecourt,
              progVars, netVars, pastVars
<1> QED BY <1>1, <1>2, <1>3, <1>4 DEF QuietActions

LEMMA Actions ==
  [Next]_vars => \/ QuietActions \/ ServeEvents \/ ServeStatus \/ EventsAnswer \/ StatusAnswer
                 \/ StatusEvent \/ DisplayEvent \/ OrderChangedEvent \/ OrderCreatedEvent
  BY DEF Next, QuietActions, Core, Worker

\* An answer is taken.
LEMMA TakenFrame ==
  ASSUME TypeOK, EventsAnswer \/ StatusAnswer
  PROVE  /\ batch = <<>> /\ responses # <<>> /\ responses' = Tail(responses)
         /\ UNCHANGED <<last_event, srv, log, poured, overwritten, dropped, still>>
         /\ responses[1] = Head(responses)
         /\ EventsAnswer => /\ responses[1].kind = "events" /\ batch' = responses[1].events
                            /\ UNCHANGED <<orders, confirmed, age>>
         /\ StatusAnswer => responses[1].kind = "status" /\ batch' = batch
<1>1. /\ batch = <<>> /\ responses # <<>> /\ responses' = Tail(responses)
      /\ UNCHANGED <<last_event, srv, log, poured, overwritten, dropped, still>>
      /\ EventsAnswer => /\ Head(responses).kind = "events" /\ batch' = Head(responses).events
                         /\ UNCHANGED <<orders, confirmed, age>>
      /\ StatusAnswer => Head(responses).kind = "status" /\ batch' = batch
  BY DEF EventsAnswer, StatusAnswer, Handling, Taken, srvVars, pastVars
<1> QED BY <1>1, TailFacts DEF TypeOK

\* Every step keeps the order of the stream.
LEMMA StepStream ==
  ASSUME TypeOK, LogInv, StreamInv, FreshInv, [Next]_vars
  PROVE  StreamInv' /\ FreshInv'
<1>1. AsksLately /\ Grows BY AsksStep, ControllerStep DEF StreamInv, BatchInv, ServerFacts
<1>2. CASE QuietActions BY <1>1, <1>2, QuietFrame, QuietStream
<1>3. CASE ServeEvents \/ ServeStatus BY <1>1, <1>3, GivenAnswers, GivenStream
<1>4. CASE EventsAnswer \/ StatusAnswer BY <1>1, <1>4, TakenFrame, TakenStream
<1>5. CASE StatusEvent \/ DisplayEvent \/ OrderChangedEvent \/ OrderCreatedEvent
  <2>1. \E w : Visit(w) /\ log' = log
    BY <1>5 DEF StatusEvent, DisplayEvent, OrderChangedEvent, OrderCreatedEvent, Visit, srvVars
  <2> QED BY <1>1, <2>1, VisitedStream
<1> QED BY <1>2, <1>3, <1>4, <1>5, Actions

-----------------------------------------------------------------------------
(* The records.                                                            *)

\* A step visits the event n.
Visits(n) == n \in Indices /\ batch # <<>> /\ n = batch[1].id /\ \E w : Visit(w)

\* The record of d keeps its order and its amount.
KeepsRecord(d) == orders'[d].id = orders[d].id /\ orders'[d].fact = orders[d].fact

\* The record of d gets the amount of the event n.
WritesRecord(d, n) ==
  /\ log[n].dev = d /\ (log[n].what = "display" \/ Ends(n))
  /\ orders'[d].id = orders[d].id /\ orders'[d].fact = log[n].amount
  /\ (\E i \in Indices : n <= i /\ log[i].what = "created" /\ log[i].order = orders[d].id)
       => orders[d].id \in overwritten'

\* The record of d is made anew for the order that the event n creates.
RenewsRecord(d, n) ==
  /\ log[n].dev = d /\ log[n].what = "created"
  /\ orders'[d].id = log[n].order /\ orders'[d].fact = 0

RecordStep ==
  /\ overwritten \subseteq overwritten'
  /\ \/ \A d \in Dispensers : KeepsRecord(d)
     \/ \E n \in Indices : /\ Visits(n)
                           /\ \A d \in Dispensers :
                                KeepsRecord(d) \/ WritesRecord(d, n) \/ RenewsRecord(d, n)

LEMMA OverwrittenFacts ==
  ASSUME TypeOK, NEW n \in Indices, log[n] = batch[1], batch[1].id = n,
         overwritten' = overwritten \cup OverwrittenBy(batch[1])
  PROVE  (\E i \in Indices : n <= i /\ log[i].what = "created" /\ log[i].order = orders[batch[1].dev].id)
           => orders[batch[1].dev].id \in overwritten'
<1> SUFFICES ASSUME NEW i \in Indices, n <= i, log[i].what = "created",
                    log[i].order = orders[batch[1].dev].id
             PROVE  orders[batch[1].dev].id \in overwritten'
  OBVIOUS
<1>1. i \in batch[1].id..Len(log)
  <2>1. Len(log) \in Nat BY DEF TypeOK
  <2> QED BY <2>1 DEF Indices
<1> QED BY <1>1 DEF OverwrittenBy

\* What the steps do to the records.
LEMMA StepRecords ==
  ASSUME TypeOK, LogInv, StreamInv, FreshInv, [Next]_vars
  PROVE  RecordStep
<1>1. orders \in [Dispensers -> DatabaseOrder] BY DEF TypeOK
<1>2. CASE UNCHANGED <<orders, overwritten>> BY <1>2 DEF RecordStep, KeepsRecord
<1>3. CASE StatusAnswer
  <2> DEFINE r == Head(responses)
             d == r.dev
             o == [orders[d] EXCEPT !.status = r.ostatus]
             f == [o EXCEPT !.finalized = TRUE]
  <2>1. d \in Dispensers
    <3>1. responses # <<>> /\ r.kind = "status" BY <1>3 DEF StatusAnswer, Handling
    <3>2. r \in Response BY <3>1, TailFacts DEF TypeOK
    <3> QED BY <3>1, <3>2, Responses
  <2>2. orders' = orders \/ orders' = [orders EXCEPT ![d] = o] \/ orders' = [orders EXCEPT ![d] = f]
    BY <1>3 DEF StatusAnswer, processOrderFinalization
  <2>3. overwritten' = overwritten BY <1>3 DEF StatusAnswer, pastVars
  <2>4. orders[d] \in DatabaseOrder BY <1>1, <2>1
  <2>5. o.id = orders[d].id /\ o.fact = orders[d].fact /\ f.id = orders[d].id /\ f.fact = orders[d].fact
    BY <2>4 DEF DatabaseOrder
  <2> HIDE DEF o, f
  <2>6. \A x \in Dispensers : KeepsRecord(x) BY <1>1, <2>1, <2>2, <2>5 DEF KeepsRecord
  <2> QED BY <2>3, <2>6 DEF RecordStep
<1>4. CASE DisplayEvent \/ OrderChangedEvent \/ OrderCreatedEvent
  <2>1. (\E w : Visit(w)) /\ log' = log
    BY <1>4 DEF DisplayEvent, OrderChangedEvent, OrderCreatedEvent, Visit, srvVars
  <2>2. batch[1].id \in Indices /\ log[batch[1].id] = batch[1]
    <3>1. AsksLately BY AsksStep DEF StreamInv, BatchInv
    <3> QED BY <2>1, <3>1, VisitedStream
  <2>3. batch # <<>> /\ batch \in Seq(Event) BY <2>1 DEF Visit, TypeOK
  <2>4. Head(batch) = batch[1] /\ batch[1] \in Event BY <2>3, TailFacts
  <2>5. PICK n \in Indices : n = batch[1].id BY <2>2
  <2>6. Visits(n) BY <2>1, <2>3, <2>5 DEF Visits
  <2> DEFINE e == batch[1]
             d == e.dev
  <2>7. d \in Dispensers /\ orders[d] \in DatabaseOrder BY <1>1, <2>4, EventFields
  <2>8. log[n] = e BY <2>2, <2>5
  <2> HIDE DEF e
  <2>9. overwritten \subseteq overwritten'
    BY <1>4 DEF DisplayEvent, OrderChangedEvent, OrderCreatedEvent, pastVars
  <2>10. ASSUME \A x \in Dispensers : x # d => orders'[x] = orders[x],
                KeepsRecord(d) \/ WritesRecord(d, n) \/ RenewsRecord(d, n)
         PROVE  RecordStep
    <3>1. \A x \in Dispensers : x # d => KeepsRecord(x) BY <2>10 DEF KeepsRecord
    <3>2. \A x \in Dispensers : KeepsRecord(x) \/ WritesRecord(x, n) \/ RenewsRecord(x, n)
      BY <2>10, <3>1
    <3> QED BY <2>6, <2>9, <3>2 DEF RecordStep
  <2>11. CASE orders' = orders
    BY <2>10, <2>11 DEF KeepsRecord
  <2>12. CASE DisplayEvent /\ orders' = [orders EXCEPT ![d].amount = e.amount, ![d].fact = e.amount]
              /\ overwritten' = overwritten \cup OverwrittenBy(e)
    <3>1. orders'[d].id = orders[d].id /\ orders'[d].fact = e.amount
          /\ \A x \in Dispensers : x # d => orders'[x] = orders[x]
      BY <1>1, <2>7, <2>12 DEF DatabaseOrder
    <3>2. e.what = "display" BY <2>4, <2>12 DEF DisplayEvent, Visit, e
    <3>3. (\E i \in Indices : n <= i /\ log[i].what = "created" /\ log[i].order = orders[d].id)
            => orders[d].id \in overwritten'
      BY <2>5, <2>8, <2>12, OverwrittenFacts DEF e
    <3>4. WritesRecord(d, n) BY <2>8, <3>1, <3>2, <3>3 DEF WritesRecord
    <3> QED BY <2>10, <3>1, <3>4
  <2>13. CASE OrderChangedEvent
    <3>0. /\ orders' = [orders EXCEPT ![d].status = e.status, ![d].fact = ChangedFact(orders[d], e)]
          /\ overwritten' = overwritten \cup OverwrittenBy(e) /\ e.what = "changed"
      BY <2>4, <2>13 DEF OrderChangedEvent, Visit, e
    <3>1. orders'[d].id = orders[d].id /\ orders'[d].fact = ChangedFact(orders[d], e)
          /\ \A x \in Dispensers : x # d => orders'[x] = orders[x]
      BY <1>1, <2>7, <3>0 DEF DatabaseOrder
    <3>2. CASE e.status \in Finished
      <4>1. Ends(n) BY <2>8, <3>0, <3>2 DEF Ends
      <4>2. ChangedFact(orders[d], e) = e.amount BY <3>2 DEF ChangedFact
      <4>3. (\E i \in Indices : n <= i /\ log[i].what = "created" /\ log[i].order = orders[d].id)
              => orders[d].id \in overwritten'
        BY <2>5, <2>8, <3>0, OverwrittenFacts DEF e
      <4>4. WritesRecord(d, n) BY <2>8, <3>1, <4>1, <4>2, <4>3 DEF WritesRecord
      <4> QED BY <2>10, <3>1, <4>4
    <3>3. CASE e.status \notin Finished
      <4>1. KeepsRecord(d) BY <3>1, <3>3 DEF ChangedFact, KeepsRecord
      <4> QED BY <2>10, <3>1, <4>1
    <3> QED BY <3>2, <3>3
  <2>14. CASE OrderCreatedEvent /\ orders' = [orders EXCEPT ![d] = NewOrder(d, e.order)]
    <3>1. e.what = "created" BY <2>4, <2>14 DEF OrderCreatedEvent, Visit, e
    <3>2. e.order \in OrderOrNone BY <2>4, EventFields DEF e
    <3>3. NewOrder(d, e.order).id = e.order /\ NewOrder(d, e.order).fact = 0
      BY <3>2, NewOrderFields
    <3>4. orders'[d] = NewOrder(d, e.order) /\ \A x \in Dispensers : x # d => orders'[x] = orders[x]
      BY <1>1, <2>7, <2>14
    <3>5. RenewsRecord(d, n) BY <2>8, <3>1, <3>3, <3>4 DEF RenewsRecord
    <3> QED BY <2>10, <3>4, <3>5
  <2>15. \/ orders' = orders
         \/ DisplayEvent /\ orders' = [orders EXCEPT ![d].amount = e.amount, ![d].fact = e.amount]
              /\ overwritten' = overwritten \cup OverwrittenBy(e)
         \/ OrderChangedEvent
         \/ OrderCreatedEvent /\ orders' = [orders EXCEPT ![d] = NewOrder(d, e.order)]
    BY <1>4, <2>4 DEF DisplayEvent, OrderCreatedEvent, e
  <2> QED BY <2>11, <2>12, <2>13, <2>14, <2>15
<1>5. UNCHANGED <<orders, overwritten>> \/ StatusAnswer
      \/ DisplayEvent \/ OrderChangedEvent \/ OrderCreatedEvent
  BY Actions, QuietFrame, GivenAnswers, TakenFrame DEF StatusEvent, pastVars
<1> QED BY <1>2, <1>3, <1>4, <1>5

\* An order that the stream has gone past is named by no answer any more.
LEMMA Passed ==
  ASSUME TypeOK, LogInv, StreamInv, FreshInv, NEW d \in Dispensers, NEW o \in Orders,
         NEW c \in Indices, NEW j \in Indices, NEW x \in Nat,
         Creates(c, d, o), CreatesOn(j, d), c < j, j <= x, x <= Reach
  PROVE  Dead(d, o)
<1>1. log \in Seq(Event) /\ Len(log) \in Nat /\ j <= Len(log) BY DEF TypeOK, Indices
<1>2. ~Unreplaced(o, d, Len(log)) BY <1>1 DEF Unreplaced
<1>3. srv[d].order # o BY <1>1, <1>2, Holder DEF LogInv, Owner
<1>4. ~Unreplaced(o, d, x) BY DEF Unreplaced
<1>5. \A i \in 1..Len(responses) : ~AnswersFor(responses[i], d, o) BY <1>4 DEF FreshInv
<1> QED BY <1>3, <1>5 DEF Dead

\* And it stays so: an order that was created is not created again.
LEMMA DeadStays ==
  ASSUME TypeOK, LogInv, StreamInv, [Next]_vars, NEW d \in Dispensers, NEW o \in Orders,
         Dead(d, o), NEW k \in Indices, log[k].order = o
  PROVE  Dead(d, o)'
<1>1. srv'[d].order # o BY ControllerStep DEF ServerFacts, Dead
<1>2. \A i \in 1..Len(responses) : ~AnswersFor(responses[i], d, o) BY DEF Dead
<1>3. \A i \in 1..Len(responses') : ~AnswersFor(responses'[i], d, o)
  <2>1. CASE responses' = responses BY <1>2, <2>1
  <2>2. CASE ServeEvents \/ ServeStatus
    <3>1. PICK r \in Response : GivenNow(r) /\ responses' = Append(responses, r) BY <2>2, GivenAnswers
    <3>2. ~AnswersFor(r, d, o) BY <3>1 DEF GivenNow, AnswersFor, Dead
    <3>3. PICK n \in Nat : n = Len(responses) BY DEF TypeOK
    <3>4. /\ Len(responses') = n + 1 /\ responses'[n + 1] = r
          /\ \A i \in 1..n : responses'[i] = responses[i]
      BY <3>1, <3>3 DEF TypeOK
    <3>5. \A i \in 1..n + 1 : i \in 1..n \/ i = n + 1 OBVIOUS
    <3> QED BY <1>2, <3>2, <3>3, <3>4, <3>5
  <2>3. CASE EventsAnswer \/ StatusAnswer BY <1>2, <2>3, TakenFrame, Shifted
  <2>4. SameAnswers => responses' = responses BY DEF SameAnswers
  <2> QED BY <2>1, <2>2, <2>3, <2>4, Actions, QuietFrame
       DEF StatusEvent, DisplayEvent, OrderChangedEvent, OrderCreatedEvent, Visit
<1> QED BY <1>1, <1>3 DEF Dead

\* A record is of an order that was created on its dispenser.
LEMMA StepOwnOrder ==
  ASSUME TypeOK, LogInv, StreamInv, FreshInv, OwnOrder, [Next]_vars
  PROVE  OwnOrder'
<1>1. RecordStep BY StepRecords
<1>2. Grows BY ControllerStep DEF ServerFacts
<1> SUFFICES ASSUME NEW d \in Dispensers, NEW o \in Orders, orders'[d].id = o
             PROVE  \E c \in Indices' : Creates(c, d, o)'
  BY DEF OwnOrder
<1>3. \E c \in Indices : Creates(c, d, o)
  <2>1. CASE orders'[d].id = orders[d].id BY <2>1 DEF OwnOrder
  <2>2. ASSUME NEW n \in Indices, RenewsRecord(d, n) PROVE \E c \in Indices : Creates(c, d, o)
    BY <2>2 DEF RenewsRecord, Creates, CreatesOn
  <2> QED BY <1>1, <2>1, <2>2 DEF RecordStep, KeepsRecord, WritesRecord
<1> QED BY <1>2, <1>3, Kept

\* The end of an order is on the dispenser that it was created on.
LEMMA EndOwner ==
  ASSUME TypeOK, LogInv, NEW d \in Dispensers, NEW o \in Orders, NEW c \in Indices,
         Creates(c, d, o), NEW k \in Indices, Ends(k), log[k].order = o
  PROVE  log[k].dev = d /\ c <= k /\ Unreplaced(o, d, k) /\ log[k].amount = poured[o]
<1>1. log[k].dev \in Dispensers
  <2>1. log[k] \in Event BY DEF TypeOK, Indices
  <2> QED BY <2>1, EventFields
<1>2. Owner(o, log[k].dev, k) /\ log[k].amount = poured[o]
  BY <1>1 DEF LogInv, AmountsOwned, Ends
<1>3. PICK b \in Indices : b <= k /\ Creates(b, log[k].dev, o) BY <1>2 DEF Owner
<1>4. b = c /\ log[k].dev = d BY <1>1, <1>3, OneDispenser DEF LogInv
<1> QED BY <1>2, <1>3, <1>4 DEF Owner

\* An amount written into a record whose order the event does not belong to is
\* written into the record of an order that was overwritten or is dead.
LEMMA StepBounded ==
  ASSUME TypeOK, LogInv, StreamInv, FreshInv, OwnOrder, RecordBounded, [Next]_vars
  PROVE  RecordBounded'
<1>1. RecordStep BY StepRecords
<1>2. ServerFacts BY ControllerStep
<1> SUFFICES ASSUME NEW d \in Dispensers, NEW o \in Orders, orders'[d].id = o, o \notin overwritten'
             PROVE  orders'[d].fact <= poured'[o] \/ Dead(d, o)'
  BY DEF RecordBounded
<1>3. poured[o] \in Nat /\ poured'[o] \in Nat /\ poured[o] <= poured'[o]
  <2>1. poured[o] \in Amounts /\ poured'[o] \in Amounts BY <1>2 DEF ServerFacts
  <2> QED BY <1>2, <2>1, AmountsAreNat DEF ServerFacts
<1>4. o \notin overwritten BY <1>1 DEF RecordStep
<1>5. CASE KeepsRecord(d)
  <2>1. orders[d].id = o /\ orders'[d].fact = orders[d].fact BY <1>5 DEF KeepsRecord
  <2>2. orders[d].fact \in Nat
    <3>1. orders[d].fact \in Amounts BY DEF TypeOK, DatabaseOrder
    <3> QED BY <3>1, AmountsAreNat
  <2>3. orders[d].fact <= poured[o] \/ Dead(d, o) BY <1>4, <2>1 DEF RecordBounded
  <2>4. PICK c \in Indices : Creates(c, d, o) BY <2>1 DEF OwnOrder
  <2>5. Dead(d, o) => Dead(d, o)' BY <2>4, DeadStays DEF Creates
  <2> QED BY <1>3, <2>1, <2>2, <2>3, <2>5
<1>6. ASSUME NEW n \in Indices, Visits(n), WritesRecord(d, n)
      PROVE  orders'[d].fact <= poured'[o] \/ Dead(d, o)'
  <2>1. /\ orders[d].id = o /\ orders'[d].fact = log[n].amount /\ log[n].dev = d
        /\ log[n].what = "display" \/ Ends(n)
        /\ ~\E i \in Indices : n <= i /\ log[i].what = "created" /\ log[i].order = o
    BY <1>6 DEF WritesRecord
  <2>2. PICK p \in Orders : Owner(p, d, n) /\ log[n].amount <= poured[p]
    <3>1. CASE log[n].what = "display" BY <2>1, <3>1 DEF LogInv, AmountsOwned
    <3>2. CASE Ends(n)
      <4>1. PICK p \in Orders : log[n].order = p /\ Owner(p, d, n)
        BY <2>1, <3>2 DEF LogInv, AmountsOwned, Ends
      <4>2. log[n].amount = poured[p] BY <2>1, <3>2, <4>1 DEF LogInv, AmountsOwned
      <4>3. poured[p] \in Nat
        <5>1. poured[p] \in Amounts BY DEF TypeOK
        <5> QED BY <5>1, AmountsAreNat
      <4> QED BY <4>1, <4>2, <4>3
    <3> QED BY <2>1, <3>1, <3>2
  <2>3. CASE p = o
    <3>1. log[n].amount \in Nat
      <4>1. log[n] \in Event BY DEF TypeOK, Indices
      <4> QED BY <4>1, EventFields
    <3> QED BY <1>3, <2>1, <2>2, <2>3, <3>1
  <2>4. CASE p # o
    <3>1. PICK c \in Indices : Creates(c, d, o) BY <2>1 DEF OwnOrder
    <3>2. PICK b \in Indices : b <= n /\ Creates(b, d, p) BY <2>2 DEF Owner
    <3>3. c \in Nat /\ b \in Nat /\ n \in Nat BY DEF Indices
    <3>4. c < n BY <2>1, <3>1, <3>3 DEF Creates, CreatesOn
    <3>5. b # c BY <2>4, <3>1, <3>2 DEF Creates
    <3>6. ~(b < c) BY <2>2, <3>1, <3>2, <3>3, <3>4 DEF Owner, Unreplaced, Creates
    <3>7. c < b BY <3>3, <3>5, <3>6
    <3>8. n <= Reach
      <4>1. batch \in Seq(Event) /\ log \in Seq(Event) /\ StretchOf(batch, log) /\ batch # <<>>
        BY <1>6 DEF TypeOK, StreamInv, BatchInv, Stretch, Visits
      <4>2. batch[Len(batch)].id = batch[1].id + (Len(batch) - 1) /\ Len(batch) \in Nat \ {0}
        BY <4>1, StretchEnds
      <4>3. Reach = batch[Len(batch)].id /\ n = batch[1].id BY <1>6, <4>1 DEF Reach, Visits
      <4> QED BY <3>3, <4>2, <4>3
    <3>9. Dead(d, o) BY <3>1, <3>2, <3>3, <3>7, <3>8, Passed DEF Creates
    <3> QED BY <3>1, <3>9, DeadStays DEF Creates
  <2> QED BY <2>3, <2>4
<1>7. ASSUME NEW n \in Indices, RenewsRecord(d, n) PROVE orders'[d].fact <= poured'[o]
  BY <1>3, <1>7 DEF RenewsRecord
<1> QED BY <1>1, <1>5, <1>6, <1>7 DEF RecordStep

\* The reach in the three kinds of steps: it stays, or an answer extends it.
LEMMA ReachStep ==
  ASSUME TypeOK, LogInv, StreamInv, FreshInv, [Next]_vars
  PROVE  \/ batch' = batch /\ Reach' = Reach
         \/ EventsAnswer /\ batch = <<>> /\ batch' # <<>> /\ batch'[1].id <= Reach + 1
         \/ \E n \in Indices : /\ Visits(n) /\ Reach' = Reach
                               /\ batch' # <<>> => batch'[1].id = n + 1
                               /\ batch' = <<>> => Reach = n
<1>1. CASE SameAnswers BY <1>1 DEF SameAnswers, Reach
<1>2. CASE ServeEvents \/ ServeStatus BY <1>2, GivenAnswers DEF Reach
<1>3. CASE StatusAnswer BY <1>3, TakenFrame DEF Reach
<1>4. CASE EventsAnswer
  <2>1. /\ batch = <<>> /\ last_event' = last_event /\ responses # <<>> /\ responses' = Tail(responses)
        /\ responses[1].kind = "events" /\ batch' = responses[1].events
    BY <1>4, TakenFrame
  <2>2. CASE batch' = <<>> BY <2>1, <2>2 DEF Reach
  <2>3. CASE batch' # <<>>
    <3>1. 1 \in 1..Len(responses) /\ Filled(responses[1]) BY <2>1, <2>3, Shifted DEF Filled
    <3> QED BY <1>4, <2>1, <2>3, <3>1 DEF StreamInv, AnswersInv
  <2> QED BY <2>2, <2>3
<1>5. CASE StatusEvent \/ DisplayEvent \/ OrderChangedEvent \/ OrderCreatedEvent
  <2>1. PICK w : Visit(w) /\ log' = log
    BY <1>5 DEF StatusEvent, DisplayEvent, OrderChangedEvent, OrderCreatedEvent, Visit, srvVars
  <2>2. AsksLately BY AsksStep DEF StreamInv, BatchInv
  <2>3. /\ Reach' = Reach /\ batch[1].id \in Indices
        /\ batch' # <<>> => batch'[1].id = batch[1].id + 1
        /\ batch' = <<>> => Reach = batch[1].id
    BY <2>1, <2>2, VisitedStream
  <2>4. PICK n \in Indices : n = batch[1].id BY <2>3
  <2>5. Visits(n) BY <2>1, <2>4 DEF Visits, Visit
  <2> QED BY <2>3, <2>4, <2>5
<1> QED BY <1>1, <1>2, <1>3, <1>4, <1>5, Actions, QuietFrame

\* When the end of the order in a record has been visited, the record says what
\* was delivered: what changes it later comes from a stretch that ends with or
\* after that end, or from the next order.
LEMMA StepExact ==
  ASSUME TypeOK, LogInv, StreamInv, FreshInv, OwnOrder, OwnOrder', RecordExact, [Next]_vars
  PROVE  RecordExact'
<1>1. RecordStep BY StepRecords
<1>2. ServerFacts /\ LogInv' BY ControllerStep
<1>3. /\ \A k \in Indices : log'[k] = log[k] /\ Ends(k)' = Ends(k)
      /\ Indices \subseteq Indices' /\ Len(log) \in Nat /\ Len(log') \in Nat
  BY <1>2, Kept DEF ServerFacts
<1>4. Reach \in Nat /\ Reach <= Len(log) /\ log \in Seq(Event) BY DEF StreamInv, BatchInv, TypeOK
<1> SUFFICES ASSUME NEW d \in Dispensers, NEW o \in Orders, NEW k \in Indices',
                    orders'[d].id = o, Ends(k)', log'[k].order = o, k <= Reach',
                    ~(batch' # <<>> /\ batch'[1].id <= k)
             PROVE  orders'[d].fact = poured'[o] \/ Dead(d, o)'
  BY DEF RecordExact
<1>5. k \in Nat BY <1>3 DEF Indices
<1>6. k <= Reach
  <2>1. CASE Reach' = Reach BY <2>1
  <2>2. CASE batch' # <<>> /\ batch'[1].id <= Reach + 1
    <3>1. batch'[1].id \in Nat
      <4>1. batch' \in Seq(Event) /\ StretchOf(batch', log')
        BY StepStream, StepTypes DEF StreamInv, BatchInv, Stretch, TypeOK
      <4>2. batch'[1] \in Event BY <2>2, <4>1, TailFacts
      <4> QED BY <4>2, EventFields
    <3> QED BY <1>4, <1>5, <2>2, <3>1
  <2> QED BY <2>1, <2>2, ReachStep
<1>7. k \in Indices /\ Ends(k) /\ log[k].order = o
  <2>1. k \in Indices BY <1>3, <1>4, <1>5, <1>6 DEF Indices
  <2> QED BY <1>3, <2>1
<1>8. poured'[o] = poured[o] BY <1>2, <1>7 DEF ServerFacts
<1>9. Dead(d, o) => Dead(d, o)' BY <1>7, DeadStays
\* The event n is visited, and k is not to be visited any more.
<1>10. ASSUME NEW n \in Indices, Visits(n), batch' # <<>> => batch'[1].id = n + 1,
              batch' = <<>> => Reach = n
       PROVE  k <= n
  <2>1. n \in Nat BY <1>3 DEF Indices
  <2>2. CASE batch' = <<>> BY <1>6, <1>10, <2>2
  <2>3. CASE batch' # <<>>
    <3>1. ~(n + 1 <= k) BY <1>10, <2>3
    <3> QED BY <1>5, <2>1, <3>1
  <2> QED BY <2>2, <2>3
<1>11. CASE KeepsRecord(d) /\ ~(batch # <<>> /\ batch[1].id <= k)
  <2>1. orders[d].id = o /\ orders'[d].fact = orders[d].fact BY <1>11 DEF KeepsRecord
  <2>2. orders[d].fact = poured[o] \/ Dead(d, o) BY <1>6, <1>7, <1>11, <2>1 DEF RecordExact
  <2> QED BY <1>8, <1>9, <2>1, <2>2
<1>12. CASE ~\E n \in Indices : Visits(n)
  <2>1. KeepsRecord(d) BY <1>1, <1>12 DEF RecordStep
  <2>2. batch' = batch \/ batch = <<>> BY <1>12, ReachStep
  <2> QED BY <1>11, <2>1, <2>2
<1>13. ASSUME NEW n \in Indices, Visits(n) PROVE orders'[d].fact = poured'[o] \/ Dead(d, o)'
  <2>1. batch # <<>> /\ n = batch[1].id BY <1>13 DEF Visits
  <2>2. \A m \in Indices : Visits(m) => m = n BY <2>1 DEF Visits
  <2>3. batch' = Tail(batch) BY <1>13 DEF Visits, Visit
  <2>4. k <= n
    <3>1. ~EventsAnswer BY <2>1 DEF EventsAnswer, Handling
    <3>2. batch' # batch
      <4>1. batch \in Seq(Event) BY DEF TypeOK
      <4>2. Tail(batch) # batch BY <2>1, <4>1, TailDiffers
      <4> QED BY <2>3, <4>2
    <3> QED BY <1>10, <2>2, <3>1, <3>2, ReachStep
  <2>5. n \in Nat /\ n <= Reach
    <3>1. n \in Nat BY <1>3 DEF Indices
    <3>2. StretchOf(batch, log) /\ batch \in Seq(Event)
      BY DEF TypeOK, StreamInv, BatchInv, Stretch
    <3>3. batch[Len(batch)].id = batch[1].id + (Len(batch) - 1) /\ Len(batch) \in Nat \ {0}
      BY <1>4, <2>1, <3>2, StretchEnds
    <3>4. Reach = batch[Len(batch)].id BY <2>1 DEF Reach
    <3> QED BY <2>1, <3>1, <3>3, <3>4
  <2>6. PICK c \in Indices : Creates(c, d, o)
    <3>1. \E c \in Indices' : Creates(c, d, o)' BY DEF OwnOrder
    <3>2. log' = log BY <1>13 DEF Visits, Visit, srvVars
    <3> QED BY <3>1, <3>2 DEF Indices, Creates, CreatesOn
  <2>7. log[k].dev = d /\ c <= k /\ Unreplaced(o, d, k) /\ log[k].amount = poured[o]
    BY <1>7, <2>6, EndOwner
  <2>8. CASE WritesRecord(d, n)
    <3>1. /\ orders'[d].fact = log[n].amount /\ log[n].dev = d
          /\ log[n].what = "display" \/ Ends(n)
      BY <2>8 DEF WritesRecord
    <3>2. CASE k = n BY <1>8, <2>7, <3>1, <3>2
    <3>3. CASE k < n
      <4>1. PICK j \in Indices : k < j /\ j <= n /\ CreatesOn(j, d)
        BY <1>7, <2>7, <3>1, <3>3 DEF LogInv, EndIsLast
      <4>2. c < j
        <5>1. c \in Nat /\ j \in Nat BY <1>3 DEF Indices
        <5> QED BY <1>5, <2>7, <4>1, <5>1
      <4>3. Dead(d, o) BY <2>5, <2>6, <4>1, <4>2, Passed
      <4> QED BY <1>9, <4>3
    <3> QED BY <1>5, <2>4, <2>5, <3>2, <3>3
  <2>9. CASE RenewsRecord(d, n)
    <3>1. Creates(n, d, o) BY <2>9 DEF RenewsRecord, Creates, CreatesOn
    <3>2. n = c BY <2>6, <3>1, OneDispenser DEF LogInv
    <3>3. k = n BY <1>5, <2>4, <2>5, <2>7, <3>2
    <3> QED BY <1>7, <2>9, <3>3 DEF RenewsRecord, Ends
  <2>10. CASE KeepsRecord(d) /\ k < n
    <3>1. ~(batch[1].id <= k) BY <1>5, <2>1, <2>5, <2>10
    <3> QED BY <1>11, <2>10, <3>1
  <2>11. CASE KeepsRecord(d) /\ k = n
\* The end of the order that is recorded for d is visited: its amount is recorded.
    <3>1. log[n] = batch[1] /\ log[n].what = "changed" /\ log[n].dev = d /\ log[n].status \in Finished
      <4>1. StretchOf(batch, log) /\ 1 \in 1..Len(batch)
        <5>1. batch \in Seq(Event) BY DEF TypeOK
        <5> QED BY <2>1, <5>1, TailFacts DEF StreamInv, BatchInv, Stretch
      <4>2. log[n] = batch[1] BY <2>1, <4>1 DEF StretchOf
      <4> QED BY <1>7, <2>7, <2>11, <4>2 DEF Ends
    <3>2. Head(batch) = batch[1] BY <2>1, TailFacts DEF TypeOK
    <3>3. OrderChangedEvent
      <4>1. Visit("changed") \/ batch' = Tail(batch) BY <2>3
      <4>2. ~SameAnswers /\ ~EventsAnswer /\ ~StatusAnswer /\ ~ServeEvents /\ ~ServeStatus
        <5>1. batch' # batch
          <6>1. batch \in Seq(Event) BY DEF TypeOK
          <6>2. Tail(batch) # batch BY <2>1, <6>1, TailDiffers
          <6> QED BY <2>3, <6>2
        <5> QED BY <2>1, <5>1
             DEF SameAnswers, EventsAnswer, StatusAnswer, Handling, ServeEvents, ServeStatus, Served
      <4> QED BY <3>1, <3>2, <4>2, Actions, QuietFrame
           DEF StatusEvent, DisplayEvent, OrderCreatedEvent, Visit
    <3>4. orders'[d].fact = log[n].amount
      <4>1. orders' = [orders EXCEPT ![d].status = batch[1].status,
                                     ![d].fact = ChangedFact(orders[d], batch[1])]
        BY <3>1, <3>2, <3>3 DEF OrderChangedEvent
      <4>2. ChangedFact(orders[d], batch[1]) = log[n].amount BY <3>1 DEF ChangedFact
      <4>3. orders \in [Dispensers -> DatabaseOrder] BY DEF TypeOK
      <4>4. orders'[d].fact = ChangedFact(orders[d], batch[1])
        BY <4>1, <4>3 DEF DatabaseOrder
      <4> QED BY <4>2, <4>4
    <3> QED BY <1>8, <2>7, <2>11, <3>4
  <2>12. KeepsRecord(d) \/ WritesRecord(d, n) \/ RenewsRecord(d, n)
    BY <1>1, <1>13, <2>2 DEF RecordStep
  <2> QED BY <1>5, <2>4, <2>5, <2>8, <2>9, <2>10, <2>11, <2>12
<1> QED BY <1>12, <1>13

-----------------------------------------------------------------------------
(* What is confirmed.                                                      *)

\* The amount recorded for the order o of d is confirmed, on an answer for it.
ConfirmsOrder(d, o) ==
  /\ orders[d].id = o /\ batch = <<>> /\ ~Dead(d, o) /\ UNCHANGED <<log, poured>>
  /\ confirmed' = [confirmed EXCEPT ![o] =
                     @ \cup {[amount |-> orders[d].fact, told |-> Told(o)]}]

LEMMA ConfirmedStep ==
  ASSUME TypeOK, LogInv, StreamInv, [Next]_vars
  PROVE  confirmed' = confirmed \/ \E d \in Dispensers, o \in Orders : ConfirmsOrder(d, o)
<1>1. CASE StatusAnswer /\ confirmed' # confirmed
  <2> DEFINE r == Head(responses)
             d == r.dev
             f == [orders[d] EXCEPT !.status = r.ostatus]
  <2>1. /\ batch = <<>> /\ responses # <<>> /\ UNCHANGED <<log, poured>>
        /\ responses[1] = r /\ r.kind = "status"
    BY <1>1, TakenFrame
  <2>2. r \in Response /\ 1 \in 1..Len(responses) BY <2>1, TailFacts DEF TypeOK
  <2>3. d \in Dispensers /\ r.order \in OrderOrNone BY <2>1, <2>2, Responses
  <2>4. r.order # NoOrder /\ r.order = orders[d].id
    BY <1>1 DEF StatusAnswer
  <2>5. confirmed' = [confirmed EXCEPT ![f.id] =
                        @ \cup {[amount |-> f.fact, told |-> Told(f.id)]}]
    BY <1>1 DEF StatusAnswer, processOrderFinalization
  <2>6. orders[d] \in DatabaseOrder BY <2>3 DEF TypeOK
  <2>7. f.id = orders[d].id /\ f.fact = orders[d].fact BY <2>6 DEF DatabaseOrder
  <2>8. orders[d].id \in Orders BY <2>3, <2>4 DEF OrderOrNone
  <2>9. ~Dead(d, orders[d].id) BY <2>1, <2>2, <2>4 DEF Dead, AnswersFor
  <2> HIDE DEF f, d
  <2>10. ConfirmsOrder(d, orders[d].id) BY <2>1, <2>5, <2>7, <2>9 DEF ConfirmsOrder
  <2> QED BY <2>3, <2>8, <2>10 DEF d
<1>2. StatusAnswer \/ confirmed' = confirmed
  BY Actions, QuietFrame, GivenAnswers, TakenFrame
     DEF StatusEvent, DisplayEvent, OrderChangedEvent, OrderCreatedEvent, Visit
<1> QED BY <1>1, <1>2

\* The parts of the invariant that a confirmation rests on.
Recorded == OwnOrder /\ RecordBounded /\ RecordExact

\* What a confirmation says.
LEMMA ConfirmedNow ==
  ASSUME TypeOK, StreamInv, Recorded, NEW d \in Dispensers, NEW o \in Orders, ConfirmsOrder(d, o)
  PROVE  /\ orders[d].fact <= poured[o] \/ o \in overwritten
         /\ Told(o) => /\ \E k \in Indices : Ends(k) /\ log[k].order = o
                       /\ orders[d].fact = poured[o]
<1>1. orders[d].id = o /\ batch = <<>> /\ ~Dead(d, o) BY DEF ConfirmsOrder
<1>2. orders[d].fact <= poured[o] \/ o \in overwritten BY <1>1 DEF Recorded, RecordBounded
<1>3. ASSUME Told(o)
      PROVE  /\ \E k \in Indices : Ends(k) /\ log[k].order = o
             /\ orders[d].fact = poured[o]
  <2>1. PICK k \in 1..last_event : Ends(k) /\ log[k].order = o BY <1>3 DEF Told, Ends
  <2>2. Reach = last_event BY <1>1 DEF Reach
  <2>3. last_event \in Nat /\ Len(log) \in Nat /\ last_event <= Len(log)
    BY <2>2 DEF TypeOK, StreamInv, BatchInv
  <2>4. k \in Indices /\ k <= Reach BY <2>2, <2>3 DEF Indices
  <2>5. orders[d].fact = poured[o] BY <1>1, <2>1, <2>4 DEF Recorded, RecordExact
  <2> QED BY <2>1, <2>4, <2>5
<1> QED BY <1>2, <1>3

\* The confirmations of an order after a step.
LEMMA StepConfirmed ==
  ASSUME TypeOK, LogInv, StreamInv, FreshInv, Recorded, [Next]_vars,
         ToldEnded, ConfirmedWithinDelivered, ToldIsExact
  PROVE  ToldEnded' /\ ConfirmedWithinDelivered' /\ ToldIsExact'
<1>1. ServerFacts /\ overwritten \subseteq overwritten'
  BY ControllerStep, StepRecords DEF RecordStep
<1>2. /\ \A k \in Indices : log'[k] = log[k] /\ Ends(k)' = Ends(k)
      /\ Indices \subseteq Indices'
  BY <1>1, Kept DEF ServerFacts
<1> SUFFICES ASSUME NEW o \in Orders, NEW c \in confirmed'[o]
             PROVE  /\ c.told => \E k \in Indices' : Ends(k)' /\ log'[k].order = o
                    /\ c.amount <= poured'[o] \/ o \in overwritten'
                    /\ c.told => c.amount = poured'[o]
  BY DEF ToldEnded, ConfirmedWithinDelivered, ToldIsExact
<1>3. /\ c.told => \E k \in Indices : Ends(k) /\ log[k].order = o
      /\ c.amount <= poured[o] \/ o \in overwritten
      /\ c.told => c.amount = poured[o]
      /\ c.amount \in Amounts
  <2>1. confirmed \in [Orders -> SUBSET [amount : Amounts, told : BOOLEAN]] BY DEF TypeOK
  <2>2. CASE c \in confirmed[o]
    BY <2>1, <2>2 DEF ToldEnded, ConfirmedWithinDelivered, ToldIsExact
  <2>3. CASE c \notin confirmed[o]
    <3>1. PICK d \in Dispensers, x \in Orders : ConfirmsOrder(d, x) BY <2>3, ConfirmedStep
    <3>2. x = o /\ c = [amount |-> orders[d].fact, told |-> Told(o)]
      BY <2>1, <2>3, <3>1 DEF ConfirmsOrder
    <3>3. orders[d].fact \in Amounts BY DEF TypeOK, DatabaseOrder
    <3>4. c.amount = orders[d].fact /\ c.told = Told(o) BY <3>2
    <3> QED BY <3>1, <3>2, <3>3, <3>4, ConfirmedNow
  <2> QED BY <2>2, <2>3
<1>4. poured[o] \in Nat /\ poured'[o] \in Nat /\ c.amount \in Nat /\ poured[o] <= poured'[o]
  BY <1>1, <1>3, AmountsAreNat DEF ServerFacts
<1>5. c.told => poured'[o] = poured[o] BY <1>1, <1>3 DEF ServerFacts
<1>6. c.amount <= poured'[o] \/ o \in overwritten' BY <1>1, <1>3, <1>4
<1> QED BY <1>2, <1>3, <1>5, <1>6

-----------------------------------------------------------------------------
(* The supervision.                                                        *)

\* The display events of d in the log l, and the last of a set of events.
Displays(l, d) == {i \in 1..Len(l) : l[i].what = "display" /\ l[i].dev = d}
LastIn(ids) == IF ids = {} THEN 0 ELSE CHOOSE i \in ids : \A j \in ids : j <= i
IsLast(m, ids) == m \in ids /\ \A j \in ids : j <= m

\* A last display event is there when there is any.
LastShown ==
  \A d \in Dispensers : Displays(log, d) # {} => \E m \in Nat : IsLast(m, Displays(log, d))

LEMMA LastIs ==
  ASSUME NEW ids \in SUBSET Nat, NEW m \in Nat, IsLast(m, ids)
  PROVE  LastIn(ids) = m
<1>1. LastIn(ids) \in ids /\ \A j \in ids : j <= LastIn(ids)
  <2>1. m \in ids /\ \A j \in ids : j <= m BY DEF IsLast
  <2>2. LastIn(ids) = CHOOSE i \in ids : \A j \in ids : j <= i BY <2>1 DEF LastIn
  <2> QED BY <2>1, <2>2
<1>2. LastIn(ids) \in Nat /\ LastIn(ids) <= m /\ m <= LastIn(ids) BY <1>1 DEF IsLast
<1> QED BY <1>2

LEMMA LastDisplays ==
  ASSUME NEW d
  PROVE  LastDisplay(d) = LastIn(Displays(log, d)) /\ LastDisplay(d)' = LastIn(Displays(log', d))
  BY DEF LastDisplay, LastIn, Displays

\* Only Pour adds to the display events.
LEMMA SameDisplays ==
  ASSUME log \in Seq(Event), Grows, NEW d, \A k \in NewEvents : log'[k].what # "display"
  PROVE  Displays(log', d) = Displays(log, d)
<1>1. /\ Indices \subseteq Indices' /\ \A k \in Indices : log'[k] = log[k] BY Kept
<1>2. \A k \in Indices' : k \in Indices \/ k \in NewEvents BY DEF NewEvents
<1> QED BY <1>1, <1>2 DEF Displays, Indices

LEMMA QuietLog ==
  ASSUME TypeOK, LogInv, NEW d, NEW S \in SUBSET Said, \A a \in S : a.what # "display",
         \/ log' = log
         \/ \E a \in S : Logged(<<a>>)
         \/ \E a, b \in S : Logged(<<a, b>>)
  PROVE  Displays(log', d) = Displays(log, d)
<1>1. CASE log' = log BY <1>1
<1>2. ASSUME NEW a \in S, Logged(<<a>>) PROVE Displays(log', d) = Displays(log, d)
  <2>1. PICK n \in Nat : n = Len(log) + 1 BY DEF TypeOK
  <2>2. Grows /\ NewEvents = {n} /\ IsNew(n, a) BY <1>2, <2>1, LogOne DEF TypeOK
  <2>3. log'[n].what # "display" BY <2>2 DEF IsNew
  <2> QED BY <2>2, <2>3, SameDisplays DEF TypeOK
<1>3. ASSUME NEW a \in S, NEW b \in S, Logged(<<a, b>>) PROVE Displays(log', d) = Displays(log, d)
  <2>1. PICK n \in Nat, m \in Nat : n = Len(log) + 1 /\ m = Len(log) + 2 BY DEF TypeOK
  <2>2. Grows /\ NewEvents = {n, m} /\ IsNew(n, a) /\ IsNew(m, b)
    BY <1>3, <2>1, LogTwo DEF TypeOK
  <2>3. log'[n].what # "display" /\ log'[m].what # "display" BY <2>2 DEF IsNew
  <2> QED BY <2>2, <2>3, SameDisplays DEF TypeOK
<1> QED BY <1>1, <1>2, <1>3

\* Fuel that flows on x shows on x, and on no other dispenser.
LEMMA PourDisplays ==
  ASSUME TypeOK, LogInv, NEW x \in Dispensers, Pour(x), NEW d \in Dispensers
  PROVE  /\ d = x => Displays(log', d) = Displays(log, d) \cup {Len(log) + 1}
         /\ d # x => Displays(log', d) = Displays(log, d)
<1>1. PICK o \in Orders : srv[x].order = o BY DEF Pour, LogInv, ServerOrder
<1>2. poured'[o] \in Amounts BY PourStep DEF ServerFacts
<1>3. PICK n \in Nat : n = Len(log) + 1 BY DEF TypeOK
<1>4. Grows /\ NewEvents = {n} /\ IsNew(n, Says(x, "display", "", NoOrder, poured'[o]))
  BY <1>1, <1>2, <1>3, LogOne, SaidTypes DEF TypeOK, Pour
<1>5. log'[n].what = "display" /\ log'[n].dev = x BY <1>4 DEF IsNew, Says
<1>6. Indices \subseteq Indices' /\ \A k \in Indices : log'[k] = log[k] BY <1>4, Kept
<1>7. n \in Indices' /\ n \notin Indices /\ \A k \in Indices' : k \in Indices \/ k = n
  BY <1>4 DEF NewEvents
<1> QED BY <1>3, <1>5, <1>6, <1>7 DEF Displays, Indices

\* What the steps do to the display events.
LEMMA StepDisplays ==
  ASSUME TypeOK, LogInv, [Next]_vars, NEW d \in Dispensers
  PROVE  Pour(d) \/ Displays(log', d) = Displays(log, d)
<1> DEFINE q == Head(requests)
           S == {a \in Said : a.what # "display"}
<1>1. S \in SUBSET Said /\ \A a \in S : a.what # "display" OBVIOUS
<1>2. requests # <<>> => q \in Request BY TailFacts DEF TypeOK
<1>3. \A x \in Dispensers :
        /\ \A s \in Statuses : StatusChanged(x, s) \in S
        /\ srv[x].order \in Orders => \A s \in Finished : OrderEnded(x, s) \in S
        /\ \A o \in Orders : Says(x, "created", "READY", o, 0) \in S
        /\ Says(x, "changed", "AUTHORIZED", srv[x].order, 0) \in S
  BY SaidTypes DEF StatusChanged, OrderEnded, Says
<1> HIDE DEF S
<1>4. \A x \in Dispensers : srv[x].status = "FUELLING" => srv[x].order \in Orders
  BY DEF LogInv, ServerOrder
<1>5. {"IDLE", "NOZZLE_UP", "FUELLING", "COMPLETE"} \subseteq Statuses
      /\ {"DELIVERED", "INTERRUPTED"} \subseteq Finished
  BY DEF Statuses, Finished
<1>6. CASE log' = log BY <1>6
<1>7. CASE ServeCreate
  <2>1. q.dev \in Dispensers BY <1>2, <1>7, Requests DEF ServeCreate, Served
  <2>2. log' = log \/ \E o \in Orders : Logged(<<Says(q.dev, "created", "READY", o, 0)>>)
    BY <1>7 DEF ServeCreate
  <2> QED BY <1>1, <1>3, <2>1, <2>2, QuietLog
<1>8. CASE ServeAuthorize
  <2>1. q.dev \in Dispensers BY <1>2, <1>8, Requests DEF ServeAuthorize, Served
  <2>2. log' = log \/ Logged(<<Says(q.dev, "changed", "AUTHORIZED", srv[q.dev].order, 0)>>)
    BY <1>8 DEF ServeAuthorize
  <2> QED BY <1>1, <1>3, <2>1, <2>2, QuietLog
<1>9. ASSUME NEW x \in Dispensers, LiftNozzle(x) \/ StartFuelling(x) \/ Deliver(x) \/ HangNozzle(x)
      PROVE  Displays(log', d) = Displays(log, d)
  <2>1. \/ \E s \in Statuses : Logged(<<StatusChanged(x, s)>>)
        \/ \E s \in Statuses, t \in Finished :
             /\ srv[x].status = "FUELLING"
             /\ \/ Logged(<<OrderEnded(x, t), StatusChanged(x, s)>>)
                \/ Logged(<<StatusChanged(x, s), OrderEnded(x, t)>>)
    BY <1>5, <1>9 DEF LiftNozzle, StartFuelling, Deliver, HangNozzle
  <2> QED BY <1>1, <1>3, <1>4, <2>1, QuietLog
<1>10. ASSUME NEW x \in Dispensers, Pour(x)
       PROVE  Pour(d) \/ Displays(log', d) = Displays(log, d)
  BY <1>10, PourDisplays
<1>11. \/ log' = log \/ ServeCreate \/ ServeAuthorize
       \/ \E x \in Dispensers : LiftNozzle(x) \/ StartFuelling(x) \/ Deliver(x) \/ HangNozzle(x)
       \/ \E x \in Dispensers : Pour(x)
  BY Actions, GivenAnswers, TakenFrame
     DEF QuietActions, vars, srvVars, handleChooseTRK, createOrder, BeginFuelling,
         handleBasicTouch, ForgetDispenser, Touch, Tick, StatusEvent, DisplayEvent,
         OrderChangedEvent, OrderCreatedEvent, Visit, ServeEvents, ServeStatus, Answer, ServeClose
<1> QED BY <1>6, <1>7, <1>8, <1>9, <1>10, <1>11

LEMMA StepLastShown ==
  ASSUME TypeOK, LogInv, [Next]_vars, LastShown
  PROVE  LastShown'
<1> SUFFICES ASSUME NEW d \in Dispensers, Displays(log', d) # {}
             PROVE  \E m \in Nat : IsLast(m, Displays(log', d))
  BY DEF LastShown
<1>1. CASE Displays(log', d) = Displays(log, d) BY <1>1 DEF LastShown
<1>2. CASE Pour(d)
  <2>1. PICK n \in Nat : n = Len(log) + 1 BY DEF TypeOK
  <2>2. Displays(log', d) = Displays(log, d) \cup {n} BY <1>2, <2>1, PourDisplays
  <2>3. \A j \in Displays(log, d) : j <= n
    <3>1. Len(log) \in Nat BY DEF TypeOK
    <3> QED BY <2>1, <3>1 DEF Displays
  <2>4. IsLast(n, Displays(log', d)) BY <2>2, <2>3 DEF IsLast
  <2> QED BY <2>4
<1> QED BY <1>1, <1>2, StepDisplays

LEMMA LastDisplayIsEvent ==
  ASSUME TypeOK, LastShown, NEW d \in Dispensers
  PROVE  /\ LastDisplay(d) \in Nat
         /\ LastDisplay(d) > 0 => /\ LastDisplay(d) \in Indices
                                  /\ log[LastDisplay(d)].what = "display"
                                  /\ log[LastDisplay(d)].dev = d
<1>1. LastDisplay(d) = LastIn(Displays(log, d)) BY LastDisplays
<1>2. CASE Displays(log, d) = {}
  <2>1. LastDisplay(d) = 0 BY <1>1, <1>2 DEF LastIn
  <2> QED BY <2>1
<1>3. CASE Displays(log, d) # {}
  <2>1. PICK m \in Nat : IsLast(m, Displays(log, d)) BY <1>3 DEF LastShown
  <2>2. Displays(log, d) \in SUBSET Nat BY DEF Displays
  <2>3. LastDisplay(d) = m BY <1>1, <2>1, <2>2, LastIs
  <2>4. m \in Displays(log, d) BY <2>1 DEF IsLast
  <2> QED BY <2>3, <2>4 DEF Displays, Indices
<1> QED BY <1>2, <1>3

\* The supervision of d is started again or left as it is.
Restarts(d) == age'[d] = age[d] \/ age'[d] = 0

LEMMA Restarted ==
  ASSUME TypeOK, StreamInv, LogInv, [Next]_vars, NEW d \in Dispensers
  PROVE  \/ Tick
         \/ Pour(d) /\ UNCHANGED <<last_event, dropped>>
         \/ Restarts(d) /\ still'[d] = still[d] /\ UNCHANGED <<last_event, dropped>>
         \/ Restarts(d) /\ still'[d] = still[d] /\ \E w : Visit(w)
<1>1. age \in [Dispensers -> 0..Timeout] /\ still \in [Dispensers -> 0..Timeout] BY DEF TypeOK
<1>2. \A x : Flows(x) => Restarts(d)
  BY <1>1 DEF Flows, Restarts
<1>3. CASE StatusAnswer
  <2>1. Restarts(d) BY <1>2, <1>3 DEF StatusAnswer, Restarts
  <2> QED BY <1>3, <2>1, TakenFrame
<1>4. CASE EventsAnswer BY <1>4, TakenFrame DEF Restarts
<1>5. CASE ServeEvents \/ ServeStatus BY <1>5, GivenAnswers DEF Restarts
<1>6. CASE StatusEvent \/ DisplayEvent \/ OrderChangedEvent \/ OrderCreatedEvent
  <2>1. still' = still /\ \E w : Visit(w)
    BY <1>6 DEF StatusEvent, DisplayEvent, OrderChangedEvent, OrderCreatedEvent, Visit
  <2>2. Restarts(d)
    BY <1>2, <1>6 DEF StatusEvent, DisplayEvent, DisplayFlows, OrderChangedEvent,
                      OrderCreatedEvent, Restarts
  <2> QED BY <2>1, <2>2
<1>7. CASE QuietActions
  <2>1. UNCHANGED <<last_event, dropped>> BY <1>7, QuietFrame DEF SameAnswers
  <2>2. ASSUME NEW x \in Dispensers, Pour(x), x # d
        PROVE  age' = age /\ still'[d] = still[d]
    BY <1>1, <2>2 DEF Pour, Forecourt, progVars
  <2>3. \/ Tick \/ (\E x \in Dispensers : Pour(x)) \/ UNCHANGED <<age, still>>
    BY <1>7 DEF QuietActions, vars, progVars, handleChooseTRK, createOrder, BeginFuelling,
                handleBasicTouch, ForgetDispenser, Touch, ServeCreate, ServeAuthorize, ServeClose,
                Served, LiftNozzle, StartFuelling, Deliver, HangNozzle, Forecourt
  <2> QED BY <2>1, <2>2, <2>3 DEF Restarts
<1> QED BY <1>3, <1>4, <1>5, <1>6, <1>7, Actions

\* The display event n is visited: it restarts the supervision, or is dropped.
LEMMA DisplayVisited ==
  ASSUME TypeOK, StreamInv, FreshInv, LogInv, [Next]_vars, NEW n \in Indices,
         Visits(n), log[n].what = "display", log[n] = batch[1], batch[1].id = n
  PROVE  age'[log[n].dev] = 0 \/ n \in dropped'
<1>1. batch \in Seq(Event) /\ batch # <<>> BY DEF TypeOK, Visits
<1>2. Head(batch) = log[n] /\ log[n] \in Event BY <1>1, TailFacts
<1>3. log[n].dev \in Dispensers BY <1>2, EventFields
<1>4. batch' # batch /\ batch' = Tail(batch)
  <2>1. batch' = Tail(batch) BY DEF Visits, Visit
  <2> QED BY <1>1, <2>1, TailDiffers
<1>5. DisplayEvent
  <2>1. ~SameAnswers /\ ~EventsAnswer /\ ~StatusAnswer /\ ~ServeEvents /\ ~ServeStatus
    BY <1>1, <1>4
       DEF SameAnswers, EventsAnswer, StatusAnswer, Handling, ServeEvents, ServeStatus, Served
  <2> QED BY <1>2, <2>1, Actions, QuietFrame
       DEF StatusEvent, OrderChangedEvent, OrderCreatedEvent, Visit
<1>6. age \in [Dispensers -> 0..Timeout] BY DEF TypeOK
<1> QED BY <1>2, <1>3, <1>5, <1>6 DEF DisplayEvent, DisplayFlows, Flows

LEMMA DroppedGrows ==
  ASSUME TypeOK, LogInv, StreamInv, [Next]_vars
  PROVE  dropped \subseteq dropped'
  BY Actions, QuietFrame, GivenAnswers, TakenFrame
     DEF StatusEvent, DisplayEvent, OrderChangedEvent, OrderCreatedEvent, pastVars

LEMMA StepHeeded ==
  ASSUME TypeOK, LogInv, StreamInv, FreshInv, [Next]_vars, LastShown, DisplayHeeded
  PROVE  DisplayHeeded'
<1> SUFFICES ASSUME NEW d \in Dispensers
             PROVE  \/ LastDisplay(d)' > last_event'
                    \/ LastDisplay(d)' \in dropped'
                    \/ age'[d] <= still'[d]
  BY DEF DisplayHeeded
<1>1. /\ age[d] \in 0..Timeout /\ still[d] \in 0..Timeout /\ Timeout \in Nat
      /\ age[d] \in Nat /\ still[d] \in Nat /\ last_event \in Nat /\ Len(log) \in Nat
  BY DeliveryBounds DEF TypeOK
<1>2. LastDisplay(d) > last_event \/ LastDisplay(d) \in dropped \/ age[d] <= still[d]
  BY DEF DisplayHeeded
<1>3. dropped \subseteq dropped' BY DroppedGrows
<1>4. CASE Pour(d) /\ UNCHANGED <<last_event, dropped>>
  <2>1. PICK n \in Nat : n = Len(log) + 1 BY <1>1
  <2>2. Displays(log', d) = Displays(log, d) \cup {n} BY <1>4, <2>1, PourDisplays
  <2>3. Displays(log', d) \in SUBSET Nat /\ \A j \in Displays(log, d) : j <= n
    BY <1>1, <2>1, <2>2 DEF Displays
  <2>4. IsLast(n, Displays(log', d)) BY <2>2, <2>3 DEF IsLast
  <2>5. LastDisplay(d)' = n BY <2>3, <2>4, LastIs, LastDisplays
  <2>6. last_event <= Len(log)
    BY <1>1 DEF StreamInv, BatchInv
  <2> QED BY <1>1, <1>4, <2>1, <2>5, <2>6
<1>5. CASE ~Pour(d)
  <2>1. LastDisplay(d)' = LastDisplay(d) BY <1>5, StepDisplays, LastDisplays
  <2>2. CASE Tick
    <3>1. UNCHANGED <<last_event, dropped>> BY <2>2 DEF Tick, pastVars
    <3>2. age'[d] = Older(age[d]) /\ still'[d] = Older(still[d]) BY <2>2 DEF Tick
    <3>3. age[d] <= still[d] => Older(age[d]) <= Older(still[d]) BY <1>1 DEF Older
    <3> QED BY <1>2, <2>1, <3>1, <3>2, <3>3
  <2>3. Restarts(d) /\ still'[d] = still[d] /\ age[d] <= still[d] => age'[d] <= still'[d]
    BY <1>1 DEF Restarts
  <2>4. CASE Restarts(d) /\ still'[d] = still[d] /\ UNCHANGED <<last_event, dropped>>
    BY <1>2, <2>1, <2>3, <2>4
  <2>5. CASE Restarts(d) /\ still'[d] = still[d] /\ \E w : Visit(w)
    <3>1. PICK w : Visit(w) BY <2>5
    <3>2. AsksLately BY AsksStep DEF StreamInv, BatchInv
    <3>3. log' = log /\ batch # <<>> BY <3>1 DEF Visit, srvVars
    <3>4. batch[1].id <= last_event + 1 /\ batch[1].id \in Indices /\ log[batch[1].id] = batch[1]
      BY <3>1, <3>2, <3>3, VisitedStream
    <3>5. PICK n \in Indices : n = batch[1].id BY <3>4
    <3>6. Visits(n) BY <3>1, <3>3, <3>5 DEF Visits
    <3>7. last_event' = n
      <4>1. Head(batch) = batch[1] BY <3>3, TailFacts DEF TypeOK
      <4> QED BY <3>1, <3>5, <4>1 DEF Visit
    <3>8. n \in Nat /\ n <= last_event + 1 BY <1>1, <3>4, <3>5 DEF Indices
    <3>9. LastDisplay(d) \in Nat BY LastDisplayIsEvent
    <3>10. CASE LastDisplay(d) > last_event /\ ~(LastDisplay(d) > n)
      <4>1. LastDisplay(d) = n /\ LastDisplay(d) > 0 BY <1>1, <3>8, <3>9, <3>10
      <4>2. log[n].what = "display" /\ log[n].dev = d BY <4>1, LastDisplayIsEvent
      <4>3. age'[d] = 0 \/ n \in dropped' BY <3>4, <3>5, <3>6, <4>2, DisplayVisited
      <4>4. age'[d] = 0 => age'[d] <= still'[d] BY <1>1, <2>5
      <4> QED BY <2>1, <4>1, <4>3, <4>4
    <3> QED BY <1>2, <1>3, <2>1, <2>3, <2>5, <3>7, <3>10
  <2> QED BY <1>5, <2>2, <2>4, <2>5, Restarted
<1> QED BY <1>4, <1>5, Restarted, QuietFrame DEF QuietActions, SameAnswers

-----------------------------------------------------------------------------
(* The inductive invariant.                                                *)

IInv ==
  /\ TypeOK /\ LogInv /\ StreamInv /\ FreshInv
  /\ Recorded /\ ToldEnded /\ LastShown /\ DisplayHeeded
  /\ ConfirmedWithinDelivered /\ ToldIsExact

LEMMA InitIInv == Init => IInv
<1> SUFFICES ASSUME Init PROVE IInv OBVIOUS
<1>1. 0 \in Amounts /\ Timeout \in 0..Timeout /\ 0 \in 0..MaxTouches
  BY DeliveryBounds DEF Amounts
<1>2. TypeOK
  <2>1. DefaultOrder \in DatabaseOrder
    BY <1>1 DEF DefaultOrder, DatabaseOrder, OrderOrNone, OrderStatuses
  <2>2. [status |-> "IDLE", order |-> NoOrder, ostatus |-> ""]
          \in [status : Statuses, order : OrderOrNone, ostatus : OrderStatuses]
    BY DEF Statuses, OrderOrNone, OrderStatuses
  <2>3. /\ orders \in [Dispensers -> DatabaseOrder]
        /\ srv \in [Dispensers -> [status : Statuses, order : OrderOrNone, ostatus : OrderStatuses]]
    BY <2>1, <2>2 DEF Init
  <2>4. /\ batch \in Seq(Event) /\ requests \in Seq(Request) /\ responses \in Seq(Response)
        /\ log \in Seq(Event)
    <3>1. \A S : <<>> \in Seq(S) OBVIOUS
    <3> QED BY <3>1 DEF Init
  <2>5. /\ current \in Dispensers \cup {None} /\ status \in [Dispensers -> Statuses]
        /\ age \in [Dispensers -> 0..Timeout] /\ still \in [Dispensers -> 0..Timeout]
        /\ paused \in [Dispensers -> BOOLEAN] /\ last_event \in Nat /\ waiting \in BOOLEAN
        /\ poured \in [Orders -> Amounts] /\ dropped \subseteq 1..Len(log)
        /\ overwritten \subseteq Orders
        /\ confirmed \in [Orders -> SUBSET [amount : Amounts, told : BOOLEAN]]
        /\ touches \in 0..MaxTouches
    BY <1>1 DEF Init, Statuses
  <2> QED BY <2>3, <2>4, <2>5 DEF TypeOK
<1>3. Indices = {} /\ Len(log) = 0
  <2>1. log = <<>> BY DEF Init
  <2>2. Len(log) = 0 BY <2>1
  <2> QED BY <2>2 DEF Indices
<1>4. \A d \in Dispensers : srv[d].order = NoOrder /\ srv[d].ostatus = "" /\ srv[d].status = "IDLE"
  BY DEF Init
<1>5. LogInv
  <2>1. ServerOrder BY <1>3, <1>4, DeliveryNames DEF ServerOrder
  <2> QED BY <1>3, <2>1 DEF LogInv, Numbered, CreatedOnce, AmountsOwned, EndIsLast
<1>6. StreamInv /\ FreshInv
  <2>0. batch = <<>> /\ requests = <<>> /\ responses = <<>> /\ last_event = 0 BY DEF Init
  <2>1. Len(batch) = 0 /\ Len(requests) = 0 /\ Len(responses) = 0 /\ Reach = 0 /\ last_event = 0
    BY <2>0 DEF Reach
  <2>2. BatchInv BY <1>3, <2>0, <2>1 DEF BatchInv, Stretch, StretchOf
  <2> QED BY <2>1, <2>2 DEF StreamInv, AskedInv, AnswersInv, FreshInv
<1>7. Recorded
  <2>1. \A d \in Dispensers : orders[d].id \notin Orders
    BY DeliveryNames DEF Init, DefaultOrder
  <2> QED BY <2>1 DEF Recorded, OwnOrder, RecordBounded, RecordExact
<1>8. ToldEnded /\ ConfirmedWithinDelivered /\ ToldIsExact
  BY DEF Init, ToldEnded, ConfirmedWithinDelivered, ToldIsExact
<1>9. LastShown BY <1>3 DEF LastShown, Displays
<1>10. DisplayHeeded
  <2>1. age = still /\ \A d \in Dispensers : age[d] \in Nat BY DeliveryBounds DEF Init
  <2>2. \A d \in Dispensers : age[d] <= still[d] BY <2>1
  <2> QED BY <2>2 DEF DisplayHeeded
<1> QED BY <1>2, <1>5, <1>6, <1>7, <1>8, <1>9, <1>10 DEF IInv

LEMMA NextIInv == IInv /\ [Next]_vars => IInv'
<1> SUFFICES ASSUME IInv, [Next]_vars PROVE IInv' OBVIOUS
<1> USE DEF IInv
<1>1. TypeOK' BY StepTypes DEF StreamInv, BatchInv
<1>2. LogInv' BY ControllerStep
<1>3. StreamInv' /\ FreshInv' BY StepStream
<1>4. OwnOrder' BY StepOwnOrder DEF Recorded
<1>5. RecordBounded' BY <1>4, StepBounded DEF Recorded
<1>6. RecordExact' BY <1>4, StepExact DEF Recorded
<1>7. ToldEnded' /\ ConfirmedWithinDelivered' /\ ToldIsExact' BY StepConfirmed
<1>8. LastShown' BY StepLastShown
<1>9. DisplayHeeded' BY StepHeeded
<1> QED BY <1>1, <1>2, <1>3, <1>4, <1>5, <1>6, <1>7, <1>8, <1>9 DEF Recorded

LEMMA Invariant == Spec => []IInv
  BY InitIInv, NextIInv, PTL DEF Spec

\* Records, queues, ages and the controller's log stay what the code's types
\* say, in every behaviour of PrimeLogic's handlers and of the controller.
THEOREM TypeCorrect == Spec => []TypeOK
<1>1. IInv => TypeOK BY DEF IInv
<1> QED BY <1>1, Invariant, PTL

\* What PAY_CONFIRM says of an order is no more than was delivered for it, unless
\* an event from before the order was created was visited again and changed its
\* record: for any dispensers, orders, touches, answers and timers.
THEOREM WithinDelivered == Spec => []ConfirmedWithinDelivered
<1>1. IInv => ConfirmedWithinDelivered BY DEF IInv
<1> QED BY <1>1, Invariant, PTL

\* A PAY_CONFIRM that leaves after the end of its order was visited says exactly
\* what was delivered, also when events are visited twice and when the dispenser
\* is not the chosen one: handleDispenserOrderStatus() recorded the amount, and no
\* answer that still names the order meets a record that was changed since.
THEOREM ToldExact == Spec => []ToldIsExact
<1>1. IInv => ToldIsExact BY DEF IInv
<1> QED BY <1>1, Invariant, PTL

\* Only the tick of the io thread raises the alarm, for the chosen dispenser.
LEMMA Alarm ==
  ASSUME TypeOK, [Next]_vars, NEW d \in Dispensers, paused'[d], ~paused[d]
  PROVE  age[d] >= Timeout
<1>1. paused \in [Dispensers -> BOOLEAN] BY DEF TypeOK
<1>2. paused' # paused BY <1>1
<1>3. \A x : ~Flows(x)
  <2>1. ASSUME NEW x, Flows(x) PROVE paused'[d] = paused[d] \/ paused'[d] = FALSE
    BY <1>1, <2>1 DEF Flows
  <2> QED BY <2>1
<1>4. Tick
  <2>1. ~EventsAnswer /\ ~ServeEvents /\ ~ServeStatus
    BY <1>2 DEF EventsAnswer, ServeEvents, ServeStatus, Served
  <2>2. ~StatusAnswer BY <1>2, <1>3 DEF StatusAnswer
  <2>3. ~StatusEvent /\ ~DisplayEvent /\ ~OrderChangedEvent /\ ~OrderCreatedEvent
    BY <1>2, <1>3 DEF StatusEvent, DisplayEvent, DisplayFlows, OrderChangedEvent, OrderCreatedEvent
  <2>4. QuietActions BY <2>1, <2>2, <2>3, Actions
  <2> QED BY <1>2, <2>4
       DEF QuietActions, vars, progVars, handleChooseTRK, createOrder, BeginFuelling,
           handleBasicTouch, ForgetDispenser, Touch, ServeCreate, ServeAuthorize, ServeClose,
           Served, LiftNozzle, StartFuelling, Pour, Deliver, HangNozzle, Forecourt
<1>5. d = current /\ StandsStill BY <1>4 DEF Tick
<1> QED BY <1>5 DEF StandsStill

\* The alarm of checkFuellingProcess() for a dispenser whose display did change
\* within the time is never the fault of the supervision itself: the change is
\* still to be visited, or it came when another dispenser was chosen.
THEOREM FalseAlarms == Spec => FalseAlarmIsMissedEvent
<1>1. ASSUME IInv, [Next]_vars
      PROVE  \A d \in Dispensers : paused'[d] /\ ~paused[d] /\ still[d] < Timeout
               => LastDisplay(d) > last_event \/ LastDisplay(d) \in dropped
  <2> SUFFICES ASSUME NEW d \in Dispensers, paused'[d], ~paused[d], still[d] < Timeout
               PROVE  LastDisplay(d) > last_event \/ LastDisplay(d) \in dropped
    OBVIOUS
  <2>1. age[d] >= Timeout BY <1>1, Alarm DEF IInv
  <2>2. age[d] \in Nat /\ still[d] \in Nat /\ Timeout \in Nat
    BY <1>1, DeliveryBounds DEF IInv, TypeOK
  <2>3. ~(age[d] <= still[d]) BY <2>1, <2>2
  <2> QED BY <1>1, <2>3 DEF IInv, DisplayHeeded
<1> QED BY <1>1, Invariant, PTL DEF Spec, FalseAlarmIsMissedEvent

=============================================================================
