---------------------------- MODULE HarjusProofs ----------------------------
(***************************************************************************)
(* The whole program, for every market and every size of the queues: what  *)
(* is lost stays pinned, what is settled is booked, and a shutdown that    *)
(* completes leaves nothing open.                                          *)
(***************************************************************************)
EXTENDS Harjus, TradingProofs

-----------------------------------------------------------------------------
(* Where the threads are.                                                  *)

(* main has seen the worker's end.                                         *)
Leaving == {"stopping", "waiting", "onStop", "leaving", "exited"}

Control ==
    /\ priceQueue \in Seq(Symbols)
    /\ workerPc = "submit" => submitting # << >>
    /\ workerPc = "stopped" => DOMAIN executionsMap = {}
    /\ mainPc \in Leaving =>
          workerPc = "stopped" /\ isShuttingDown /\ process = "running"

-----------------------------------------------------------------------------
(* Where the orders are: an order is handed over by the worker, waits for  *)
(* the initiator, waits at the exchange, has its reports on the wire, has  *)
(* its last report in the worker's queue, or was lost.                     *)

(* A report of q settles an order of map; the orders q settles.            *)
Settles(r, map)  == r.id \in DOMAIN map /\ LastReport(r, map[r.id].trade)
Answers(q, map)  == {id \in DOMAIN map : \E i \in 1..Len(q) :
                        q[i].id = id /\ Settles(q[i], map)}

(* The worker's queue holds reports of orders that were handed out, and no *)
(* order is settled by two of them.                                        *)
ReportsSound(q, map, next) ==
    /\ q \in Seq(Msg)
    /\ \A i \in 1..Len(q) : q[i].status # "OTHER" /\ q[i].id[1] < next
    /\ \A i, j \in 1..Len(q) :
          q[i].id = q[j].id /\ Settles(q[i], map) /\ Settles(q[j], map) => i = j

(* Every order on the wire is open and has a chain of reports there.       *)
Chains(w, map) ==
    /\ w \in [DOMAIN w -> Seq(Msg)]
    /\ DOMAIN w \subseteq DOMAIN map
    /\ \A id \in DOMAIN w : Chain(w[id], id, map[id].trade)

(* No order is in two places.                                              *)
Apart(A, B, C, D, E, F) ==
    /\ A \cap B = {}
    /\ (A \cup B) \cap C = {}
    /\ (A \cup B \cup C) \cap D = {}
    /\ (A \cup B \cup C \cup D) \cap E = {}
    /\ (A \cup B \cup C \cup D \cup E) \cap F = {}

(* The orders in sub, out and line, the wire w, the reports q and the      *)
(* orders gone are where they should be.                                   *)
InPlace(sub, out, line, w, q, gone, map, next) ==
    /\ OrderQueue(sub) /\ Tracks(sub, map)
    /\ OrderQueue(out) /\ Tracks(out, map)
    /\ OrderQueue(line) /\ Tracks(line, map)
    /\ Chains(w, map)
    /\ ReportsSound(q, map, next)
    /\ gone \subseteq DOMAIN map
    /\ Apart(Ids(sub), Ids(out), Ids(line), DOMAIN w, Answers(q, map), gone)

Places == InPlace(submitting, outboundQueue, toExchange, wire, reportQueue,
                  lost, executionIdMap, nextId)

-----------------------------------------------------------------------------
(* Where the money is: the true account is what is booked and what the     *)
(* decisions on open orders brought.  share is that part of one asset,     *)
(* order by order: nothing for an order that is settled or not decided     *)
(* yet, the effect of its last report while that report exists.  A lost    *)
(* report leaves a share that no book will ever show.                      *)

Shares(share, a, map, waiting, w, q) ==
    /\ share \in [OrderIds -> Int]
    /\ \A id \in OrderIds : id \notin DOMAIN map \/ id \in waiting => share[id] = 0
    /\ \A id \in DOMAIN w :
          share[id] = Effect(w[id][Len(w[id])], map[id].trade, a)
    /\ \A i \in 1..Len(q) : Settles(q[i], map) =>
          share[q[i].id] = Effect(q[i], map[q[i].id].trade, a)

(* The orders that were not decided yet.                                   *)
WaitingIn(sub, out, line) == Ids(sub) \cup Ids(out) \cup Ids(line)

Accounted == \A a \in Assets : \E share :
    /\ account[a] = Booked(a) + SumFunction(share)
    /\ Shares(share, a, executionIdMap,
              WaitingIn(submitting, outboundQueue, toExchange),
              wire, reportQueue)

(* The inductive invariant of what flows through the program.              *)
Flow == /\ IInv
        /\ account \in [Assets -> Int]
        /\ Places
        /\ FeesOnCompletion => Accounted

-----------------------------------------------------------------------------
(* The worker's queue of reports.                                          *)

(* A report that is not the last of its order does not settle it.          *)
LEMMA EarlierNotLast ==
    ASSUME NEW r, NEW trade
    PROVE  ~(EarlierReport(r, trade) /\ LastReport(r, trade))
BY DEF EarlierReport, LastReport, Completes

(* A report is pushed: an order that is not settled yet is, if the report  *)
(* is its last.                                                            *)
LEMMA ReportPushed ==
    ASSUME NEW q, NEW map, NEW next, ReportsSound(q, map, next),
           NEW r \in Msg, r.status # "OTHER", r.id[1] < next,
           Settles(r, map) => r.id \notin Answers(q, map)
    PROVE  /\ ReportsSound(Append(q, r), map, next)
           /\ Answers(Append(q, r), map) =
                 IF Settles(r, map) THEN Answers(q, map) \cup {r.id} ELSE Answers(q, map)
<1> DEFINE p == Append(q, r)
<1>1. /\ q \in Seq(Msg) /\ Len(q) \in Nat
      /\ p \in Seq(Msg) /\ Len(p) = Len(q) + 1 /\ p[Len(q) + 1] = r
      /\ \A i \in 1..Len(q) : p[i] = q[i]
  BY DEF ReportsSound
<1> HIDE DEF p
<1>2. /\ \A i \in 1..Len(q) + 1 : i \in 1..Len(q) \/ i = Len(q) + 1
      /\ \A i \in 1..Len(q) : i \in 1..Len(q) + 1
      /\ Len(q) + 1 \in 1..Len(q) + 1
  BY <1>1
<1>3. \A i \in 1..Len(q) : Settles(q[i], map) => q[i].id \in Answers(q, map)
  BY DEF Answers, Settles
<1>4. ReportsSound(p, map, next)
  <2>1. \A i \in 1..Len(p) : p[i].status # "OTHER" /\ p[i].id[1] < next
    BY <1>1, <1>2 DEF ReportsSound
  <2>2. ASSUME NEW i \in 1..Len(p), NEW j \in 1..Len(p), p[i].id = p[j].id,
               Settles(p[i], map), Settles(p[j], map)
        PROVE  i = j
    BY <1>1, <1>2, <1>3, <2>2 DEF ReportsSound
  <2> QED BY <1>1, <2>1, <2>2 DEF ReportsSound
<1>5. Answers(q, map) \subseteq Answers(p, map)
  BY <1>1, <1>2 DEF Answers
<1>6. Settles(r, map) => r.id \in Answers(p, map)
  BY <1>1, <1>2 DEF Answers, Settles
<1>7. ASSUME NEW id \in Answers(p, map), id \notin Answers(q, map)
      PROVE  Settles(r, map) /\ id = r.id
  BY <1>1, <1>2, <1>7 DEF Answers
<1> QED BY <1>4, <1>5, <1>6, <1>7 DEF p

(* The report r is popped from q and leaves p.                             *)
Pops(q, r, p, map, next) ==
    /\ ReportsSound(p, map, next)
    /\ r \in Msg /\ r.status # "OTHER"
    /\ \E i \in 1..Len(q) : q[i] = r
    /\ \A i \in 1..Len(p) : \E j \in 1..Len(q) : p[i] = q[j]
    /\ Answers(p, map) = IF Settles(r, map) THEN Answers(q, map) \ {r.id}
                         ELSE Answers(q, map)

(* The first report of a queue is popped.                                  *)
LEMMA ReportPopped ==
    ASSUME NEW q, NEW map, NEW next, ReportsSound(q, map, next), q # << >>
    PROVE  Pops(q, Head(q), Tail(q), map, next)
<1> DEFINE p == Tail(q)
<1>1. /\ q \in Seq(Msg) /\ Len(q) \in Nat /\ Len(q) >= 1 /\ 1 \in 1..Len(q)
      /\ Head(q) = q[1] /\ q[1] \in Msg
      /\ p \in Seq(Msg) /\ Len(p) = Len(q) - 1
      /\ \A i \in 1..Len(q) - 1 : p[i] = q[i + 1]
  BY DEF ReportsSound
<1> HIDE DEF p
<1>2. /\ \A i \in 1..Len(q) - 1 : i + 1 \in 1..Len(q) /\ i + 1 # 1
      /\ \A i \in 1..Len(q) : i = 1 \/ (i - 1 \in 1..Len(q) - 1 /\ (i - 1) + 1 = i)
      /\ \A i, j \in 1..Len(q) - 1 : i + 1 = j + 1 => i = j
  BY <1>1
<1>3. Head(q).status # "OTHER"
  BY <1>1 DEF ReportsSound
<1>4. ReportsSound(p, map, next)
  <2>1. \A i \in 1..Len(p) : p[i].status # "OTHER" /\ p[i].id[1] < next
    BY <1>1, <1>2 DEF ReportsSound
  <2>2. ASSUME NEW i \in 1..Len(p), NEW j \in 1..Len(p), p[i].id = p[j].id,
               Settles(p[i], map), Settles(p[j], map)
        PROVE  i = j
    <3>1. /\ p[i] = q[i + 1] /\ i + 1 \in 1..Len(q)
          /\ p[j] = q[j + 1] /\ j + 1 \in 1..Len(q)
      BY <1>1, <1>2
    <3>2. i + 1 = j + 1
      BY <2>2, <3>1 DEF ReportsSound
    <3> QED BY <1>1, <1>2, <3>2
  <2> QED BY <1>1, <2>1, <2>2 DEF ReportsSound
<1>5. Answers(p, map) \subseteq Answers(q, map)
  BY <1>1, <1>2 DEF Answers
<1>6. ASSUME NEW id \in Answers(q, map), id \notin Answers(p, map)
      PROVE  Settles(Head(q), map) /\ id = Head(q).id
  <2>1. PICK i \in 1..Len(q) : q[i].id = id /\ Settles(q[i], map)
    BY <1>6 DEF Answers
  <2>2. CASE i = 1
    BY <1>1, <2>1, <2>2
  <2>3. CASE i # 1
    <3>1. p[i - 1] = q[i] /\ i - 1 \in 1..Len(p)
      BY <1>1, <1>2, <2>3
    <3>2. id \in Answers(p, map)
      BY <1>6, <2>1, <3>1 DEF Answers
    <3> QED BY <1>6, <3>2
  <2> QED BY <2>2, <2>3
<1>7. Settles(Head(q), map) => Head(q).id \notin Answers(p, map)
  <2> SUFFICES ASSUME Settles(q[1], map),
                      NEW i \in 1..Len(p), p[i].id = q[1].id, Settles(p[i], map)
               PROVE  FALSE
    BY <1>1 DEF Answers
  <2>1. p[i] = q[i + 1] /\ i + 1 \in 1..Len(q) /\ i + 1 # 1
    BY <1>1, <1>2
  <2> QED BY <1>1, <2>1 DEF ReportsSound
<1>8. \A i \in 1..Len(p) : \E j \in 1..Len(q) : p[i] = q[j]
  BY <1>1, <1>2
<1> QED BY <1>1, <1>3, <1>4, <1>5, <1>6, <1>7, <1>8 DEF p, Pops

(* An order is taken out of the map of open orders.                        *)
Without(less, map, id) == /\ DOMAIN less = DOMAIN map \ {id}
                          /\ \A o \in DOMAIN less : less[o] = map[o]

(* What is left of the reports in the map without an order.                *)
LEMMA ReportsAfterSettle ==
    ASSUME NEW q, NEW map, NEW next, ReportsSound(q, map, next), NEW id,
           NEW less, Without(less, map, id)
    PROVE  /\ ReportsSound(q, less, next)
           /\ Answers(q, less) = Answers(q, map) \ {id}
           /\ \A r : Settles(r, less) <=> Settles(r, map) /\ r.id # id
<1>1. \A r : Settles(r, less) <=> Settles(r, map) /\ r.id # id
  BY DEF Settles, Without
<1> QED BY <1>1 DEF ReportsSound, Answers, Without

(* A launch hands out the orders new and makes more of the map.            *)
HandsOut(new, map, more, next) ==
    /\ OrderQueue(new) /\ Tracks(new, more)
    /\ \A o \in Ids(new) : o[1] = next
    /\ Ids(new) \cap DOMAIN map = {}
    /\ DOMAIN more = DOMAIN map \cup Ids(new)
    /\ \A o \in DOMAIN map : more[o] = map[o]

(* Orders with new ids are put into the map of open orders.                *)
LEMMA ReportsAfterLaunch ==
    ASSUME NEW q, NEW map, NEW next \in Nat, ReportsSound(q, map, next),
           NEW new, NEW more, HandsOut(new, map, more, next)
    PROVE  /\ ReportsSound(q, more, next + 1)
           /\ Answers(q, more) = Answers(q, map)
           /\ \A i \in 1..Len(q) : Settles(q[i], more) <=> Settles(q[i], map)
<1>0. /\ \A o \in Ids(new) : o[1] = next
      /\ DOMAIN more = DOMAIN map \cup Ids(new)
      /\ \A o \in DOMAIN map : more[o] = map[o]
  BY DEF HandsOut
<1>1. \A i \in 1..Len(q) : q[i].id[1] < next + 1 /\ q[i].id \notin Ids(new)
  <2> TAKE i \in 1..Len(q)
  <2>1. q[i].id[1] < next /\ q[i] \in Msg
    BY DEF ReportsSound
  <2>2. q[i].id[1] \in Nat
    BY <2>1, NumbersAssumption DEF Msg, OrderIds, ExecutionIds
  <2>3. q[i].id[1] < next + 1 /\ q[i].id[1] # next
    BY <2>1, <2>2
  <2> QED BY <1>0, <2>3
<1>2. \A i \in 1..Len(q) : Settles(q[i], more) <=> Settles(q[i], map)
  BY <1>0, <1>1 DEF Settles
<1>3. ReportsSound(q, more, next + 1)
  BY <1>1, <1>2 DEF ReportsSound
<1>4. Answers(q, more) = Answers(q, map)
  BY <1>0, <1>1, <1>2 DEF Answers
<1> QED BY <1>2, <1>3, <1>4

-----------------------------------------------------------------------------
(* How orders move from place to place.                                    *)

(* The orders of a launched execution are handed to the application.       *)
LEMMA LaunchedInPlace ==
    ASSUME NEW sub, NEW out, NEW line, NEW w, NEW q, NEW gone, NEW map,
           NEW next \in Nat, InPlace(sub, out, line, w, q, gone, map, next),
           NEW new, NEW more, HandsOut(new, map, more, next)
    PROVE  /\ InPlace(new, out, line, w, q, gone, more, next + 1)
           /\ \A i \in 1..Len(q) : Settles(q[i], more) <=> Settles(q[i], map)
<1>h. /\ OrderQueue(new) /\ Tracks(new, more)
      /\ \A o \in Ids(new) : o[1] = next
      /\ Ids(new) \cap DOMAIN map = {}
      /\ DOMAIN more = DOMAIN map \cup Ids(new)
      /\ \A o \in DOMAIN map : more[o] = map[o]
  BY DEF HandsOut
<1>1. /\ Tracks(out, map) /\ Tracks(line, map) /\ Chains(w, map)
      /\ ReportsSound(q, map, next) /\ gone \subseteq DOMAIN map
      /\ Apart(Ids(sub), Ids(out), Ids(line), DOMAIN w, Answers(q, map), gone)
  BY DEF InPlace
<1>2. Tracks(out, more) /\ Tracks(line, more)
  BY <1>h, <1>1, TracksAgain
<1>3. Chains(w, more)
  <2>1. \A id \in DOMAIN w : id \in DOMAIN map /\ id \in DOMAIN more /\ more[id] = map[id]
    BY <1>h, <1>1 DEF Chains
  <2> QED BY <1>1, <2>1 DEF Chains
<1>5. /\ ReportsSound(q, more, next + 1) /\ Answers(q, more) = Answers(q, map)
      /\ \A i \in 1..Len(q) : Settles(q[i], more) <=> Settles(q[i], map)
  BY <1>1, ReportsAfterLaunch
<1>6. /\ Ids(out) \subseteq DOMAIN map /\ Ids(line) \subseteq DOMAIN map
      /\ DOMAIN w \subseteq DOMAIN map /\ Answers(q, map) \subseteq DOMAIN map
  BY <1>1, TrackedIds DEF Chains, Answers
<1>7. Apart(Ids(new), Ids(out), Ids(line), DOMAIN w, Answers(q, more), gone)
  BY <1>h, <1>1, <1>5, <1>6 DEF Apart
<1>8. gone \subseteq DOMAIN more
  BY <1>h, <1>1
<1> QED BY <1>h, <1>2, <1>3, <1>5, <1>7, <1>8 DEF InPlace

(* The first order handed over is queued for the initiator, or lost.       *)
LEMMA SubmittedInPlace ==
    ASSUME NEW sub, NEW out, NEW line, NEW w, NEW q, NEW gone, NEW map, NEW next,
           InPlace(sub, out, line, w, q, gone, map, next), sub # << >>
    PROVE  /\ InPlace(Tail(sub), Append(out, Head(sub)), line, w, q, gone, map, next)
           /\ InPlace(Tail(sub), out, line, w, q, gone \cup {Head(sub).id}, map, next)
           /\ Ids(Tail(sub)) \subseteq Ids(sub)
           /\ Ids(Append(out, Head(sub))) \subseteq Ids(sub) \cup Ids(out)
<1> DEFINE x == Head(sub)
<1>1. /\ OrderQueue(sub) /\ Tracks(sub, map) /\ OrderQueue(out) /\ Tracks(out, map)
      /\ Apart(Ids(sub), Ids(out), Ids(line), DOMAIN w, Answers(q, map), gone)
      /\ gone \subseteq DOMAIN map
  BY DEF InPlace
<1>2. /\ OrderQueue(Tail(sub)) /\ Tracks(Tail(sub), map)
      /\ x \in Order /\ x.id \in Ids(sub) /\ Ids(Tail(sub)) = Ids(sub) \ {x.id}
      /\ x.id \in DOMAIN map /\ x.trade = map[x.id].trade
  BY <1>1, TailOfQueue
<1> HIDE DEF x
<1>3. x.id \notin Ids(out)
  BY <1>1, <1>2 DEF Apart
<1>4. /\ OrderQueue(Append(out, x)) /\ Tracks(Append(out, x), map)
      /\ Ids(Append(out, x)) = Ids(out) \cup {x.id}
  BY <1>1, <1>2, <1>3, AppendToQueue
<1>5. /\ Apart(Ids(Tail(sub)), Ids(Append(out, x)), Ids(line), DOMAIN w,
               Answers(q, map), gone)
      /\ Apart(Ids(Tail(sub)), Ids(out), Ids(line), DOMAIN w,
               Answers(q, map), gone \cup {x.id})
  BY <1>1, <1>2, <1>4 DEF Apart
<1>6. gone \cup {x.id} \subseteq DOMAIN map
  BY <1>1, <1>2
<1>7. InPlace(Tail(sub), Append(out, x), line, w, q, gone, map, next)
  BY <1>2, <1>4, <1>5 DEF InPlace
<1>8. InPlace(Tail(sub), out, line, w, q, gone \cup {x.id}, map, next)
  BY <1>2, <1>5, <1>6 DEF InPlace
<1> QED BY <1>2, <1>4, <1>7, <1>8 DEF x

(* The first order of the initiator's queue is sent, or lost.              *)
LEMMA SentInPlace ==
    ASSUME NEW sub, NEW out, NEW line, NEW w, NEW q, NEW gone, NEW map, NEW next,
           InPlace(sub, out, line, w, q, gone, map, next), out # << >>
    PROVE  /\ InPlace(sub, Tail(out), Append(line, Head(out)), w, q, gone, map, next)
           /\ InPlace(sub, Tail(out), line, w, q, gone \cup {Head(out).id}, map, next)
           /\ Ids(Tail(out)) \subseteq Ids(out)
           /\ Ids(Append(line, Head(out))) \subseteq Ids(out) \cup Ids(line)
<1> DEFINE x == Head(out)
<1>1. /\ OrderQueue(out) /\ Tracks(out, map) /\ OrderQueue(line) /\ Tracks(line, map)
      /\ Apart(Ids(sub), Ids(out), Ids(line), DOMAIN w, Answers(q, map), gone)
      /\ gone \subseteq DOMAIN map
  BY DEF InPlace
<1>2. /\ OrderQueue(Tail(out)) /\ Tracks(Tail(out), map)
      /\ x \in Order /\ x.id \in Ids(out) /\ Ids(Tail(out)) = Ids(out) \ {x.id}
      /\ x.id \in DOMAIN map /\ x.trade = map[x.id].trade
  BY <1>1, TailOfQueue
<1> HIDE DEF x
<1>3. x.id \notin Ids(line)
  BY <1>1, <1>2 DEF Apart
<1>4. /\ OrderQueue(Append(line, x)) /\ Tracks(Append(line, x), map)
      /\ Ids(Append(line, x)) = Ids(line) \cup {x.id}
  BY <1>1, <1>2, <1>3, AppendToQueue
<1>5. /\ Apart(Ids(sub), Ids(Tail(out)), Ids(Append(line, x)), DOMAIN w,
               Answers(q, map), gone)
      /\ Apart(Ids(sub), Ids(Tail(out)), Ids(line), DOMAIN w,
               Answers(q, map), gone \cup {x.id})
  BY <1>1, <1>2, <1>4 DEF Apart
<1>6. gone \cup {x.id} \subseteq DOMAIN map
  BY <1>1, <1>2
<1>7. InPlace(sub, Tail(out), Append(line, x), w, q, gone, map, next)
  BY <1>2, <1>4, <1>5 DEF InPlace
<1>8. InPlace(sub, Tail(out), line, w, q, gone \cup {x.id}, map, next)
  BY <1>2, <1>5, <1>6 DEF InPlace
<1> QED BY <1>2, <1>4, <1>7, <1>8 DEF x

(* The first order of the exchange's line is decided.                      *)
LEMMA DecidedInPlace ==
    ASSUME NEW sub, NEW out, NEW line, NEW w, NEW q, NEW gone, NEW map, NEW next,
           InPlace(sub, out, line, w, q, gone, map, next), line # << >>,
           NEW reports, Chain(reports, Head(line).id, Head(line).trade)
    PROVE  /\ InPlace(sub, out, Tail(line), Emplace(w, Head(line).id, reports),
                      q, gone, map, next)
           /\ Head(line).id \in Ids(line) /\ Head(line).id \in DOMAIN map
           /\ Head(line).trade = map[Head(line).id].trade
           /\ Ids(Tail(line)) = Ids(line) \ {Head(line).id}
           /\ Head(line).id \notin Ids(sub) \cup Ids(out) \cup DOMAIN w
                                            \cup Answers(q, map)
<1> DEFINE x == Head(line)
           v == Emplace(w, x.id, reports)
<1>1. /\ OrderQueue(line) /\ Tracks(line, map) /\ Chains(w, map)
      /\ Apart(Ids(sub), Ids(out), Ids(line), DOMAIN w, Answers(q, map), gone)
  BY DEF InPlace
<1>2. /\ OrderQueue(Tail(line)) /\ Tracks(Tail(line), map)
      /\ x.id \in Ids(line) /\ Ids(Tail(line)) = Ids(line) \ {x.id}
      /\ x.id \in DOMAIN map /\ x.trade = map[x.id].trade
  BY <1>1, TailOfQueue
<1>c. Chain(reports, x.id, x.trade)
  OBVIOUS
<1> HIDE DEF x
<1>3. /\ DOMAIN v = DOMAIN w \cup {x.id}
      /\ v = [o \in DOMAIN w \cup {x.id} |-> IF o = x.id THEN reports ELSE w[o]]
  BY DEF Emplace
<1> HIDE DEF v
<1>4. Chains(v, map)
  <2>1. \A o \in DOMAIN w \cup {x.id} : Chain(v[o], o, map[o].trade)
    BY <1>1, <1>2, <1>3, <1>c DEF Chains
  <2>2. \A o \in DOMAIN w \cup {x.id} : v[o] \in Seq(Msg)
    BY <2>1 DEF Chain
  <2> QED BY <1>1, <1>2, <1>3, <2>1, <2>2 DEF Chains
<1>5. Apart(Ids(sub), Ids(out), Ids(Tail(line)), DOMAIN v, Answers(q, map), gone)
  BY <1>1, <1>2, <1>3 DEF Apart
<1>6. InPlace(sub, out, Tail(line), v, q, gone, map, next)
  BY <1>2, <1>4, <1>5 DEF InPlace
<1>7. x.id \notin Ids(sub) \cup Ids(out) \cup DOMAIN w \cup Answers(q, map)
  BY <1>1, <1>2 DEF Apart
<1> QED BY <1>2, <1>6, <1>7 DEF x, v

(* The next report of an order, and the wire without it.                   *)
NextReport(w, id) == Head(w[id])
Taken(w, id) == IF Len(w[id]) = 1 THEN Erase(w, id)
                ELSE [w EXCEPT ![id] = Tail(@)]

(* The next report is of its order, and settles it only if it is the last. *)
LEMMA NextOfChains ==
    ASSUME NEW w, NEW map, Chains(w, map), NEW id, id \in DOMAIN w
    PROVE  /\ id \in DOMAIN map
           /\ NextReport(w, id) \in Msg /\ NextReport(w, id).id = id
           /\ Settles(NextReport(w, id), map) =>
                 Len(w[id]) = 1 /\ NextReport(w, id) = w[id][Len(w[id])]
<1> DEFINE c == w[id]
           r == NextReport(w, id)
           trade == map[id].trade
<1>1. Chain(c, id, trade) /\ id \in DOMAIN map
  BY DEF Chains
<1>2. /\ r \in Msg /\ r.id = id
      /\ Len(c) = 1 => r = c[Len(c)]
      /\ Len(c) # 1 => EarlierReport(r, trade)
  BY <1>1, FirstOfChain DEF NextReport
<1>3. Settles(r, map) => LastReport(r, trade)
  BY <1>2 DEF Settles
<1> QED BY <1>1, <1>2, <1>3, EarlierNotLast

(* Taking a report keeps the chains; the order stays on the wire until its *)
(* last report is taken.                                                   *)
LEMMA TakenFromChains ==
    ASSUME NEW w, NEW map, Chains(w, map), NEW id, id \in DOMAIN w
    PROVE  /\ Chains(Taken(w, id), map)
           /\ Len(w[id]) = 1 => DOMAIN Taken(w, id) = DOMAIN w \ {id}
           /\ Len(w[id]) # 1 => DOMAIN Taken(w, id) = DOMAIN w
           /\ \A o \in DOMAIN Taken(w, id) :
                 Taken(w, id)[o][Len(Taken(w, id)[o])] = w[o][Len(w[o])]
<1> DEFINE c == w[id]
           v == Taken(w, id)
           trade == map[id].trade
<1>1. Chain(c, id, trade)
  BY DEF Chains
<1>2. Len(c) # 1 => Chain(Tail(c), id, trade) /\ Tail(c)[Len(Tail(c))] = c[Len(c)]
  BY <1>1, FirstOfChain
<1>4. CASE Len(c) = 1
  <2>1. v = [o \in DOMAIN w \ {id} |-> w[o]]
    BY <1>4 DEF Taken, Erase, Restrict
  <2> HIDE DEF v
  <2>2. DOMAIN v = DOMAIN w \ {id} /\ \A o \in DOMAIN w \ {id} : v[o] = w[o]
    BY <2>1
  <2>3. Chains(v, map)
    BY <2>1, <2>2 DEF Chains
  <2>4. \A o \in DOMAIN v : v[o][Len(v[o])] = w[o][Len(w[o])]
    BY <2>2
  <2>5. /\ Len(w[id]) = 1 => DOMAIN v = DOMAIN w \ {id}
        /\ Len(w[id]) # 1 => DOMAIN v = DOMAIN w
    BY <1>4, <2>2
  <2> QED BY <2>3, <2>4, <2>5 DEF v
<1>5. CASE Len(c) # 1
  <2>1. v = [o \in DOMAIN w |-> IF o = id THEN Tail(c) ELSE w[o]]
    BY <1>5 DEF Taken, Chains
  <2> HIDE DEF v
  <2>2. /\ DOMAIN v = DOMAIN w
        /\ \A o \in DOMAIN w : v[o] = IF o = id THEN Tail(c) ELSE w[o]
    BY <2>1
  <2>3. \A o \in DOMAIN w : Chain(v[o], o, map[o].trade)
    BY <1>2, <1>5, <2>2 DEF Chains
  <2>4. \A o \in DOMAIN w : v[o] \in Seq(Msg)
    BY <2>3 DEF Chain
  <2>5. Chains(v, map)
    BY <2>1, <2>2, <2>3, <2>4 DEF Chains
  <2>6. \A o \in DOMAIN v : v[o][Len(v[o])] = w[o][Len(w[o])]
    BY <1>2, <1>5, <2>2
  <2>7. /\ Len(w[id]) = 1 => DOMAIN v = DOMAIN w \ {id}
        /\ Len(w[id]) # 1 => DOMAIN v = DOMAIN w
    BY <1>5, <2>2
  <2> QED BY <2>5, <2>6, <2>7 DEF v
<1> QED BY <1>4, <1>5

(* A report is read from the wire: it is dropped with the process, pushed  *)
(* to the worker's queue, or lost.                                         *)
LEMMA TakenInPlace ==
    ASSUME NEW sub, NEW out, NEW line, NEW w, NEW q, NEW gone, NEW map, NEW next,
           InPlace(sub, out, line, w, q, gone, map, next),
           NEW id \in DOMAIN w, id[1] < next
    PROVE  /\ InPlace(sub, out, line, Taken(w, id), q, gone, map, next)
           /\ Len(w[id]) = 1 =>
                InPlace(sub, out, line, Taken(w, id), q, gone \cup {id}, map, next)
           /\ NextReport(w, id).status # "OTHER" =>
                InPlace(sub, out, line, Taken(w, id), Append(q, NextReport(w, id)),
                        gone, map, next)
<1> DEFINE r == NextReport(w, id)
           v == Taken(w, id)
<1>1. /\ Chains(w, map) /\ ReportsSound(q, map, next) /\ gone \subseteq DOMAIN map
      /\ Apart(Ids(sub), Ids(out), Ids(line), DOMAIN w, Answers(q, map), gone)
  BY DEF InPlace
<1>2. /\ Chains(v, map) /\ id \in DOMAIN map /\ r \in Msg /\ r.id = id
      /\ DOMAIN v \subseteq DOMAIN w
      /\ Len(w[id]) = 1 => DOMAIN v = DOMAIN w \ {id}
      /\ Settles(r, map) => Len(w[id]) = 1
  <2>c. Chains(w, map)
    BY <1>1
  <2>1. /\ id \in DOMAIN map /\ r \in Msg /\ r.id = id
        /\ Settles(r, map) => Len(w[id]) = 1
    BY <2>c, NextOfChains
  <2>2. /\ Chains(v, map)
        /\ Len(w[id]) = 1 => DOMAIN v = DOMAIN w \ {id}
        /\ Len(w[id]) # 1 => DOMAIN v = DOMAIN w
    BY <2>c, TakenFromChains
  <2> HIDE DEF r, v
  <2> QED BY <2>1, <2>2
<1> HIDE DEF r, v
<1>3. InPlace(sub, out, line, v, q, gone, map, next)
  <2>1. Apart(Ids(sub), Ids(out), Ids(line), DOMAIN v, Answers(q, map), gone)
    BY <1>1, <1>2 DEF Apart
  <2> QED BY <1>2, <2>1 DEF InPlace
<1>4. ASSUME Len(w[id]) = 1
      PROVE  InPlace(sub, out, line, v, q, gone \cup {id}, map, next)
  <2>1. Apart(Ids(sub), Ids(out), Ids(line), DOMAIN v, Answers(q, map), gone \cup {id})
    BY <1>1, <1>2, <1>4 DEF Apart
  <2>2. gone \cup {id} \subseteq DOMAIN map
    BY <1>1, <1>2
  <2> QED BY <1>2, <2>1, <2>2 DEF InPlace
<1>5. ASSUME r.status # "OTHER"
      PROVE  InPlace(sub, out, line, v, Append(q, r), gone, map, next)
  <2>1. id \notin Answers(q, map)
    BY <1>1 DEF Apart
  <2>2. /\ ReportsSound(Append(q, r), map, next)
        /\ Answers(Append(q, r), map) =
              IF Settles(r, map) THEN Answers(q, map) \cup {id} ELSE Answers(q, map)
    BY <1>1, <1>2, <1>5, <2>1, ReportPushed
  <2>3. Apart(Ids(sub), Ids(out), Ids(line), DOMAIN v, Answers(Append(q, r), map), gone)
    BY <1>1, <1>2, <2>2 DEF Apart
  <2> QED BY <1>2, <2>2, <2>3 DEF InPlace
<1> QED BY <1>3, <1>4, <1>5 DEF r, v

(* A report that settles nothing is popped by the worker.                  *)
LEMMA IgnoredInPlace ==
    ASSUME NEW sub, NEW out, NEW line, NEW w, NEW q, NEW gone, NEW map, NEW next,
           InPlace(sub, out, line, w, q, gone, map, next),
           NEW r, NEW p, Pops(q, r, p, map, next), ~Settles(r, map)
    PROVE  InPlace(sub, out, line, w, p, gone, map, next)
BY DEF InPlace, Pops

(* A report that settles an order is popped by the worker: the order       *)
(* leaves the map of open orders and is nowhere else.                      *)
LEMMA SettledInPlace ==
    ASSUME NEW sub, NEW out, NEW line, NEW w, NEW q, NEW gone, NEW map, NEW next,
           InPlace(sub, out, line, w, q, gone, map, next),
           NEW r, NEW p, Pops(q, r, p, map, next), Settles(r, map),
           NEW less, Without(less, map, r.id)
    PROVE  /\ InPlace(sub, out, line, w, p, gone, less, next)
           /\ r.id \notin DOMAIN w
<1> DEFINE id == r.id
<1>1. /\ Chains(w, map) /\ ReportsSound(q, map, next) /\ gone \subseteq DOMAIN map
      /\ Tracks(sub, map) /\ Tracks(out, map) /\ Tracks(line, map)
      /\ Apart(Ids(sub), Ids(out), Ids(line), DOMAIN w, Answers(q, map), gone)
  BY DEF InPlace
<1>2. /\ ReportsSound(p, map, next)
      /\ Answers(p, map) = Answers(q, map) \ {id}
      /\ \E i \in 1..Len(q) : q[i] = r
  BY DEF Pops
<1>3. id \in Answers(q, map)
  BY <1>2 DEF Answers, Settles
<1>w. Without(less, map, id)
  OBVIOUS
<1> HIDE DEF id
<1>4. ReportsSound(p, less, next) /\ Answers(p, less) = Answers(p, map) \ {id}
  BY <1>2, <1>w, ReportsAfterSettle
<1>5. id \notin Ids(sub) \cup Ids(out) \cup Ids(line) \cup DOMAIN w \cup gone
  BY <1>1, <1>3 DEF Apart
<1>6. \A o : o \in DOMAIN map /\ o # id => o \in DOMAIN less /\ less[o] = map[o]
  BY <1>w DEF Without
<1>7. Tracks(sub, less) /\ Tracks(out, less) /\ Tracks(line, less)
  BY <1>1, <1>5, <1>6, TracksAgain
<1>8. Chains(w, less)
  <2>1. \A o \in DOMAIN w : o \in DOMAIN less /\ less[o] = map[o]
    BY <1>1, <1>5, <1>6 DEF Chains
  <2> QED BY <1>1, <2>1 DEF Chains
<1>9. gone \subseteq DOMAIN less
  BY <1>1, <1>5, <1>6
<1>10. Apart(Ids(sub), Ids(out), Ids(line), DOMAIN w, Answers(p, less), gone)
  BY <1>1, <1>2, <1>4 DEF Apart
<1>11. InPlace(sub, out, line, w, p, gone, less, next)
  BY <1>4, <1>7, <1>8, <1>9, <1>10 DEF InPlace
<1> QED BY <1>5, <1>11 DEF id

-----------------------------------------------------------------------------
(* How the shares follow.                                                  *)

(* Nothing is decided or settled: the shares are what they were.           *)
LEMMA SharesKept ==
    ASSUME NEW share, NEW a, NEW map, NEW waiting, NEW w, NEW q,
           Shares(share, a, map, waiting, w, q),
           NEW map2, NEW waiting2, NEW w2, NEW q2,
           \A o \in OrderIds : o \notin DOMAIN map2 \/ o \in waiting2
                               => o \notin DOMAIN map \/ o \in waiting,
           \A o \in DOMAIN w2 : /\ o \in DOMAIN w /\ map2[o] = map[o]
                                /\ w2[o][Len(w2[o])] = w[o][Len(w[o])],
           \A i \in 1..Len(q2) : Settles(q2[i], map2) =>
              \/ \E j \in 1..Len(q) : /\ q2[i] = q[j] /\ Settles(q[j], map)
                                      /\ map2[q[j].id] = map[q[j].id]
              \/ share[q2[i].id] = Effect(q2[i], map2[q2[i].id].trade, a)
    PROVE  Shares(share, a, map2, waiting2, w2, q2)
<1>1. \A i \in 1..Len(q2) : Settles(q2[i], map2) =>
         share[q2[i].id] = Effect(q2[i], map2[q2[i].id].trade, a)
  BY DEF Shares
<1>2. \A o \in DOMAIN w2 :
         share[o] = Effect(w2[o][Len(w2[o])], map2[o].trade, a)
  BY DEF Shares
<1> QED BY <1>1, <1>2 DEF Shares

WithShare(share, id, n) == [share EXCEPT ![id] = n]

(* The share of one order changes, and the sum with it.                    *)
LEMMA ShareChanged ==
    ASSUME NEW share \in [OrderIds -> Int], NEW id \in OrderIds, NEW n \in Int
    PROVE  /\ WithShare(share, id, n) \in [OrderIds -> Int]
           /\ WithShare(share, id, n)[id] = n
           /\ \A o \in OrderIds : o # id =>
                 WithShare(share, id, n)[o] = share[o]
           /\ SumFunction(share) \in Int /\ share[id] \in Int
           /\ SumFunction(WithShare(share, id, n))
                = SumFunction(share) - share[id] + n
<1> DEFINE g == WithShare(share, id, n)
<1>1. g \in [OrderIds -> Int] /\ g[id] = n /\ \A o \in OrderIds : o # id => g[o] = share[o]
  BY DEF WithShare
<1> HIDE DEF g
<1>2. SumFunction(g) = SumFunction(share) - share[id] + g[id]
  BY <1>1, OrderIdsFinite, SumChange
<1>3. SumFunction(share) \in Int
  BY OrderIdsFinite, SumType
<1> QED BY <1>1, <1>2, <1>3 DEF g

(* An order that waits has neither a chain nor a report that settles it.   *)
Undecided(id, map, waiting, w, q) ==
    /\ id \in OrderIds /\ id \in DOMAIN map /\ id \in waiting
    /\ id \notin DOMAIN w /\ id \notin Answers(q, map)
    /\ DOMAIN w \subseteq DOMAIN map /\ DOMAIN map \subseteq OrderIds

(* An order is decided: its share becomes what its last report will bring. *)
LEMMA SharesDecided ==
    ASSUME NEW share, NEW a, NEW map, NEW waiting, NEW w, NEW q,
           Shares(share, a, map, waiting, w, q),
           NEW id, Undecided(id, map, waiting, w, q),
           NEW reports, NEW n \in Int,
           n = Effect(reports[Len(reports)], map[id].trade, a)
    PROVE  /\ Shares(WithShare(share, id, n), a, map, waiting \ {id},
                     Emplace(w, id, reports), q)
           /\ SumFunction(WithShare(share, id, n)) = SumFunction(share) + n
<1> DEFINE g == WithShare(share, id, n)
           v == Emplace(w, id, reports)
<1>0. /\ id \in OrderIds /\ id \in DOMAIN map /\ id \in waiting
      /\ id \notin DOMAIN w /\ id \notin Answers(q, map)
      /\ DOMAIN w \subseteq OrderIds /\ DOMAIN map \subseteq OrderIds
  BY DEF Undecided
<1>1. share \in [OrderIds -> Int] /\ share[id] = 0
  BY <1>0 DEF Shares
<1>2. SumFunction(share) \in Int /\ SumFunction(g) = SumFunction(share) - share[id] + n
  BY <1>0, <1>1, ShareChanged
<1>3. g \in [OrderIds -> Int] /\ g[id] = n /\ \A o \in OrderIds : o # id => g[o] = share[o]
  BY <1>0, <1>1 DEF WithShare
<1>4. /\ DOMAIN v = DOMAIN w \cup {id} /\ v[id] = reports
      /\ \A o \in DOMAIN w : v[o] = w[o]
  BY <1>0 DEF Emplace
<1> HIDE DEF g, v
<1>5. \A o \in OrderIds : o \notin DOMAIN map \/ o \in waiting \ {id} => g[o] = 0
  BY <1>0, <1>3 DEF Shares
<1>6. \A o \in DOMAIN v : g[o] = Effect(v[o][Len(v[o])], map[o].trade, a)
  <2>1. \A o \in DOMAIN w : o # id /\ share[o] = Effect(w[o][Len(w[o])], map[o].trade, a)
    BY <1>0 DEF Shares
  <2> QED BY <1>0, <1>3, <1>4, <2>1
<1>7. \A i \in 1..Len(q) : Settles(q[i], map) =>
         g[q[i].id] = Effect(q[i], map[q[i].id].trade, a)
  <2>1. \A i \in 1..Len(q) : Settles(q[i], map) =>
           q[i].id # id /\ q[i].id \in OrderIds
    BY <1>0 DEF Answers, Settles
  <2> QED BY <1>3, <2>1 DEF Shares
<1>8. Shares(g, a, map, waiting \ {id}, v, q)
  BY <1>3, <1>5, <1>6, <1>7 DEF Shares
<1>9. SumFunction(g) = SumFunction(share) + n
  BY <1>1, <1>2
<1> QED BY <1>8, <1>9 DEF g, v

(* An order is settled: its share is booked.                               *)
LEMMA SharesSettled ==
    ASSUME NEW share, NEW a, NEW map, NEW waiting, NEW w, NEW q, NEW next,
           Shares(share, a, map, waiting, w, q),
           NEW r, NEW p, Pops(q, r, p, map, next), Settles(r, map),
           NEW less, Without(less, map, r.id),
           r.id \notin DOMAIN w, DOMAIN w \subseteq DOMAIN map,
           DOMAIN map \subseteq OrderIds
    PROVE  /\ Shares(WithShare(share, r.id, 0), a, less, waiting, w, p)
           /\ SumFunction(WithShare(share, r.id, 0))
                = SumFunction(share) - Effect(r, map[r.id].trade, a)
           /\ Effect(r, map[r.id].trade, a) \in Int
           /\ SumFunction(share) \in Int
<1> DEFINE id == r.id
           g  == WithShare(share, id, 0)
<1>p. /\ r \in Msg /\ ReportsSound(p, map, next)
      /\ \E i \in 1..Len(q) : q[i] = r
      /\ \A i \in 1..Len(p) : \E j \in 1..Len(q) : p[i] = q[j]
  BY DEF Pops
<1>0. id \in OrderIds /\ id \in DOMAIN map
  BY <1>p DEF Msg, Settles
<1>1. share \in [OrderIds -> Int] /\ share[id] = Effect(r, map[id].trade, a)
  BY <1>p DEF Shares
<1>l. Without(less, map, id) /\ id \notin DOMAIN w
  OBVIOUS
<1>2. /\ SumFunction(share) \in Int /\ share[id] \in Int
      /\ SumFunction(g) = SumFunction(share) - share[id] + 0
  <2> HIDE DEF id
  <2>1. \A n \in Int : /\ SumFunction(share) \in Int /\ share[id] \in Int
                       /\ SumFunction(WithShare(share, id, n))
                            = SumFunction(share) - share[id] + n
    BY <1>0, <1>1, ShareChanged
  <2> QED BY <2>1
<1>3. g \in [OrderIds -> Int] /\ g[id] = 0 /\ \A o \in OrderIds : o # id => g[o] = share[o]
  BY <1>0, <1>1 DEF WithShare
<1> HIDE DEF g, id
<1>5. \A o \in OrderIds : o \notin DOMAIN less \/ o \in waiting => g[o] = 0
  BY <1>3, <1>l DEF Shares, Without
<1>6. \A o \in DOMAIN w : g[o] = Effect(w[o][Len(w[o])], less[o].trade, a)
  <2>1. \A o \in DOMAIN w : o # id /\ o \in OrderIds /\ less[o] = map[o]
    BY <1>l DEF Without
  <2> QED BY <1>3, <2>1 DEF Shares
<1>7. ASSUME NEW i \in 1..Len(p), Settles(p[i], less)
      PROVE  g[p[i].id] = Effect(p[i], less[p[i].id].trade, a)
  <2>0. Settles(p[i], map) /\ p[i].id # id
    BY <1>p, <1>l, <1>7, ReportsAfterSettle
  <2>1. Settles(p[i], map) /\ p[i].id # id /\ p[i].id \in OrderIds
    BY <2>0 DEF Settles
  <2>2. less[p[i].id] = map[p[i].id]
    BY <1>7, <1>l DEF Settles, Without
  <2>3. PICK j \in 1..Len(q) : p[i] = q[j]
    BY <1>p
  <2>4. share[p[i].id] = Effect(p[i], map[p[i].id].trade, a)
    BY <2>1, <2>3 DEF Shares
  <2> QED BY <1>3, <2>1, <2>2, <2>4
<1>8. Shares(g, a, less, waiting, w, p)
  BY <1>3, <1>5, <1>6, <1>7 DEF Shares
<1>9. SumFunction(g) = SumFunction(share) - share[id]
  BY <1>2
<1> QED BY <1>1, <1>2, <1>8, <1>9 DEF g, id

-----------------------------------------------------------------------------
(* The invariant, step by step.                                            *)

(* The invariant of the next state, in the terms of the lemmas above.      *)
LEMMA FlowNext ==
    /\ Places' <=> InPlace(submitting', outboundQueue', toExchange', wire',
                           reportQueue', lost', executionIdMap', nextId')
    /\ Accounted' <=> \A a \in Assets : \E share :
          /\ account'[a] = Booked(a)' + SumFunction(share)
          /\ Shares(share, a, executionIdMap',
                    WaitingIn(submitting', outboundQueue', toExchange'),
                    wire', reportQueue')
<1>1. Places' <=> InPlace(submitting', outboundQueue', toExchange', wire',
                           reportQueue', lost', executionIdMap', nextId')
  BY DEF Places, InPlace, OrderQueue, Unique, Tracks, Ids, Chains, Chain,
         ReportsSound, Answers, Settles, LastReport, EarlierReport, Completes, Apart
<1>2. Accounted' <=> \A a \in Assets : \E share :
          /\ account'[a] = Booked(a)' + SumFunction(share)
          /\ Shares(share, a, executionIdMap',
                    WaitingIn(submitting', outboundQueue', toExchange'),
                    wire', reportQueue')
  BY DEF Accounted, Shares, WaitingIn, Ids, Settles, LastReport, Completes, Effect,
         recvCurrency, usedCurrency
<1> QED BY <1>1, <1>2

(* A state in which nothing that flows has moved.                          *)
flowVars == <<workerVars, submitting, outboundQueue, toExchange, wire,
              reportQueue, lost, account>>

(* A step that moves nothing preserves the invariant.                      *)
LEMMA StutterFlow ==
    ASSUME Flow, UNCHANGED flowVars
    PROVE  Flow'
<1>1. /\ UNCHANGED workerVars /\ submitting' = submitting
      /\ outboundQueue' = outboundQueue /\ toExchange' = toExchange
      /\ wire' = wire /\ reportQueue' = reportQueue /\ lost' = lost
      /\ account' = account
  BY DEF flowVars
<1>2. executionIdMap' = executionIdMap /\ nextId' = nextId
  BY <1>1 DEF workerVars, books
<1>3. IInv' /\ account' \in [Assets -> Int]
  BY <1>1, StutterIInv DEF Flow
<1>4. Places'
  BY <1>1, <1>2, FlowNext DEF Flow, Places
<1>5. FeesOnCompletion => Accounted'
  <2> SUFFICES ASSUME Accounted PROVE Accounted'
    BY DEF Flow
  <2>1. \A a \in Assets : Booked(a)' = Booked(a)
    BY <1>1, SameBooks
  <2> QED BY <1>1, <1>2, <2>1, FlowNext DEF Accounted
<1> QED BY <1>3, <1>4, <1>5 DEF Flow

(* At start nothing is anywhere.                                           *)
LEMMA InitFlow == Init => Flow
<1> SUFFICES ASSUME Init PROVE Flow
  OBVIOUS
<1>1. /\ TradingInit /\ submitting = << >> /\ outboundQueue = << >>
      /\ toExchange = << >> /\ DOMAIN wire = {} /\ reportQueue = << >>
      /\ lost = {} /\ wire = << >> /\ executionIdMap = << >> /\ account = InitialBalance
      /\ DOMAIN executionsMap = {} /\ balance = InitialBalance
  BY DEF Init, TradingInit, ExchangeInit, WorkerInit
<1>2. IInv
  BY <1>1, InitIInv DEF TradingInit
<1>3. account \in [Assets -> Int]
  BY <1>1, BalanceAssumption
<1>4. Places
  <2>1. /\ OrderQueue(<< >>) /\ \A map : Tracks(<< >>, map)
        /\ Ids(<< >>) = {} /\ \A map : Answers(<< >>, map) = {}
        /\ \A map, next : ReportsSound(<< >>, map, next)
    BY DEF OrderQueue, Unique, Tracks, Ids, Answers, ReportsSound
  <2>2. Chains(wire, executionIdMap)
    BY <1>1 DEF Chains
  <2>3. Apart({}, {}, {}, {}, {}, {})
    BY DEF Apart
  <2> QED BY <1>1, <2>1, <2>2, <2>3 DEF Places, InPlace
<1>5. Accounted
  <2> SUFFICES ASSUME NEW a \in Assets
               PROVE  \E share :
                  /\ account[a] = Booked(a) + SumFunction(share)
                  /\ Shares(share, a, executionIdMap,
                            WaitingIn(submitting, outboundQueue, toExchange),
                            wire, reportQueue)
    BY DEF Accounted
  <2> DEFINE share == [id \in OrderIds |-> 0]
  <2>1. share \in [OrderIds -> Int] /\ \A id \in OrderIds : share[id] = 0
    OBVIOUS
  <2> HIDE DEF share
  <2>2. SumFunction(share) = 0
    BY <2>1, OrderIdsFinite, SumOfZeros
  <2>3. SumFunction(Deltas(a)) = 0 /\ balance[a] \in Int
    BY <1>1, <1>2, BooksType, SumOfZeros
  <2>4. account[a] = Booked(a) + SumFunction(share)
    BY <1>1, <2>2, <2>3 DEF Booked
  <2>5. Shares(share, a, executionIdMap,
               WaitingIn(submitting, outboundQueue, toExchange), wire, reportQueue)
    BY <1>1, <2>1 DEF Shares
  <2> QED BY <2>4, <2>5
<1> QED BY <1>2, <1>3, <1>4, <1>5 DEF Flow

(* Orders leave the places where they wait and are not decided: the shares *)
(* are what they were.                                                     *)
LEMMA FewerWaiting ==
    ASSUME Accounted, UNCHANGED workerVars,
           wire' = wire, reportQueue' = reportQueue, account' = account,
           WaitingIn(submitting', outboundQueue', toExchange')
              \subseteq WaitingIn(submitting, outboundQueue, toExchange)
    PROVE  Accounted'
<1>1. executionIdMap' = executionIdMap
  BY DEF workerVars, books
<1> SUFFICES ASSUME NEW a \in Assets
             PROVE  \E share :
                /\ account'[a] = Booked(a)' + SumFunction(share)
                /\ Shares(share, a, executionIdMap',
                          WaitingIn(submitting', outboundQueue', toExchange'),
                          wire', reportQueue')
  BY FlowNext
<1> DEFINE now   == WaitingIn(submitting, outboundQueue, toExchange)
           later == WaitingIn(submitting', outboundQueue', toExchange')
<1>2. PICK share :
        /\ account[a] = Booked(a) + SumFunction(share)
        /\ Shares(share, a, executionIdMap, now, wire, reportQueue)
  BY DEF Accounted
<1>s. later \subseteq now
  OBVIOUS
<1> HIDE DEF now, later
<1>3. Shares(share, a, executionIdMap, later, wire, reportQueue)
  BY <1>2, <1>s DEF Shares
<1> QED BY <1>1, <1>2, <1>3, SameBooks DEF later

(* Application::submitOrder: the order is queued or lost.                  *)
LEMMA submitOrderFlow ==
    ASSUME Flow, submitOrder, submitting # << >>
    PROVE  Flow'
<1>1. /\ UNCHANGED workerVars /\ submitting' = Tail(submitting)
      /\ toExchange' = toExchange /\ wire' = wire /\ reportQueue' = reportQueue
      /\ account' = account
      /\ \/ outboundQueue' = Append(outboundQueue, Head(submitting)) /\ lost' = lost
         \/ outboundQueue' = outboundQueue /\ lost' = lost \cup {Head(submitting).id}
  BY DEF submitOrder, exchangeVars
<1>2. executionIdMap' = executionIdMap /\ nextId' = nextId
  BY <1>1 DEF workerVars, books
<1>3. IInv' /\ account' \in [Assets -> Int]
  BY <1>1, StutterIInv DEF Flow
<1>p. InPlace(submitting, outboundQueue, toExchange, wire, reportQueue,
              lost, executionIdMap, nextId)
  BY DEF Flow, Places
<1>4. /\ InPlace(Tail(submitting), Append(outboundQueue, Head(submitting)),
                 toExchange, wire, reportQueue, lost, executionIdMap, nextId)
      /\ InPlace(Tail(submitting), outboundQueue, toExchange, wire, reportQueue,
                 lost \cup {Head(submitting).id}, executionIdMap, nextId)
      /\ Ids(Tail(submitting)) \subseteq Ids(submitting)
      /\ Ids(Append(outboundQueue, Head(submitting)))
            \subseteq Ids(submitting) \cup Ids(outboundQueue)
  BY <1>p, SubmittedInPlace
<1>5. Places'
  BY <1>1, <1>2, <1>4, FlowNext
<1>6. WaitingIn(submitting', outboundQueue', toExchange')
         \subseteq WaitingIn(submitting, outboundQueue, toExchange)
  BY <1>1, <1>4 DEF WaitingIn
<1>7. FeesOnCompletion => Accounted'
  BY <1>1, <1>2, <1>6, FewerWaiting DEF Flow
<1> QED BY <1>3, <1>5, <1>7 DEF Flow

(* processOutboundQueue: the order is sent or lost.                        *)
LEMMA SendOrderFlow ==
    ASSUME Flow, SendOrder
    PROVE  Flow'
<1>1. /\ UNCHANGED workerVars /\ submitting' = submitting
      /\ outboundQueue # << >> /\ outboundQueue' = Tail(outboundQueue)
      /\ wire' = wire /\ reportQueue' = reportQueue /\ account' = account
      /\ \/ toExchange' = Append(toExchange, Head(outboundQueue)) /\ lost' = lost
         \/ toExchange' = toExchange /\ lost' = lost \cup {Head(outboundQueue).id}
  BY DEF SendOrder, threadVars
<1>2. executionIdMap' = executionIdMap /\ nextId' = nextId
  BY <1>1 DEF workerVars, books
<1>3. IInv' /\ account' \in [Assets -> Int]
  BY <1>1, StutterIInv DEF Flow
<1>p. InPlace(submitting, outboundQueue, toExchange, wire, reportQueue,
              lost, executionIdMap, nextId)
  BY DEF Flow, Places
<1>4. /\ InPlace(submitting, Tail(outboundQueue),
                 Append(toExchange, Head(outboundQueue)), wire, reportQueue,
                 lost, executionIdMap, nextId)
      /\ InPlace(submitting, Tail(outboundQueue), toExchange, wire, reportQueue,
                 lost \cup {Head(outboundQueue).id}, executionIdMap, nextId)
      /\ Ids(Tail(outboundQueue)) \subseteq Ids(outboundQueue)
      /\ Ids(Append(toExchange, Head(outboundQueue)))
            \subseteq Ids(outboundQueue) \cup Ids(toExchange)
  BY <1>1, <1>p, SentInPlace
<1>5. Places'
  BY <1>1, <1>2, <1>4, FlowNext
<1>6. WaitingIn(submitting', outboundQueue', toExchange')
         \subseteq WaitingIn(submitting, outboundQueue, toExchange)
  BY <1>1, <1>4 DEF WaitingIn
<1>7. FeesOnCompletion => Accounted'
  BY <1>1, <1>2, <1>6, FewerWaiting DEF Flow
<1> QED BY <1>3, <1>5, <1>7 DEF Flow

(* A price update is popped: an execution is launched or nothing changes.  *)
LEMMA PopPriceFlow ==
    ASSUME Flow, PopPrice, priceQueue \in Seq(Symbols)
    PROVE  Flow'
<1>1. /\ processPriceUpdate(Head(priceQueue)) /\ priceQueue # << >>
      /\ submitting' = LaunchedOrders /\ outboundQueue' = outboundQueue
      /\ toExchange' = toExchange /\ wire' = wire /\ reportQueue' = reportQueue
      /\ lost' = lost /\ account' = account
  BY DEF PopPrice, exchangeVars
<1>i. IInv /\ account \in [Assets -> Int]
  BY DEF Flow
<1>p. InPlace(submitting, outboundQueue, toExchange, wire, reportQueue,
              lost, executionIdMap, nextId)
  BY DEF Flow, Places
<1>h. Head(priceQueue) \in Symbols
  BY <1>1
<1>2. CASE UNCHANGED workerVars
  <2>1. executionIdMap' = executionIdMap /\ nextId' = nextId
    BY <1>2 DEF workerVars, books
  <2>2. IInv'
    BY <1>2, <1>i, StutterIInv
  <2>3. submitting' = << >>
    BY <1>1, <1>2, NothingLaunched
  <2>4. /\ OrderQueue(<< >>) /\ Tracks(<< >>, executionIdMap) /\ Ids(<< >>) = {}
    BY DEF OrderQueue, Unique, Tracks, Ids
  <2>5. InPlace(<< >>, outboundQueue, toExchange, wire, reportQueue,
                lost, executionIdMap, nextId)
    <3>1. Apart({}, Ids(outboundQueue), Ids(toExchange), DOMAIN wire,
                Answers(reportQueue, executionIdMap), lost)
      BY <1>p DEF InPlace, Apart
    <3> QED BY <1>p, <2>4, <3>1 DEF InPlace
  <2>6. Places'
    BY <1>1, <2>1, <2>3, <2>5, FlowNext
  <2>7. WaitingIn(submitting', outboundQueue', toExchange')
           \subseteq WaitingIn(submitting, outboundQueue, toExchange)
    BY <1>1, <2>3, <2>4 DEF WaitingIn
  <2>8. FeesOnCompletion => Accounted'
    BY <1>1, <1>2, <2>7, FewerWaiting DEF Flow
  <2> QED BY <1>1, <1>i, <2>2, <2>6, <2>8 DEF Flow
<1>3. CASE ~ UNCHANGED workerVars
  <2>1. nextId \in ExecutionIds /\ nextId \in Nat
    BY <1>1, <1>3, <1>i, <1>h, PriceUpdateLaunches, NumbersAssumption DEF ExecutionIds
  <2>2. PICK path \in TradingPaths :
          /\ SymbolsOf(path) \cap reserved = {}
          /\ \E orders \in [DOMAIN path -> StaticTrade] :
               /\ \A i \in DOMAIN path : orders[i].symbol = path[i].symbol
               /\ Launch(path, orders)
    BY <1>1, <1>3, <1>i, <1>h, PriceUpdateLaunches
  <2>3. PICK orders \in [DOMAIN path -> StaticTrade] :
          /\ \A i \in DOMAIN path : orders[i].symbol = path[i].symbol
          /\ Launch(path, orders)
    BY <2>2
  <2>4. IInv'
    BY <1>i, <2>1, <2>2, <2>3, LaunchPreservesIInv
  <2>5. /\ OrderQueue(LaunchedOrders) /\ Tracks(LaunchedOrders, executionIdMap')
        /\ \A o \in Ids(LaunchedOrders) : o[1] = nextId
        /\ Ids(LaunchedOrders) \cap DOMAIN executionIdMap = {}
        /\ DOMAIN executionIdMap' = DOMAIN executionIdMap \cup Ids(LaunchedOrders)
        /\ \A o \in DOMAIN executionIdMap : executionIdMap'[o] = executionIdMap[o]
    BY <1>i, <2>1, <2>3, LaunchHandsOut
  <2>6. nextId' = nextId + 1
    BY <2>3 DEF Launch
  <2> DEFINE new  == LaunchedOrders
             more == executionIdMap'
             map  == executionIdMap
             q    == reportQueue
  <2>7. /\ InPlace(new, outboundQueue, toExchange, wire, q, lost, more, nextId + 1)
        /\ \A i \in 1..Len(q) : Settles(q[i], more) <=> Settles(q[i], map)
    <3> HIDE DEF new, more, map, q
    <3>1. InPlace(submitting, outboundQueue, toExchange, wire, q, lost, map, nextId)
      BY <1>p DEF q, map
    <3>2. HandsOut(new, map, more, nextId)
      BY <2>5 DEF new, more, map, HandsOut
    <3> QED BY <2>1, <3>1, <3>2, LaunchedInPlace
  <2>8. Places'
    BY <1>1, <2>6, <2>7, FlowNext
  <2>9. ASSUME Accounted, NEW a \in Assets
        PROVE  \E share :
                /\ account'[a] = Booked(a)' + SumFunction(share)
                /\ Shares(share, a, more,
                          WaitingIn(submitting', outboundQueue', toExchange'), wire', q')
    <3> DEFINE now   == WaitingIn(submitting, outboundQueue, toExchange)
               later == WaitingIn(submitting', outboundQueue', toExchange')
    <3>1. PICK share : /\ account[a] = Booked(a) + SumFunction(share)
                       /\ Shares(share, a, map, now, wire, q)
      BY <2>9 DEF Accounted
    <3>2. Booked(a)' = Booked(a)
      BY <1>i, <2>1, <2>3, <2>4, LaunchKeepsBooks
    <3>3. later \subseteq now \cup Ids(new)
      BY <1>1 DEF WaitingIn
    <3>4. DOMAIN wire \subseteq DOMAIN map
      BY <1>p DEF InPlace, Chains
    <3>5. /\ \A o \in Ids(new) : o \notin DOMAIN map
          /\ DOMAIN map \subseteq DOMAIN more
          /\ \A o \in DOMAIN map : more[o] = map[o]
      <4>1. DOMAIN more = DOMAIN map \cup Ids(new)
        BY <2>5
      <4> QED BY <2>5, <4>1
    <3>6. \A i \in 1..Len(q) : Settles(q[i], more) <=> Settles(q[i], map)
      BY <2>7
    <3> HIDE DEF now, later, more, map, q, new
    <3>7. \A o \in OrderIds : o \notin DOMAIN more \/ o \in later
                              => o \notin DOMAIN map \/ o \in now
      BY <3>3, <3>5
    <3>8. \A o \in DOMAIN wire : o \in DOMAIN wire /\ more[o] = map[o]
      BY <3>4, <3>5
    <3>9. \A i \in 1..Len(q) : Settles(q[i], more) =>
             Settles(q[i], map) /\ more[q[i].id] = map[q[i].id]
      BY <3>5, <3>6 DEF Settles
    <3>10. Shares(share, a, more, later, wire, q)
      BY <3>1, <3>7, <3>8, <3>9, SharesKept
    <3>11. wire' = wire /\ q' = q /\ account'[a] = account[a]
      BY <1>1 DEF q
    <3> QED BY <3>1, <3>2, <3>10, <3>11 DEF later
  <2>10. FeesOnCompletion => Accounted'
    BY <2>9, FlowNext DEF Flow
  <2> QED BY <1>1, <1>i, <2>4, <2>8, <2>10 DEF Flow
<1> QED BY <1>2, <1>3

(* A report is popped: it settles an order, or changes nothing.            *)
LEMMA PopReportFlow ==
    ASSUME Flow, PopReport
    PROVE  Flow'
<1> DEFINE r   == Head(reportQueue)
           q   == reportQueue
           p   == Tail(reportQueue)
           map == executionIdMap
<1>1. /\ processReport(r) /\ q # << >> /\ reportQueue' = p
      /\ submitting' = submitting /\ outboundQueue' = outboundQueue
      /\ toExchange' = toExchange /\ wire' = wire
      /\ lost' = lost /\ account' = account
  BY DEF PopReport, exchangeVars
<1>i. IInv /\ account \in [Assets -> Int]
  BY DEF Flow
<1>p. InPlace(submitting, outboundQueue, toExchange, wire, q, lost, map, nextId)
  BY DEF Flow, Places
<1>o. Pops(q, r, p, map, nextId)
  <2>1. ReportsSound(q, map, nextId)
    BY <1>p DEF InPlace
  <2> QED BY <1>1, <2>1, ReportPopped
<1>r. /\ r \in Msg /\ r.status # "OTHER"
      /\ \A i \in 1..Len(p) : \E j \in 1..Len(q) : p[i] = q[j]
  BY <1>o DEF Pops
<1>2. CASE ~Settles(r, map)
  <2>1. r.id \notin DOMAIN map \/ EarlierReport(r, map[r.id].trade)
    <3>1. r.status \in Statuses
      BY <1>r DEF Msg
    <3> QED BY <1>2, <1>r, <3>1
            DEF Settles, LastReport, EarlierReport, Statuses
  <2>2. UNCHANGED workerVars
    BY <1>1, <2>1, EarlierChangesNothing
  <2>3. executionIdMap' = map /\ nextId' = nextId
    BY <2>2 DEF workerVars, books
  <2>4. IInv'
    BY <1>i, <2>2, StutterIInv
  <2>5. InPlace(submitting, outboundQueue, toExchange, wire, p, lost, map, nextId)
    <3> HIDE DEF r, p, q, map
    <3> QED BY <1>o, <1>2, <1>p, IgnoredInPlace
  <2>6. Places'
    BY <1>1, <2>3, <2>5, FlowNext
  <2>7. ASSUME Accounted, NEW a \in Assets
        PROVE  \E share :
                /\ account'[a] = Booked(a)' + SumFunction(share)
                /\ Shares(share, a, executionIdMap',
                          WaitingIn(submitting', outboundQueue', toExchange'),
                          wire', reportQueue')
    <3> DEFINE now == WaitingIn(submitting, outboundQueue, toExchange)
    <3>1. PICK share : /\ account[a] = Booked(a) + SumFunction(share)
                       /\ Shares(share, a, map, now, wire, q)
      BY <2>7 DEF Accounted
    <3>2. Shares(share, a, map, now, wire, p)
      <4> HIDE DEF now, map, p, q, r
      <4> QED BY <1>r, <3>1 DEF Shares
    <3> QED BY <1>1, <2>2, <2>3, <3>1, <3>2, SameBooks
  <2>8. FeesOnCompletion => Accounted'
    BY <2>7, FlowNext DEF Flow
  <2> QED BY <1>1, <1>i, <2>4, <2>6, <2>8 DEF Flow
<1>3. CASE Settles(r, map)
  <2>1. r.id \in DOMAIN map /\ LastReport(r, map[r.id].trade)
    BY <1>3 DEF Settles
  <2>2. PICK delta \in [Assets -> Int] :
          \E failed \in SUBSET {map[r.id].executionId} :
             /\ Settle(r.id, delta, failed)
             /\ \A a \in Assets : delta[a] = ExecutionOf(r.id).delta[a]
                    + Effect(r, map[r.id].trade, a)
    <3> HIDE DEF r
    <3> QED BY <1>i, <1>1, <1>r, <2>1, LastSettles
  <2>3. PICK failed \in SUBSET {map[r.id].executionId} :
          /\ Settle(r.id, delta, failed)
          /\ \A a \in Assets : delta[a] = ExecutionOf(r.id).delta[a]
                 + Effect(r, map[r.id].trade, a)
    BY <2>2
  <2>4. IInv'
    BY <1>i, <2>1, <2>3, SettlePreservesIInv
  <2> DEFINE less == executionIdMap'
  <2>5. Without(less, map, r.id) /\ nextId' = nextId
    <3>1. DOMAIN less = DOMAIN map \ {r.id}
      BY <2>1, <2>3, SettleTakesOne
    <3> QED BY <2>1, <2>3, <3>1, SettleTakesOne DEF Without
  <2>6. /\ InPlace(submitting, outboundQueue, toExchange, wire, p, lost, less, nextId)
        /\ r.id \notin DOMAIN wire
    <3> HIDE DEF less, map, r, p, q
    <3> QED BY <1>o, <1>3, <1>p, <2>5, SettledInPlace
  <2>7. Places'
    BY <1>1, <2>5, <2>6, FlowNext
  <2>8. ASSUME Accounted, NEW a \in Assets
        PROVE  \E share :
                /\ account'[a] = Booked(a)' + SumFunction(share)
                /\ Shares(share, a, less,
                          WaitingIn(submitting', outboundQueue', toExchange'),
                          wire', reportQueue')
    <3> DEFINE now  == WaitingIn(submitting, outboundQueue, toExchange)
               gain == Effect(r, map[r.id].trade, a)
    <3>1. PICK share : /\ account[a] = Booked(a) + SumFunction(share)
                       /\ Shares(share, a, map, now, wire, q)
      BY <2>8 DEF Accounted
    <3>w. DOMAIN wire \subseteq DOMAIN map /\ DOMAIN map \subseteq OrderIds
      BY <1>i, <1>p DEF InPlace, Chains, IInv, TypeOK
    <3>2. /\ Shares(WithShare(share, r.id, 0), a, less, now, wire, p)
          /\ SumFunction(WithShare(share, r.id, 0)) = SumFunction(share) - gain
          /\ gain \in Int /\ SumFunction(share) \in Int
      <4> HIDE DEF now, map, less, p, q, r
      <4> QED BY <1>3, <1>o, <2>5, <2>6, <3>1, <3>w, SharesSettled
    <3>3. /\ Booked(a)' = Booked(a) + delta[a] - ExecutionOf(r.id).delta[a]
          /\ delta[a] = ExecutionOf(r.id).delta[a] + gain
      BY <1>i, <2>1, <2>3, SettleMovesBooks
    <3>4. ExecutionOf(r.id).delta[a] \in Int /\ Booked(a) \in Int
      <4>1. ExecutionOf(r.id).delta \in [Assets -> Int]
        BY <1>i, <2>1 DEF IInv, TypeOK, LookupsSafe, ExecutionOf, Execution
      <4> QED BY <1>i, <4>1, BooksType
    <3>5. account[a] = Booked(a)' + SumFunction(WithShare(share, r.id, 0))
      <4> HIDE DEF gain, r
      <4> QED BY <3>1, <3>2, <3>3, <3>4
    <3> QED BY <1>1, <3>2, <3>5
  <2>9. FeesOnCompletion => Accounted'
    BY <2>8, FlowNext DEF Flow
  <2> QED BY <1>1, <1>i, <2>4, <2>7, <2>9 DEF Flow
<1> QED BY <1>2, <1>3

(* onMessage(ExecutionReport): a report leaves the wire.  It is pushed, or *)
(* lost with the process or to a full queue.                               *)
LEMMA onExecutionReportFlow ==
    ASSUME Flow, NEW id \in OrderIds, onExecutionReport(id)
    PROVE  Flow'
<1> DEFINE r   == NextReport(wire, id)
           v   == Taken(wire, id)
           q   == reportQueue
           map == executionIdMap
<1>1. /\ UNCHANGED workerVars /\ submitting' = submitting
      /\ outboundQueue' = outboundQueue /\ toExchange' = toExchange
      /\ account' = account /\ id \in DOMAIN wire /\ wire' = v
      /\ \/ reportQueue' = q /\ lost' = lost
         \/ r.status # "OTHER" /\ reportQueue' = Append(q, r) /\ lost' = lost
         \/ Len(wire[id]) = 1 /\ reportQueue' = q /\ lost' = lost \cup {id}
  BY DEF onExecutionReport, threadVars, TakeReport, Taken, NextReport
<1>2. executionIdMap' = map /\ nextId' = nextId
  BY <1>1 DEF workerVars, books
<1>i. IInv /\ account \in [Assets -> Int]
  BY DEF Flow
<1>3. IInv'
  BY <1>1, <1>i, StutterIInv
<1>p. InPlace(submitting, outboundQueue, toExchange, wire, q, lost, map, nextId)
  BY DEF Flow, Places
<1>c. Chains(wire, map)
  BY <1>p DEF InPlace
<1>4. id[1] < nextId
  <2>1. id \in DOMAIN executionIdMap
    BY <1>1, <1>c DEF Chains
  <2> QED BY <1>i, <2>1 DEF IInv, IdsStructured
<1> HIDE DEF r, v, q, map
<1>5. /\ InPlace(submitting, outboundQueue, toExchange, v, q, lost, map, nextId)
      /\ Len(wire[id]) = 1 =>
           InPlace(submitting, outboundQueue, toExchange, v, q, lost \cup {id},
                   map, nextId)
      /\ r.status # "OTHER" =>
           InPlace(submitting, outboundQueue, toExchange, v, Append(q, r), lost,
                   map, nextId)
  BY <1>1, <1>4, <1>p, TakenInPlace DEF r, v
<1>6. Places'
  BY <1>1, <1>2, <1>5, FlowNext
<1>7. ASSUME Accounted, NEW a \in Assets
      PROVE  \E share :
              /\ account'[a] = Booked(a)' + SumFunction(share)
              /\ Shares(share, a, executionIdMap',
                        WaitingIn(submitting', outboundQueue', toExchange'),
                        wire', reportQueue')
  <2> DEFINE now == WaitingIn(submitting, outboundQueue, toExchange)
  <2>1. PICK share : /\ account[a] = Booked(a) + SumFunction(share)
                     /\ Shares(share, a, map, now, wire, q)
    BY <1>7 DEF Accounted, map, q
  <2>2. \A o \in DOMAIN v : /\ o \in DOMAIN wire
                            /\ v[o][Len(v[o])] = wire[o][Len(wire[o])]
    <3>1. /\ Len(wire[id]) = 1 => DOMAIN v = DOMAIN wire \ {id}
          /\ Len(wire[id]) # 1 => DOMAIN v = DOMAIN wire
          /\ \A o \in DOMAIN v : v[o][Len(v[o])] = wire[o][Len(wire[o])]
      BY <1>1, <1>c, TakenFromChains DEF v
    <3> QED BY <3>1
  <2>3. /\ r \in Msg /\ r.id = id
        /\ Settles(r, map) => r = wire[id][Len(wire[id])]
    BY <1>1, <1>c, NextOfChains DEF r
  <2>4. Settles(r, map) => share[r.id] = Effect(r, map[r.id].trade, a)
    BY <1>1, <2>1, <2>3 DEF Shares
  <2> HIDE DEF now
  <2>5. Shares(share, a, map, now, v, q)
    BY <2>1, <2>2 DEF Shares
  <2>6. Shares(share, a, map, now, v, Append(q, r))
    <3>1. q \in Seq(Msg)
      BY <1>p DEF InPlace, ReportsSound
    <3>2. /\ Len(Append(q, r)) = Len(q) + 1 /\ Len(q) \in Nat
          /\ \A i \in 1..Len(q) + 1 :
                \/ i \in 1..Len(q) /\ Append(q, r)[i] = q[i]
                \/ Append(q, r)[i] = r
      BY <2>3, <3>1
    <3> DEFINE p == Append(q, r)
    <3> HIDE DEF p
    <3>3. \A i \in 1..Len(p) : p[i] = r \/ \E j \in 1..Len(q) : p[i] = q[j]
      BY <3>2 DEF p
    <3>4. \A i \in 1..Len(p) : Settles(p[i], map) =>
             share[p[i].id] = Effect(p[i], map[p[i].id].trade, a)
      BY <2>4, <2>5, <3>3 DEF Shares
    <3>5. Shares(share, a, map, now, v, p)
      BY <2>5, <3>4 DEF Shares
    <3> QED BY <3>5 DEF p
  <2>7. Shares(share, a, executionIdMap', now, wire', reportQueue')
    BY <1>1, <1>2, <2>5, <2>6
  <2> QED BY <1>1, <2>1, <2>7, SameBooks DEF now
<1>8. FeesOnCompletion => Accounted'
  BY <1>7, FlowNext DEF Flow
<1> QED BY <1>1, <1>i, <1>3, <1>6, <1>8 DEF Flow

(* A report the application does not know is a decision like the others:   *)
(* it moves no money.                                                      *)
LEMMA SurpriseDecides ==
    ASSUME OrderQueue(toExchange), ExchangeSurprises
    PROVE  /\ toExchange # << >>
           /\ \E verdict, reports, change :
                Decide(verdict, reports, change) /\ Decides(reports, change)
<1> DEFINE order == Head(toExchange)
           r     == Message(order.id, "OTHER", 0, 0, NoFees)
<1>1. toExchange # << >> /\ Decide("other", <<r>>, NoFees)
  BY DEF ExchangeSurprises
<1>2. order.id \in OrderIds
  BY <1>1, TailOfQueue DEF Order
<1>3. NoFees \in [Assets -> Int] /\ \A a \in Assets : NoFees[a] = 0
  BY DEF NoFees
<1> HIDE DEF order
<1>4. r \in Msg /\ r.id = order.id /\ r.status = "OTHER"
  BY <1>2, <1>3 DEF Message, Msg
<1> HIDE DEF r
<1>5. LastReport(r, order.trade) /\ \A a \in Assets : Effect(r, order.trade, a) = 0
  BY <1>4 DEF LastReport, Effect
<1>6. Chain(<<r>>, order.id, order.trade) /\ <<r>>[Len(<<r>>)] = r
  BY <1>4, <1>5 DEF Chain
<1>7. Decides(<<r>>, NoFees)
  BY <1>3, <1>5, <1>6 DEF Decides, order
<1> QED BY <1>1, <1>7

(* The exchange decides an order.                                          *)
LEMMA ExchangeFlow ==
    ASSUME Flow, Exchange
    PROVE  Flow'
<1> DEFINE id  == Head(toExchange).id
           q   == reportQueue
           map == executionIdMap
<1>i. IInv /\ account \in [Assets -> Int]
  BY DEF Flow
<1>p. InPlace(submitting, outboundQueue, toExchange, wire, q, lost, map, nextId)
  BY DEF Flow, Places
<1>q. OrderQueue(toExchange)
  BY <1>p DEF InPlace
<1>1. toExchange # << >>
  BY <1>q, ExchangeDecides, SurpriseDecides DEF Exchange
<1>2. PICK verdict, reports, change :
        Decide(verdict, reports, change) /\ Decides(reports, change)
  BY <1>q, ExchangeDecides, SurpriseDecides DEF Exchange
<1>u. /\ toExchange' = Tail(toExchange) /\ wire' = Emplace(wire, id, reports)
      /\ account' = Added(account, change) /\ UNCHANGED workerVars
      /\ submitting' = submitting /\ outboundQueue' = outboundQueue
      /\ reportQueue' = q /\ lost' = lost
  BY <1>2 DEF Decide, Exchange, queueVars, threadVars
<1>3. executionIdMap' = map /\ nextId' = nextId
  BY <1>u DEF workerVars, books
<1>d. /\ Chain(reports, id, Head(toExchange).trade)
      /\ change \in [Assets -> Int]
      /\ FeesOnCompletion => \A a \in Assets :
            change[a] = Effect(reports[Len(reports)], Head(toExchange).trade, a)
  BY <1>2 DEF Decides
<1>4. IInv' /\ account' \in [Assets -> Int]
  BY <1>i, <1>d, <1>u, StutterIInv, AdditionsAreMaps
<1>5. /\ InPlace(submitting, outboundQueue, Tail(toExchange),
                 Emplace(wire, id, reports), q, lost, map, nextId)
      /\ id \in Ids(toExchange) /\ id \in DOMAIN map
      /\ Head(toExchange).trade = map[id].trade
      /\ Ids(Tail(toExchange)) = Ids(toExchange) \ {id}
      /\ id \notin Ids(submitting) \cup Ids(outboundQueue) \cup DOMAIN wire
                                   \cup Answers(q, map)
  BY <1>1, <1>d, <1>p, DecidedInPlace
<1> HIDE DEF id, map, q
<1>6. Places'
  BY <1>u, <1>3, <1>5, FlowNext
<1>7. ASSUME Accounted, FeesOnCompletion, NEW a \in Assets
      PROVE  \E share :
              /\ account'[a] = Booked(a)' + SumFunction(share)
              /\ Shares(share, a, executionIdMap',
                        WaitingIn(submitting', outboundQueue', toExchange'),
                        wire', reportQueue')
  <2> DEFINE now == WaitingIn(submitting, outboundQueue, toExchange)
             n   == change[a]
  <2>1. PICK share : /\ account[a] = Booked(a) + SumFunction(share)
                     /\ Shares(share, a, map, now, wire, q)
    BY <1>7 DEF Accounted, map, q
  <2>2. n \in Int /\ n = Effect(reports[Len(reports)], map[id].trade, a)
    BY <1>7, <1>d, <1>5
  <2>3. Undecided(id, map, now, wire, q)
    <3>1. DOMAIN executionIdMap \subseteq OrderIds
      BY <1>i DEF IInv, TypeOK
    <3>2. DOMAIN wire \subseteq DOMAIN executionIdMap
      BY <1>p DEF InPlace, Chains, map
    <3> QED BY <1>5, <3>1, <3>2 DEF map, WaitingIn, Undecided
  <2>4. WaitingIn(submitting', outboundQueue', toExchange') = now \ {id}
    BY <1>u, <1>5 DEF WaitingIn
  <2> HIDE DEF now, n
  <2>5. /\ Shares(WithShare(share, id, n), a, map, now \ {id},
                  Emplace(wire, id, reports), q)
        /\ SumFunction(WithShare(share, id, n)) = SumFunction(share) + n
    BY <2>1, <2>2, <2>3, SharesDecided
  <2>6. account'[a] = account[a] + n
    BY <1>u DEF Added, n
  <2>7. Booked(a) \in Int /\ Booked(a)' = Booked(a) /\ SumFunction(share) \in Int
    <3>1. share \in [OrderIds -> Int]
      BY <2>1 DEF Shares
    <3> QED BY <1>i, <1>u, <3>1, BooksType, SameBooks, OrderIdsFinite, SumType
  <2>8. account'[a] = Booked(a)' + SumFunction(WithShare(share, id, n))
    BY <2>1, <2>2, <2>5, <2>6, <2>7
  <2> QED BY <1>u, <1>3, <2>4, <2>5, <2>8
<1>8. FeesOnCompletion => Accounted'
  BY <1>7, FlowNext DEF Flow
<1> QED BY <1>4, <1>6, <1>8 DEF Flow

(* The threads hold no order at start, and nobody has asked for a stop.    *)
LEMMA InitControl == Init => Control
BY DEF Init, Control, Leaving

(* Every step leaves the threads where Control says.                       *)
LEMMA NextControl ==
    ASSUME Flow, Control, [Next]_vars
    PROVE  Control'
<1>q. submitting \in Seq(Order)
  BY DEF Flow, Places, InPlace, OrderQueue
<1>1. CASE PopPrice
  <2>1. priceQueue' \in Seq(Symbols)
    BY <1>1 DEF PopPrice, Control
  <2>2. workerPc' = "submit" => submitting' # << >>
    BY <1>1 DEF PopPrice
  <2>3. workerPc' # "stopped" /\ mainPc' = mainPc /\ process' = process
    BY <1>1 DEF PopPrice, shutdownVars, mainVars
  <2>4. mainPc \notin Leaving
    BY <1>1 DEF PopPrice, Control
  <2> QED BY <2>1, <2>2, <2>3, <2>4 DEF Control
<1>2. CASE submitOrder
  <2>1. submitting # << >> /\ workerPc = "submit"
    BY <1>2 DEF submitOrder, Control
  <2>2. Len(submitting) # 1 => Tail(submitting) # << >>
    <3>1. Len(submitting) \in Nat /\ Len(submitting) # 0
          /\ Len(Tail(submitting)) = Len(submitting) - 1
      BY <1>q, <2>1
    <3>2. \A n \in Nat : n # 0 /\ n # 1 => n - 1 # 0
      OBVIOUS
    <3>3. Len(<< >>) = 0
      OBVIOUS
    <3> QED BY <3>1, <3>2, <3>3
  <2>3. /\ submitting' = Tail(submitting) /\ priceQueue' = priceQueue
        /\ workerPc' = IF Len(submitting) = 1 THEN "report" ELSE "submit"
        /\ mainPc' = mainPc /\ process' = process
    BY <1>2 DEF submitOrder, shutdownVars, mainVars
  <2> QED BY <2>1, <2>2, <2>3 DEF Control
<1>3. CASE NoPrice
  BY <1>3 DEF NoPrice, Control, shutdownVars, mainVars, queueVars
<1>4. CASE PopReport
  BY <1>4 DEF PopReport, Control, shutdownVars, mainVars
<1>5. CASE NoReport
  BY <1>5 DEF NoReport, Control, shutdownVars, mainVars, queueVars
<1>6. CASE LeaveLoop
  BY <1>6 DEF LeaveLoop, Control, shutdownVars, mainVars, queueVars
<1>7. CASE WorkerDone
  BY <1>7 DEF WorkerDone, Control, shutdownVars, mainVars, queueVars,
              workerVars, books
<1>8. CASE block \/ LoopEnds \/ Connect \/ LogonAccepted \/ LinkBreaks
  BY <1>8 DEF block, LoopEnds, Connect, LogonAccepted, LinkBreaks, Control,
              threadVars, shutdownVars, mainVars, queueVars, workerVars, books
<1>9. CASE SessionTimeout \/ LoggedOut
  <2>1. isShuttingDown => process' = process
    BY <1>9 DEF SessionTimeout, LoggedOut, onLogout
  <2> QED BY <1>9, <2>1 DEF SessionTimeout, LoggedOut, Control, threadVars,
                            shutdownVars, mainVars, queueVars, workerVars, books
<1>10. CASE SendOrder
  BY <1>10 DEF SendOrder, Control, threadVars, shutdownVars, mainVars,
               workerVars, books
<1>11. ASSUME NEW id \in OrderIds, onExecutionReport(id) PROVE Control'
  <2>1. DOMAIN executionsMap # {}
    <3>1. id \in DOMAIN wire
      BY <1>11 DEF onExecutionReport
    <3>2. Chains(wire, executionIdMap)
      BY DEF Flow, Places, InPlace
    <3>3. id \in DOMAIN executionIdMap
      BY <3>1, <3>2 DEF Chains
    <3> QED BY <3>3 DEF Flow, IInv, LookupsSafe
  <2>2. mainPc \notin Leaving
    BY <2>1 DEF Control
  <2> QED BY <1>11, <2>2 DEF onExecutionReport, Control, threadVars,
                             shutdownVars, mainVars, workerVars, books
<1>12. ASSUME NEW symbol \in Symbols, onMarketData(symbol) PROVE Control'
  BY <1>12 DEF onMarketData, Control, threadVars, shutdownVars, mainVars,
               workerVars, books
<1>13. CASE RequestStop
  BY <1>13 DEF RequestStop, Control, Leaving, queueVars, workerVars, books
<1>14. CASE JoinWorker
  BY <1>14 DEF JoinWorker, Running, Control, queueVars, workerVars, books
<1>15. CASE StopTooEarly \/ StopBegins \/ WaitEnds \/ OnStop \/ JoinInitiator
  <2>1. mainPc \in Leaving
    BY <1>15 DEF StopTooEarly, StopBegins, WaitEnds, OnStop, JoinInitiator, Leaving
  <2> QED BY <1>15, <2>1
          DEF StopTooEarly, StopBegins, WaitEnds, OnStop, JoinInitiator, Control,
              queueVars, workerVars, books
<1>16. CASE Exchange
  <2>1. UNCHANGED workerVars
    BY <1>16 DEF Exchange, ExchangeStep, ExchangeRejects, ExchangeExpires,
                 ExchangeFills, ExchangeSurprises, Decide
  <2> QED BY <1>16, <2>1 DEF Exchange, Control, threadVars, shutdownVars, mainVars,
                             queueVars, workerVars, books
<1>17. CASE UNCHANGED vars
  BY <1>17 DEF vars, Control, threadVars, shutdownVars, mainVars, queueVars,
               workerVars, books
<1> QED BY <1>1, <1>2, <1>3, <1>4, <1>5, <1>6, <1>7, <1>8, <1>9, <1>10, <1>11,
           <1>12, <1>13, <1>14, <1>15, <1>16, <1>17
        DEF Next, WorkerStep, StopStep, Ended

(* Every step preserves the flow.                                          *)
LEMMA NextFlow ==
    ASSUME Flow, Control, [Next]_vars
    PROVE  Flow'
<1>1. CASE PopPrice
  BY <1>1, PopPriceFlow DEF Control
<1>2. CASE submitOrder
  BY <1>2, submitOrderFlow DEF submitOrder, Control
<1>3. CASE PopReport
  BY <1>3, PopReportFlow
<1>4. CASE NoPrice \/ NoReport \/ LeaveLoop \/ WorkerDone
  BY <1>4, StutterFlow
     DEF NoPrice, NoReport, LeaveLoop, WorkerDone, flowVars, queueVars, exchangeVars
<1>5. CASE \/ block \/ LoopEnds
           \/ Connect \/ LogonAccepted \/ LinkBreaks \/ SessionTimeout \/ LoggedOut
  BY <1>5, StutterFlow
     DEF block, LoopEnds, Connect, LogonAccepted, LinkBreaks, SessionTimeout,
         LoggedOut, flowVars, queueVars, exchangeVars, threadVars
<1>6. CASE SendOrder
  BY <1>6, SendOrderFlow
<1>7. ASSUME NEW id \in OrderIds, onExecutionReport(id) PROVE Flow'
  BY <1>7, onExecutionReportFlow
<1>8. ASSUME NEW symbol \in Symbols, onMarketData(symbol) PROVE Flow'
  BY <1>8, StutterFlow DEF onMarketData, flowVars, exchangeVars, threadVars
<1>9. CASE RequestStop \/ StopStep
  BY <1>9, StutterFlow
     DEF RequestStop, StopStep, JoinWorker, StopTooEarly, StopBegins, WaitEnds,
         OnStop, JoinInitiator, flowVars, queueVars, exchangeVars
<1>10. CASE Exchange
  BY <1>10, ExchangeFlow
<1>11. CASE UNCHANGED vars
  BY <1>11, StutterFlow DEF vars, flowVars, queueVars, exchangeVars, threadVars
<1> QED BY <1>1, <1>2, <1>3, <1>4, <1>5, <1>6, <1>7, <1>8, <1>9, <1>10, <1>11
        DEF Next, WorkerStep, Ended

-----------------------------------------------------------------------------
(* The results.                                                            *)

(* The whole program keeps the inductive invariant: where the threads are, *)
(* where the orders are, and where the money is.                           *)
THEOREM HarjusInvariant == Spec => [](Flow /\ Control)
<1>1. Init => Flow /\ Control
  BY InitFlow, InitControl
<1>2. Flow /\ Control /\ [Next]_vars => (Flow /\ Control)'
  BY NextFlow, NextControl
<1> QED BY <1>1, <1>2, PTL DEF Spec

(* When main returns, every order the program ever handed out has been     *)
(* answered and booked, whatever was on its way when the stop was asked    *)
(* for (Worker.cpp:315, Main.cpp:213).                                     *)
THEOREM HarjusNothingOpenAtExit == Spec => []NothingOpenAtExit
<1>1. Flow /\ Control => NothingOpenAtExit
  <2> SUFFICES ASSUME Flow, Control, mainPc = "exited"
               PROVE  /\ DOMAIN executionsMap = {} /\ reserved = {}
                      /\ outboundQueue = << >> /\ toExchange = << >>
                      /\ DOMAIN wire = {}
    BY DEF NothingOpenAtExit
  <2>1. DOMAIN executionsMap = {}
    BY DEF Control, Leaving
  <2>2. IInv
    BY DEF Flow
  <2>3. reserved = {} /\ DOMAIN executionIdMap = {}
    BY <2>1, <2>2 DEF IInv, ReservationsExact, LookupsSafe
  <2>4. /\ OrderQueue(outboundQueue) /\ Tracks(outboundQueue, executionIdMap)
        /\ OrderQueue(toExchange) /\ Tracks(toExchange, executionIdMap)
        /\ Chains(wire, executionIdMap)
    BY DEF Flow, Places, InPlace
  <2>5. DOMAIN wire = {}
    BY <2>3, <2>4 DEF Chains
  <2>6. ASSUME NEW q, OrderQueue(q), Tracks(q, executionIdMap) PROVE q = << >>
    BY <2>3, <2>6, TailOfQueue
  <2>7. outboundQueue = << >> /\ toExchange = << >>
    BY <2>4, <2>6
  <2> QED BY <2>1, <2>3, <2>5, <2>7
<1> QED BY <1>1, HarjusInvariant, PTL

(* An order or an answer that was lost, in a full queue or on a session    *)
(* that is not logged on, keeps its execution live and its market reserved *)
(* for ever.                                                               *)
THEOREM HarjusLossPinsExecution == Spec => []LossPinsExecution
<1>1. Flow => LossPinsExecution
  <2> SUFFICES ASSUME Flow, NEW id \in lost
               PROVE  /\ id \in DOMAIN executionIdMap
                      /\ executionIdMap[id].trade.symbol \in reserved
    BY DEF LossPinsExecution
  <2>1. id \in DOMAIN executionIdMap
    BY DEF Flow, Places, InPlace
  <2>2. OneOpenOrderPerSymbol
    BY OpenOrdersApart DEF Flow
  <2> QED BY <2>1, <2>2 DEF OneOpenOrderPerSymbol
<1> QED BY <1>1, HarjusInvariant, PTL

(* Once main has seen the worker's end no logout ends the process, neither *)
(* one that stop() asked for nor a broken link: isShuttingDown was set     *)
(* before (Main.cpp:213-219), and no unknown report can come, because no   *)
(* order is open.                                                          *)
THEOREM HarjusOrderlyExit == Spec => []OrderlyExit
<1>1. Control => OrderlyExit
  BY DEF Control, Leaving, OrderlyExit
<1> QED BY <1>1, HarjusInvariant, PTL

(* When no execution is live, the tracked balance is the true account,     *)
(* whatever was lost on the way.                                           *)
THEOREM HarjusBalanceTracksAccount ==
    ASSUME FeesOnCompletion
    PROVE  Spec => []BalanceTracksAccount
<1>1. Flow => BalanceTracksAccount
  <2> SUFFICES ASSUME Flow, DOMAIN executionsMap = {} PROVE balance = account
    BY DEF BalanceTracksAccount
  <2>1. IInv /\ Accounted /\ account \in [Assets -> Int]
    BY DEF Flow
  <2>2. DOMAIN executionIdMap = {}
    BY <2>1 DEF IInv, LookupsSafe
  <2>3. ASSUME NEW a \in Assets PROVE account[a] = balance[a]
    <3>1. PICK share : /\ account[a] = Booked(a) + SumFunction(share)
                       /\ Shares(share, a, executionIdMap,
                                 WaitingIn(submitting, outboundQueue, toExchange),
                                 wire, reportQueue)
      BY <2>1 DEF Accounted
    <3>2. share \in [OrderIds -> Int] /\ \A id \in OrderIds : share[id] = 0
      BY <2>2, <3>1 DEF Shares
    <3>3. SumFunction(share) = 0
      BY <3>2, OrderIdsFinite, SumOfZeros
    <3>4. SumFunction(Deltas(a)) = 0 /\ balance[a] \in Int
      BY <2>1, BooksType, SumOfZeros
    <3> QED BY <3>1, <3>3, <3>4 DEF Booked
  <2> QED BY <2>1, <2>3 DEF IInv, TypeOK
<1> QED BY <1>1, HarjusInvariant, PTL
=============================================================================
