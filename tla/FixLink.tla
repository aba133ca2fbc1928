------------------------------ MODULE FixLink -------------------------------
(***************************************************************************)
(* The session of module Session connected to a counterparty that follows  *)
(* the FIX protocol, over a stream that keeps the order of the messages    *)
(* but may garble some of them, so that either side has to ask for         *)
(* messages again.                                                         *)
(***************************************************************************)
EXTENDS Session

CONSTANTS
    PeerKinds,       \* what the counterparty sends of its own accord
    MaxPeer,         \* bound on the messages of the counterparty
    MaxGarbled,      \* bound on the garbled messages
    MaxOrders,       \* bound on the orders
    MaxConnections   \* bound on the connections

ASSUME PeerAssumption ==
    PeerKinds \subseteq {"App", "Bad", "TestRequest", "Logout"}

VARIABLES
    inbox,           \* from the counterparty to the session
    peer,            \* the counterparty
    garbled, orders, connections   \* counted up to the bounds

linkVars == <<inbox, peer, garbled, orders, connections>>
vars == <<s, linkVars>>

NewPeer == [on |-> FALSE,        \* the Logon has been accepted
            log |-> << >>,       \* the kinds of the messages sent
            expected |-> 1,      \* the next number from the session
            accepted |-> << >>]  \* the orders received

LinkInit ==
    /\ Init
    /\ inbox = << >> /\ peer = NewPeer
    /\ garbled = 0 /\ orders = 0 /\ connections = 1

-----------------------------------------------------------------------------
(* The counterparty.                                                       *)

(* A message of its own, unless its bound is reached: then it is silent.   *)
Say(kind, arg) ==
    IF Len(peer.log) < MaxPeer
    THEN [log |-> Append(peer.log, kind),
          msgs |-> <<Msg(kind, Len(peer.log) + 1, FALSE, arg)>>]
    ELSE [log |-> peer.log, msgs |-> << >>]

PeerRepeats(b) ==
    Repeated(peer.log, {n \in 1 .. Len(peer.log) : peer.log[n] \in {"App", "Bad"}},
             b, Len(peer.log))

PeerTakes(m) ==
    /\ s.out # << >> /\ m = Head(s.out)
    /\ s' = [s EXCEPT !.out = Tail(@)]
    /\ UNCHANGED <<garbled, orders, connections>>

PeerLogon ==
    \E m \in ToSet(s.out) :
        /\ PeerTakes(m) /\ ~peer.on
        /\ IF m.kind = "Logon" /\ m.seq = 1 /\ m.arg = 1 /\ peer.log = << >>
           THEN /\ peer' = [peer EXCEPT !.on = TRUE, !.expected = 2,
                                        !.log = Say("Logon", 1).log]
                /\ inbox' = inbox \o Say("Logon", 1).msgs
           ELSE UNCHANGED <<inbox, peer>>

(* A resend request is answered whatever its number.                       *)
PeerResends ==
    \E m \in ToSet(s.out) :
        /\ PeerTakes(m) /\ peer.on /\ m.kind = "ResendRequest"
        /\ inbox' = inbox \o PeerRepeats(m.arg)
        /\ peer' = IF m.seq = peer.expected
                   THEN [peer EXCEPT !.expected = @ + 1] ELSE peer

PeerTooHigh ==
    \E m \in ToSet(s.out) :
        /\ PeerTakes(m) /\ peer.on /\ m.kind # "ResendRequest"
        /\ m.seq > peer.expected
        /\ peer' = [peer EXCEPT !.log = Say("ResendRequest", peer.expected).log]
        /\ inbox' = inbox \o Say("ResendRequest", peer.expected).msgs

(* A number used before, and no possible duplicate, ends the session.      *)
PeerTooLow ==
    \E m \in ToSet(s.out) :
        /\ PeerTakes(m) /\ peer.on /\ m.kind # "ResendRequest"
        /\ m.seq < peer.expected
        /\ IF m.poss THEN UNCHANGED <<inbox, peer>>
           ELSE /\ inbox' = inbox \o Say("Logout", 0).msgs
                /\ peer' = [peer EXCEPT !.on = FALSE, !.log = Say("Logout", 0).log]

PeerInTurn ==
    \E m \in ToSet(s.out) :
        /\ PeerTakes(m) /\ peer.on /\ m.kind # "ResendRequest"
        /\ m.seq = peer.expected
        /\ LET said == CASE m.kind = "TestRequest" -> Say("Heartbeat", 0)
                         [] m.kind = "Logout" -> Say("Logout", 0)
                         [] OTHER -> [log |-> peer.log, msgs |-> << >>]
           IN  /\ inbox' = inbox \o said.msgs
               /\ peer' = [peer EXCEPT
                     !.log = said.log, !.on = m.kind # "Logout",
                     !.expected = IF m.kind = "GapFill" THEN m.arg ELSE @ + 1,
                     !.accepted = IF m.kind = "App" THEN Append(@, m.seq) ELSE @]

PeerSends ==
    \E kind \in PeerKinds :
        /\ peer.on /\ Len(peer.log) < MaxPeer
        /\ inbox' = inbox \o Say(kind, 0).msgs
        /\ peer' = [peer EXCEPT !.log = Say(kind, 0).log, !.on = kind # "Logout"]
        /\ UNCHANGED <<s, garbled, orders, connections>>

PeerTakesNext ==
    PeerLogon \/ PeerResends \/ PeerTooHigh \/ PeerTooLow \/ PeerInTurn

-----------------------------------------------------------------------------
(* The stream and the session.                                             *)

LinkReceive ==
    /\ inbox # << >> /\ Receive(Head(inbox)) /\ inbox' = Tail(inbox)
    /\ UNCHANGED <<peer, garbled, orders, connections>>

GarbledIn ==
    /\ garbled < MaxGarbled /\ garbled' = garbled + 1
    /\ inbox # << >> /\ ReceiveGarbled(Head(inbox).kind = "Logon") /\ inbox' = Tail(inbox)
    /\ UNCHANGED <<peer, orders, connections>>

BadLengthIn ==
    /\ garbled < MaxGarbled /\ garbled' = garbled + 1
    /\ ReceiveBadLength
    /\ \E n \in 1 .. Len(inbox) : inbox' = SubSeq(inbox, n + 1, Len(inbox))
    /\ UNCHANGED <<peer, orders, connections>>

(* The TLS connection breaks: what is left of the stream is never read.    *)
StreamFails ==
    /\ ReadFails /\ inbox' = << >>
    /\ UNCHANGED <<peer, garbled, orders, connections>>

GarbledOut ==
    /\ garbled < MaxGarbled /\ garbled' = garbled + 1
    /\ s.out # << >> /\ s' = [s EXCEPT !.out = Tail(@)]
    /\ UNCHANGED <<inbox, peer, orders, connections>>

LinkOrder ==
    /\ orders < MaxOrders /\ orders' = orders + 1
    /\ SendOrder
    /\ UNCHANGED <<inbox, peer, garbled, connections>>

LinkReconnect ==
    /\ connections < MaxConnections /\ connections' = connections + 1
    /\ Reconnect
    /\ inbox' = << >> /\ peer' = NewPeer
    /\ UNCHANGED <<garbled, orders>>

SocketThread == nextQueued \/ Drained \/ StreamEnds \/ ReadTimeout

(* What the session writes reaches the counterparty at once.  A delay on   *)
(* that way is a delay of the answer, which may lie in inbox for any time, *)
(* and what the counterparty sends meanwhile it may as well send before.   *)
LinkNext ==
    \/ PeerTakesNext \/ GarbledOut
    \/ /\ s.out = << >>
       /\ \/ PeerSends \/ LinkReceive \/ GarbledIn \/ BadLengthIn
          \/ StreamFails \/ LinkOrder \/ LinkReconnect
          \/ (SocketThread \/ ShutDown \/ Logout \/ Tick) /\ UNCHANGED linkVars

LinkSpec == LinkInit /\ [][LinkNext]_vars

(* The scheduler runs every micro-thread that is ready, read() returns     *)
(* after a second at the latest, and the clock goes on.  The counterparty  *)
(* reads what it is sent; it need not send anything, nor is anybody bound  *)
(* to submit an order or to shut down.                                     *)
FairLinkSpec ==
    /\ LinkSpec
    /\ WF_vars(PeerTakesNext)
    /\ WF_vars(s.out = << >> /\ LinkReceive)
    /\ WF_vars(s.out = << >> /\ SocketThread /\ UNCHANGED linkVars)
    /\ WF_vars(s.out = << >> /\ Tick /\ UNCHANGED linkVars)

-----------------------------------------------------------------------------
(* Properties.                                                             *)

(* The session's members have their types, and a session is logged on only *)
(* while it has a connection.                                              *)
TypeOK ==
    /\ s.sender \in Nat \ {0} /\ s.target \in Nat \ {0}
    /\ s.queue \subseteq Message
    /\ s.apps \subseteq 1 .. s.sender - 1
    /\ s.range \in Nat \X Nat /\ s.range[1] <= s.range[2] + 1
    /\ s.reading \in {"wait", "stream", "ended"}
    /\ s.received \in 0 .. 3 * HeartBtInt /\ s.sent \in 0 .. HeartBtInt
    /\ s.testRequest \in Nat
    /\ ToSet(s.out) \cup ToSet(inbox) \subseteq Message
    /\ isLoggedOn(s) => s.responder

(* The numbers of the application messages among the counterparty's first  *)
(* n messages.                                                             *)
AppNumbers(n) ==
    FlattenSeq([i \in 1 .. n |-> IF peer.log[i] = "App" THEN <<i>> ELSE << >>])

(* On an open connection the application has been given exactly the        *)
(* application messages below the expected number, in the order they were  *)
(* sent: verify, doTargetTooHigh, doTargetTooLow, nextQueued and gap fills *)
(* together lose none and repeat none, whatever is garbled or asked for    *)
(* again, and the session never expects a number beyond the next.          *)
DeliveredExactly ==
    s.responder /\ ~s.aborted =>
        /\ s.target <= Len(peer.log) + 1
        /\ s.delivered = AppNumbers(s.target - 1)

(* No order is written to the socket twice under its number: a resend      *)
(* request is answered by generateRetransmits with gap fills only, because *)
(* toApp refuses possible duplicates.                                      *)
OrdersAtMostOnce ==
    \A i, j \in DOMAIN s.transmitted :
        i # j => s.transmitted[i].seq # s.transmitted[j].seq

(* A queued message whose turn has come is never left behind: every        *)
(* handler that advances the expected number is followed by nextQueued     *)
(* before the socket is read again.                                        *)
NothingInTurnWaits == ~s.draining /\ ~s.aborted => Queued(s) = {}

(* The session implements in-order delivery, each message once and none    *)
(* left out, as module Delivery states it.                                 *)
D == INSTANCE Delivery WITH open <- s.responder,
                            posted <- AppNumbers(Len(peer.log)),
                            got <- s.delivered
ImplementsDelivery == D!Spec

(* A message with a number that is still to come waits in the queue.       *)
Gap == \E q \in s.queue : q.seq >= s.target

(* A gap never lasts: what is missing comes, or, since messages beyond the *)
(* gap do not count as received, the session times out.                    *)
GapEnds == Gap ~> ~Gap \/ ~s.responder

(* Once stop() has disabled the session it does not stay logged on,        *)
(* whether or not the counterparty answers the Logout.                     *)
LogoutEnds == ~s.enabled ~> ~isLoggedOn(s)
=============================================================================
