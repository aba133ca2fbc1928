------------------------------- MODULE Harjus -------------------------------
(***************************************************************************)
(* The whole program around the trading engine: the main thread with its   *)
(* shutdown sequence (Main.cpp), the worker thread's loop (Worker::run),   *)
(* the FIX application callbacks (HarjusApplication.cpp) on the initiator  *)
(* thread, the three bounded single-producer queues between the threads,   *)
(* the order entry session, and the exchange (external).                   *)
(*                                                                         *)
(* Every push to a queue ignores the result, so a full queue loses the     *)
(* element; an order that reaches the session while it is not logged on is *)
(* never transmitted.  Both losses are kept in the history variable lost.  *)
(***************************************************************************)
EXTENDS Trading

CONSTANTS
    PriceQueueSize,     \* QUEUE_SIZE of priceUpdateQueue
    ReportQueueSize,    \* QUEUE_SIZE of reportQueue
    OutboundQueueSize   \* capacity of the initiator's m_outboundQueue

ASSUME QueuesAssumption ==
    /\ PriceQueueSize \in Nat /\ ReportQueueSize \in Nat
    /\ OutboundQueueSize \in Nat

VARIABLES
    priceQueue,      \* priceUpdateQueue: symbols
    reportQueue,     \* executionReportQueue: reports
    outboundQueue,   \* m_outboundQueue: [id, trade]
    session,         \* the order entry session
    workerPc,        \* where Worker::run is
    submitting,      \* the worker's orders still to be submitted
    mainPc,          \* where main is, and stop() within it
    stopRequested,   \* the worker's stop token
    isShuttingDown,  \* the global of Globals.cpp
    initiator,       \* where the initiator's thread is
    m_stop,          \* the initiator's flag: block() clears it, stop() sets it
    enabled,         \* m_state.enabled of the order entry session
    process,         \* "running", or "terminated" by an uncaught exception
    lost             \* history: orders never sent, or never reported on

mainVars      == <<mainPc, stopRequested, isShuttingDown>>
initiatorVars == <<initiator, m_stop, enabled>>
shutdownVars  == <<mainVars, initiatorVars>>
threadVars    == <<workerPc, submitting, shutdownVars>>
queueVars  == <<priceQueue, reportQueue, outboundQueue>>
vars == <<workerVars, queueVars, session, threadVars, process,
          exchangeVars, lost>>

Init ==
    /\ TradingInit
    /\ priceQueue = << >> /\ reportQueue = << >> /\ outboundQueue = << >>
    /\ session = "disconnected"
    /\ workerPc = "price" /\ submitting = << >>
    /\ mainPc = "running"
    /\ stopRequested = FALSE
    /\ isShuttingDown = FALSE
    /\ initiator = "block" /\ m_stop = TRUE /\ enabled = TRUE
    /\ process = "running"
    /\ lost = {}

Running == process = "running" /\ mainPc # "exited"

-----------------------------------------------------------------------------
(* The worker thread: Worker::run.                                         *)

PopPrice ==
    /\ Running /\ workerPc = "price" /\ ~stopRequested
    /\ priceQueue # << >>
    /\ processPriceUpdate(Head(priceQueue))
    /\ priceQueue' = Tail(priceQueue)
    /\ submitting' = LaunchedOrders
    /\ workerPc' = IF LaunchedOrders = << >> THEN "report" ELSE "submit"
    /\ UNCHANGED <<reportQueue, outboundQueue, session, shutdownVars, process,
                   exchangeVars, lost>>

(* Application::submitOrder, once per order of a launched execution, while *)
(* the initiator thread empties the queue at the other end; an order that  *)
(* finds the queue full is dropped.                                        *)
submitOrder ==
    /\ Running /\ workerPc = "submit"
    /\ submitting' = Tail(submitting)
    /\ workerPc' = IF Len(submitting) = 1 THEN "report" ELSE "submit"
    /\ IF Len(outboundQueue) < OutboundQueueSize
       THEN /\ outboundQueue' = Append(outboundQueue, Head(submitting))
            /\ UNCHANGED lost
       ELSE /\ lost' = lost \cup {Head(submitting).id}
            /\ UNCHANGED outboundQueue
    /\ UNCHANGED <<workerVars, priceQueue, reportQueue, session, shutdownVars,
                   process, exchangeVars>>

NoPrice ==
    /\ Running /\ workerPc = "price" /\ ~stopRequested
    /\ priceQueue = << >>
    /\ workerPc' = "report"
    /\ UNCHANGED <<workerVars, queueVars, session, submitting, shutdownVars,
                   process, exchangeVars, lost>>

(* Mutant: no reports are read while draining.                             *)
PopReportInLoopOnly ==
    /\ Running
    /\ workerPc = "report" /\ workerPc' = "price"
    /\ reportQueue # << >>
    /\ processReport(Head(reportQueue))
    /\ reportQueue' = Tail(reportQueue)
    /\ UNCHANGED <<priceQueue, outboundQueue, session, submitting,
                   shutdownVars, process, exchangeVars, lost>>

(* One report is popped, in the loop or while draining.                    *)
PopReport ==
    /\ Running
    /\ \/ workerPc = "report" /\ workerPc' = "price"
       \/ workerPc = "drain" /\ DOMAIN executionsMap # {} /\ workerPc' = "drain"
    /\ reportQueue # << >>
    /\ processReport(Head(reportQueue))
    /\ reportQueue' = Tail(reportQueue)
    /\ UNCHANGED <<priceQueue, outboundQueue, session, submitting,
                   shutdownVars, process, exchangeVars, lost>>

NoReport ==
    /\ Running /\ workerPc = "report"
    /\ reportQueue = << >>
    /\ workerPc' = "price"
    /\ UNCHANGED <<workerVars, queueVars, session, submitting, shutdownVars,
                   process, exchangeVars, lost>>

(* The loop ends; the executions still in the map are finished; the thread *)
(* ends when there is none.                                                *)
LeaveLoop ==
    /\ Running /\ workerPc = "price" /\ stopRequested
    /\ workerPc' = "drain"
    /\ UNCHANGED <<workerVars, queueVars, session, submitting, shutdownVars,
                   process, exchangeVars, lost>>

(* Mutant: draining ends with the queue instead of with the executions.    *)
WorkerDoneEarly ==
    /\ Running /\ workerPc = "drain"
    /\ reportQueue = << >>
    /\ workerPc' = "stopped"
    /\ UNCHANGED <<workerVars, queueVars, session, submitting, shutdownVars,
                   process, exchangeVars, lost>>

WorkerDone ==
    /\ Running /\ workerPc = "drain"
    /\ DOMAIN executionsMap = {}
    /\ workerPc' = "stopped"
    /\ UNCHANGED <<workerVars, queueVars, session, submitting, shutdownVars,
                   process, exchangeVars, lost>>

WorkerStep == \/ PopPrice \/ submitOrder \/ NoPrice
              \/ PopReport \/ NoReport
              \/ LeaveLoop \/ WorkerDone

-----------------------------------------------------------------------------
(* The initiator thread: order entry session and application callbacks.    *)
(* All of it happens in the loop of onStart, which block() starts.         *)

Loop == Running /\ initiator = "loop"

block ==
    /\ Running /\ initiator = "block"
    /\ m_stop' = FALSE /\ initiator' = "loop"
    /\ UNCHANGED <<workerVars, queueVars, session, workerPc, submitting,
                   mainVars, enabled, process, exchangeVars, lost>>

(* The loop and the connections it leaves are closed.                      *)
LoopEnds ==
    /\ Loop /\ m_stop
    /\ initiator' = "ended"
    /\ UNCHANGED <<workerVars, queueVars, session, workerPc, submitting,
                   mainVars, m_stop, enabled, process, exchangeVars, lost>>

(* Application::onLogout: losing a session outside shutdown is an          *)
(* exception that nothing catches.                                         *)
onLogout ==
    IF isShuttingDown THEN UNCHANGED process ELSE process' = "terminated"

(* A connection is made for an enabled session and Session::next sends a   *)
(* Logon.                                                                  *)
Connect ==
    /\ Loop /\ enabled /\ session = "disconnected"
    /\ session' = "logonSent"
    /\ UNCHANGED <<workerVars, queueVars, threadVars, process, exchangeVars,
                   lost>>

LogonAccepted ==
    /\ Loop /\ enabled /\ session = "logonSent"
    /\ session' = "loggedOn"
    /\ UNCHANGED <<workerVars, queueVars, threadVars, process, exchangeVars,
                   lost>>

(* The link breaks.  read() takes an end of file for a timeout, so the     *)
(* session learns of it only from the logon or heartbeat timeout.          *)
LinkBreaks ==
    /\ Loop /\ session \in {"logonSent", "loggedOn"}
    /\ session' = "dead"
    /\ UNCHANGED <<workerVars, queueVars, threadVars, process, exchangeVars,
                   lost>>

SessionTimeout ==
    /\ Loop /\ session = "dead"
    /\ session' = "disconnected"
    /\ onLogout
    /\ UNCHANGED <<workerVars, queueVars, threadVars, exchangeVars, lost>>

(* A session that stop() disabled: its Logout is answered or times out, or *)
(* the answer to its Logon is refused.                                     *)
LoggedOut ==
    /\ Loop /\ ~enabled /\ session \in {"logonSent", "loggedOn"}
    /\ session' = "disconnected"
    /\ onLogout
    /\ UNCHANGED <<workerVars, queueVars, threadVars, exchangeVars, lost>>

(* processOutboundQueue and Session::sendRaw.  Only a logged on session    *)
(* transmits.  Before the Logon the message is refused (sequence numbers   *)
(* 1/1 and ResetOnDisconnect); after it the message is stored, and when    *)
(* asked for again it is withheld by toApp (PossDupFlag).                  *)
SendOrder ==
    /\ Loop /\ outboundQueue # << >>
    /\ outboundQueue' = Tail(outboundQueue)
    /\ IF session = "loggedOn"
       THEN /\ toExchange' = Append(toExchange, Head(outboundQueue))
            /\ UNCHANGED lost
       ELSE /\ lost' = lost \cup {Head(outboundQueue).id}
            /\ UNCHANGED toExchange
    /\ UNCHANGED <<workerVars, priceQueue, reportQueue, session, threadVars,
                   process, wire, account, outcome>>

(* onMessage(ExecutionReport): parse and push.  A report the parser does   *)
(* not know ("OTHER") is an exception that nothing catches.                *)
onExecutionReport(id) ==
    /\ Loop /\ session = "loggedOn"
    /\ id \in DOMAIN wire
    /\ LET r == Head(wire[id])
       IN  /\ TakeReport(id)
           /\ IF r.status = "OTHER"
              THEN process' = "terminated" /\ UNCHANGED <<reportQueue, lost>>
              ELSE /\ UNCHANGED process
                   /\ IF Len(reportQueue) < ReportQueueSize
                      THEN reportQueue' = Append(reportQueue, r) /\ UNCHANGED lost
                      ELSE /\ lost' = IF Len(wire[id]) = 1 THEN lost \cup {id}
                                      ELSE lost
                           /\ UNCHANGED reportQueue
    /\ UNCHANGED <<workerVars, priceQueue, outboundQueue, session, threadVars,
                   toExchange, account, outcome>>

(* onMessage(MarketData...): one price update is parsed and pushed.        *)
onMarketData(symbol) ==
    /\ Loop
    /\ Len(priceQueue) < PriceQueueSize
    /\ priceQueue' = Append(priceQueue, symbol)
    /\ UNCHANGED <<workerVars, reportQueue, outboundQueue, session,
                   threadVars, process, exchangeVars, lost>>

-----------------------------------------------------------------------------
(* The main thread.                                                        *)

(* SIGINT or SIGTERM ends the wait loop; the worker is asked to stop.      *)
RequestStop ==
    /\ Running /\ mainPc = "running"
    /\ mainPc' = "joining"
    /\ stopRequested' = TRUE
    /\ UNCHANGED <<workerVars, queueVars, session, workerPc, submitting,
                   isShuttingDown, initiatorVars, process, exchangeVars, lost>>

(* Mutant: the shutdown is not announced before the sessions are closed.   *)
JoinWorkerSilently ==
    /\ Running /\ mainPc = "joining" /\ workerPc = "stopped"
    /\ mainPc' = "stopping"
    /\ UNCHANGED <<workerVars, queueVars, session, workerPc, submitting,
                   stopRequested, isShuttingDown, initiatorVars, process,
                   exchangeVars, lost>>

JoinWorker ==
    /\ Running /\ mainPc = "joining" /\ workerPc = "stopped"
    /\ mainPc' = "stopping"
    /\ isShuttingDown' = TRUE
    /\ UNCHANGED <<workerVars, queueVars, session, workerPc, submitting,
                   stopRequested, initiatorVars, process, exchangeVars, lost>>

(* initiator.stop() returns at once when block() has not cleared m_stop    *)
(* yet, although the loop is about to start.                               *)
StopTooEarly ==
    /\ Running /\ mainPc = "stopping" /\ m_stop
    /\ mainPc' = "leaving"
    /\ UNCHANGED <<workerVars, queueVars, session, workerPc, submitting,
                   stopRequested, isShuttingDown, initiatorVars, process,
                   exchangeVars, lost>>

(* A connected session is logged out, which disables it.                   *)
StopBegins ==
    /\ Running /\ mainPc = "stopping" /\ ~m_stop
    /\ enabled' = (session = "disconnected")
    /\ mainPc' = "waiting"
    /\ UNCHANGED <<workerVars, queueVars, session, workerPc, submitting,
                   stopRequested, isShuttingDown, initiator, m_stop, process,
                   exchangeVars, lost>>

(* The wait for the logouts ends when nothing is logged on or after ten    *)
(* seconds, that is, whatever the session does.                            *)
WaitEnds ==
    /\ Running /\ mainPc = "waiting"
    /\ m_stop' = TRUE
    /\ mainPc' = "onStop"
    /\ UNCHANGED <<workerVars, queueVars, session, workerPc, submitting,
                   stopRequested, isShuttingDown, initiator, enabled, process,
                   exchangeVars, lost>>

(* onStop waits for the end of the loop; then the session is enabled again. *)
OnStop ==
    /\ Running /\ mainPc = "onStop" /\ initiator = "ended"
    /\ enabled' = TRUE
    /\ mainPc' = "leaving"
    /\ UNCHANGED <<workerVars, queueVars, session, workerPc, submitting,
                   stopRequested, isShuttingDown, initiator, m_stop, process,
                   exchangeVars, lost>>

(* main returns: the destructor of the jthread joins the initiator's thread. *)
JoinInitiator ==
    /\ Running /\ mainPc = "leaving" /\ initiator = "ended"
    /\ mainPc' = "exited"
    /\ UNCHANGED <<workerVars, queueVars, session, workerPc, submitting,
                   stopRequested, isShuttingDown, initiatorVars, process,
                   exchangeVars, lost>>

StopStep == \/ JoinWorker \/ StopTooEarly \/ StopBegins \/ WaitEnds
            \/ OnStop \/ JoinInitiator

-----------------------------------------------------------------------------
(* The exchange (external).  Beside what it answers in module Trading, it  *)
(* may send a report the application does not handle.                      *)

ExchangeSurprises ==
    /\ toExchange # << >>
    /\ Decide("other", <<Message(Head(toExchange).id, "OTHER", 0, 0, NoFees)>>,
              NoFees)

Exchange ==
    /\ ExchangeStep \/ ExchangeSurprises
    /\ UNCHANGED <<queueVars, session, threadVars, process, lost>>

-----------------------------------------------------------------------------
(* The process has ended.                                                  *)
Ended == ~Running /\ UNCHANGED vars

Next ==
    \/ WorkerStep
    \/ block \/ LoopEnds
    \/ Connect \/ LogonAccepted \/ LinkBreaks \/ SessionTimeout \/ LoggedOut
    \/ SendOrder
    \/ \E id \in OrderIds : onExecutionReport(id)
    \/ \E symbol \in Symbols : onMarketData(symbol)
    \/ RequestStop \/ StopStep
    \/ Exchange
    \/ Ended

(* The threads are scheduled, the initiator's loop connects, sends and     *)
(* reads, and the exchange answers what it received.  Nothing is assumed   *)
(* of signals, prices or broken links.                                     *)
Fairness ==
    /\ WF_vars(WorkerStep)
    /\ WF_vars(block) /\ WF_vars(LoopEnds) /\ WF_vars(StopStep)
    /\ WF_vars(Connect) /\ WF_vars(LogonAccepted) /\ WF_vars(SessionTimeout)
    /\ WF_vars(LoggedOut) /\ WF_vars(SendOrder)
    /\ \A id \in OrderIds : WF_vars(onExecutionReport(id))
    /\ WF_vars(Exchange)

Spec     == Init /\ [][Next]_vars
FairSpec == Spec /\ Fairness

-----------------------------------------------------------------------------
(* Properties.                                                             *)

(* The program leaves nothing open: when main returns, every order it ever *)
(* handed out has been answered and booked (Worker.cpp:315, Main.cpp:213). *)
NothingOpenAtExit ==
    mainPc = "exited" =>
        /\ DOMAIN executionsMap = {} /\ reserved = {}
        /\ outboundQueue = << >> /\ toExchange = << >> /\ DOMAIN wire = {}

(* An order or an answer that was lost is never taken for settled: its     *)
(* execution stays live and its symbols stay reserved.                     *)
LossPinsExecution ==
    \A id \in lost :
        /\ id \in DOMAIN executionIdMap
        /\ executionIdMap[id].trade.symbol \in reserved

(* From the worker's end on no logout ends the process: those of           *)
(* initiator.stop() (Main.cpp:219) and links that break while it waits are *)
(* never taken for abnormal ones.                                          *)
OrderlyExit ==
    mainPc \in {"stopping", "waiting", "onStop", "leaving", "exited"} =>
        process = "running"

(* A stop request is eventually honoured, unless an order or an answer was *)
(* lost (then the drain waits for ever) or an exception ended the process. *)
(* It holds from the moment the initiator's thread has cleared m_stop: an  *)
(* earlier stop() returns at once (Initiator.cpp:236), and main then waits *)
(* for ever for a loop that nobody ends.                                   *)
ShutdownCompletes ==
    (mainPc = "joining" /\ ~m_stop)
        ~> (mainPc = "exited" \/ process = "terminated" \/ lost # {})

(* HarjusApplication.h:64-66, of onCreate: "As soon as a session is        *)
(* created, you can begin sending messages to it. If no one is logged on,  *)
(* the messages will be sent at the time a connection is established".  A  *)
(* queued order is eventually decided by the exchange unless the process   *)
(* ends.                                                                   *)
QueuedOrdersAreSent ==
    \A id \in OrderIds :
        (\E i \in DOMAIN outboundQueue : outboundQueue[i].id = id)
            ~> (id \in DOMAIN outcome \/ process = "terminated")
=============================================================================
