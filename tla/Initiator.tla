----------------------------- MODULE Initiator ------------------------------
(***************************************************************************)
(* The FIX initiator: which sessions have a connection, and how it is      *)
(* started and stopped.  The initiator's thread runs block() and, inside   *)
(* onStart, one micro-thread per connection; the main thread calls stop()  *)
(* and waits for the initiator's thread to end.                            *)
(*                                                                         *)
(* Of a session only what the initiator asks for is kept: is it enabled,   *)
(* is it logged on.  Module Session has the rest.  The micro-threads of    *)
(* the initiator's thread take turns, and m_mutex makes what is done to    *)
(* the sets of sessions atomic for the main thread.                        *)
(***************************************************************************)
EXTENDS Naturals, FiniteSets

CONSTANTS
    Sessions,
    MaxConnections,  \* bound on the connections of a session
    MaxSeconds       \* how long stop() waits for the logouts

ASSUME SecondsAssumption ==
    MaxConnections \in Nat \ {0} /\ MaxSeconds \in Nat \ {0}

VARIABLES
    m_pending, m_connected, m_disconnected,
    m_stop, m_cleanupDone,
    m_threads,        \* the connections with an entry in m_threads
    conn,             \* connection -> the state of its micro-thread
    freed,            \* connection -> how often its SSL object was freed
    enabled, loggedOn,   \* the sessions
    thread,           \* the initiator's thread
    closing,          \* what it is closing, after the loop
    main,             \* the main thread
    stopped,          \* stop(): the sessions that were connected,
    logouts,          \* those among them still to be logged out,
    restored,         \* those it disabled
    second            \* and the seconds waited

sessionSets == <<m_pending, m_connected, m_disconnected>>
stopVars    == <<stopped, logouts, restored, second>>
vars == <<sessionSets, m_stop, m_cleanupDone, m_threads, conn, freed,
          enabled, loggedOn, thread, closing, main, stopVars>>

Connections == Sessions \X (1 .. MaxConnections)
Owner(c) == c[1]
Live == {c \in Connections : conn[c] \in {"connecting", "reading", "closed"}}

Init ==
    /\ m_pending = {} /\ m_connected = {} /\ m_disconnected = Sessions
    /\ m_stop = TRUE /\ m_cleanupDone = FALSE
    /\ m_threads = {}
    /\ conn = [c \in Connections |-> "none"]
    /\ freed = [c \in Connections |-> 0]
    /\ enabled = Sessions /\ loggedOn = {}
    /\ thread = "block" /\ closing = {}
    /\ main = "running"
    /\ stopped = {} /\ logouts = {} /\ restored = {} /\ second = 0

setPending(S) ==
    /\ m_pending' = m_pending \cup S
    /\ m_connected' = m_connected \ S
    /\ m_disconnected' = m_disconnected \ S

(* Mutant: a connected session stays pending.                              *)
setConnectedStaysPending(S) ==
    /\ m_connected' = m_connected \cup S
    /\ m_disconnected' = m_disconnected \ S
    /\ UNCHANGED m_pending

setConnected(S) ==
    /\ m_pending' = m_pending \ S
    /\ m_connected' = m_connected \cup S
    /\ m_disconnected' = m_disconnected \ S

setDisconnected(S) ==
    /\ m_pending' = m_pending \ S
    /\ m_connected' = m_connected \ S
    /\ m_disconnected' = m_disconnected \cup S

-----------------------------------------------------------------------------
(* The initiator's thread.                                                 *)

block ==
    /\ thread = "block"
    /\ m_stop' = FALSE /\ thread' = "onStart"
    /\ UNCHANGED <<sessionSets, m_cleanupDone, m_threads, conn, freed,
                   enabled, loggedOn, closing, main, stopVars>>

onStart ==
    /\ thread = "onStart"
    /\ m_cleanupDone' = FALSE /\ thread' = "loop"
    /\ UNCHANGED <<sessionSets, m_stop, m_threads, conn, freed,
                   enabled, loggedOn, closing, main, stopVars>>

(* A connection of the session that has not been made yet.                 *)
Unused(s) == {n \in 1 .. MaxConnections : conn[<<s, n>>] = "none"}
Fresh(s)  == <<s, CHOOSE n \in Unused(s) : TRUE>>

(* Mutant: a session is connected although it was logged out.              *)
ConnectableDisabled ==
    {s \in m_disconnected : Unused(s) # {}}

(* The sessions connect() calls doConnect for.                             *)
Connectable ==
    {s \in m_disconnected \cap enabled : Unused(s) # {}}

(* connect: doConnect may leave a session as it was (an exception, or no   *)
(* micro-thread), pending without a connection (no SSL object), or with a  *)
(* connection whose micro-thread has been started.                         *)
connect ==
    /\ thread = "loop" /\ ~m_stop
    /\ \E begun \in SUBSET Connectable : \E started \in SUBSET begun :
          LET made == {Fresh(s) : s \in started}
          IN  /\ setPending(begun)
              /\ conn' = [c \in Connections |->
                            IF c \in made THEN "connecting" ELSE conn[c]]
              /\ m_threads' = m_threads \cup made
    /\ UNCHANGED <<m_stop, m_cleanupDone, freed, enabled, loggedOn, thread,
                   closing, main, stopVars>>

Free(C) == freed' = [c \in Connections |-> IF c \in C THEN freed[c] + 1
                                                       ELSE freed[c]]

removeThread(c) == Free({c} \cap m_threads) /\ m_threads' = m_threads \ {c}

(* Mutant: the entries of the connections that are closed stay.            *)
loopEndsKeepsThreads ==
    /\ thread = "loop" /\ m_stop
    /\ closing' = m_threads
    /\ thread' = "closing"
    /\ UNCHANGED <<sessionSets, m_stop, m_cleanupDone, m_threads, conn, freed,
                   enabled, loggedOn, main, stopVars>>

loopEnds ==
    /\ thread = "loop" /\ m_stop
    /\ closing' = m_threads /\ m_threads' = {}
    /\ thread' = "closing"
    /\ UNCHANGED <<sessionSets, m_stop, m_cleanupDone, conn, freed,
                   enabled, loggedOn, main, stopVars>>

(* Closing a connection may let the other micro-threads run once more.     *)
cleanUp ==
    /\ thread = "closing"
    /\ Free(closing)
    /\ m_cleanupDone' = TRUE /\ thread' = "done"
    /\ UNCHANGED <<sessionSets, m_stop, m_threads, conn, enabled, loggedOn,
                   closing, main, stopVars>>

-----------------------------------------------------------------------------
(* socketThread, the micro-thread of a connection.                         *)

Scheduled == thread \in {"loop", "closing"}

connectFails(c) ==
    /\ Scheduled /\ conn[c] = "connecting"
    /\ conn' = [conn EXCEPT ![c] = "gone"]
    /\ removeThread(c)
    /\ setDisconnected({Owner(c)})
    /\ UNCHANGED <<m_stop, m_cleanupDone, enabled, loggedOn, thread, closing,
                   main, stopVars>>

connectSucceeds(c) ==
    /\ Scheduled /\ conn[c] = "connecting"
    /\ conn' = [conn EXCEPT ![c] = "reading"]
    /\ setConnected({Owner(c)})
    /\ UNCHANGED <<m_stop, m_cleanupDone, m_threads, freed, enabled, loggedOn,
                   thread, closing, main, stopVars>>

(* The Logon is answered; nextLogon refuses it for a disabled session.     *)
logsOn(c) ==
    /\ Scheduled /\ conn[c] = "reading"
    /\ Owner(c) \in enabled \ loggedOn
    /\ loggedOn' = loggedOn \cup {Owner(c)}
    /\ UNCHANGED <<sessionSets, m_stop, m_cleanupDone, m_threads, conn, freed,
                   enabled, thread, closing, main, stopVars>>

(* The session disconnects: after a Logout, or because the link is lost.   *)
(* Before the shutdown onLogout throws and the program ends, so that there *)
(* is nothing left to model.                                               *)
logsOut(c) ==
    /\ Scheduled /\ conn[c] = "reading"
    /\ main # "running" /\ Owner(c) \in loggedOn
    /\ loggedOn' = loggedOn \ {Owner(c)}
    /\ conn' = [conn EXCEPT ![c] = "closed"]
    /\ UNCHANGED <<sessionSets, m_stop, m_cleanupDone, m_threads, freed,
                   enabled, thread, closing, main, stopVars>>

(* read() returns false: the session has disconnected, or it is not logged *)
(* on and a message was garbled.                                           *)
readEnds(c) ==
    /\ Scheduled
    /\ conn[c] = "closed" \/ (conn[c] = "reading" /\ Owner(c) \notin loggedOn)
    /\ conn' = [conn EXCEPT ![c] = "gone"]
    /\ IF m_stop THEN UNCHANGED <<freed, m_threads>> ELSE removeThread(c)
    /\ setDisconnected({Owner(c)})
    /\ UNCHANGED <<m_stop, m_cleanupDone, enabled, loggedOn, thread, closing,
                   main, stopVars>>

-----------------------------------------------------------------------------
(* The main thread.                                                        *)

(* The worker has ended; isShuttingDown is set and stop() called.          *)
shutDown ==
    /\ main = "running"
    /\ main' = "stop"
    /\ UNCHANGED <<sessionSets, m_stop, m_cleanupDone, m_threads, conn, freed,
                   enabled, loggedOn, thread, closing, stopVars>>

(* Early return: block() has not begun, or there is nothing to stop.       *)
stopTooEarly ==
    /\ main = "stop" /\ m_stop
    /\ main' = "join"
    /\ UNCHANGED <<sessionSets, m_stop, m_cleanupDone, m_threads, conn, freed,
                   enabled, loggedOn, thread, closing, stopVars>>

stopBegins ==
    /\ main = "stop" /\ ~m_stop
    /\ stopped' = m_connected /\ logouts' = m_connected
    /\ main' = "logout"
    /\ UNCHANGED <<sessionSets, m_stop, m_cleanupDone, m_threads, conn, freed,
                   enabled, loggedOn, thread, closing, restored, second>>

logout(s) ==
    /\ main = "logout" /\ s \in logouts
    /\ logouts' = logouts \ {s}
    /\ enabled' = enabled \ {s}
    /\ restored' = restored \cup ({s} \cap enabled)
    /\ UNCHANGED <<sessionSets, m_stop, m_cleanupDone, m_threads, conn, freed,
                   loggedOn, thread, closing, main, stopped, second>>

isLoggedOn == m_connected \cap loggedOn # {}

(* Mutant: stop(force) does not wait.                                      *)
waitedForced == TRUE

waited == second = MaxSeconds \/ ~isLoggedOn

waitSecond ==
    /\ main = "logout" /\ logouts = {} /\ ~waited
    /\ second' = second + 1
    /\ UNCHANGED <<sessionSets, m_stop, m_cleanupDone, m_threads, conn, freed,
                   enabled, loggedOn, thread, closing, main, stopped, logouts,
                   restored>>

waitEnds ==
    /\ main = "logout" /\ logouts = {} /\ waited
    /\ setDisconnected(stopped)
    /\ main' = "setStop"
    /\ UNCHANGED <<m_stop, m_cleanupDone, m_threads, conn, freed, enabled,
                   loggedOn, thread, closing, stopVars>>

setStop ==
    /\ main = "setStop"
    /\ m_stop' = TRUE /\ main' = "onStop"
    /\ UNCHANGED <<sessionSets, m_cleanupDone, m_threads, conn, freed, enabled,
                   loggedOn, thread, closing, stopVars>>

(* Mutant: onStop waits for the connections' own micro-threads.            *)
onStopWaits ==
    /\ main = "onStop" /\ m_cleanupDone /\ Live = {}
    /\ enabled' = enabled \cup restored
    /\ main' = "join"
    /\ UNCHANGED <<sessionSets, m_stop, m_cleanupDone, m_threads, conn, freed,
                   loggedOn, thread, closing, stopVars>>

onStop ==
    /\ main = "onStop" /\ m_cleanupDone
    /\ enabled' = enabled \cup restored
    /\ main' = "join"
    /\ UNCHANGED <<sessionSets, m_stop, m_cleanupDone, m_threads, conn, freed,
                   loggedOn, thread, closing, stopVars>>

(* The destructor of the jthread.                                          *)
join ==
    /\ main = "join" /\ thread = "done"
    /\ main' = "exit"
    /\ UNCHANGED <<sessionSets, m_stop, m_cleanupDone, m_threads, conn, freed,
                   enabled, loggedOn, thread, closing, stopVars>>

-----------------------------------------------------------------------------
InitiatorThread == block \/ onStart \/ loopEnds \/ cleanUp

SocketThread(c) ==
    \/ connectFails(c) \/ connectSucceeds(c)
    \/ logsOn(c) \/ logsOut(c) \/ readEnds(c)

MainThread ==
    \/ stopTooEarly \/ stopBegins \/ (\E s \in Sessions : logout(s))
    \/ waitSecond \/ waitEnds \/ setStop \/ onStop \/ join

Next ==
    \/ InitiatorThread \/ connect
    \/ \E c \in Connections : SocketThread(c)
    \/ MainThread \/ shutDown

Spec == Init /\ [][Next]_vars

(* Both threads run.  Nothing is assumed of the network: a connection may  *)
(* take for ever and a Logout need not be answered.                        *)
FairSpec ==
    /\ Spec
    /\ WF_vars(InitiatorThread)
    /\ WF_vars(MainThread)

-----------------------------------------------------------------------------
(* Properties.                                                             *)

(* Every session is in exactly one of the three sets.                      *)
TypeOK ==
    /\ m_pending \cup m_connected \cup m_disconnected = Sessions
    /\ m_pending \cap m_connected = {}
    /\ (m_pending \cup m_connected) \cap m_disconnected = {}
    /\ m_stop \in BOOLEAN /\ m_cleanupDone \in BOOLEAN
    /\ m_threads \subseteq Connections /\ closing \subseteq Connections
    /\ conn \in [Connections -> {"none", "connecting", "reading",
                              "closed", "gone"}]
    /\ freed \in [Connections -> Nat]
    /\ enabled \subseteq Sessions /\ loggedOn \subseteq Sessions
    /\ thread \in {"block", "onStart", "loop", "closing", "done"}
    /\ main \in {"running", "stop", "logout", "setStop", "onStop", "join", "exit"}
    /\ logouts \subseteq stopped /\ restored \subseteq stopped
    /\ stopped \subseteq Sessions
    /\ second \in 0 .. MaxSeconds

(* A session never has two connections: the second would take the          *)
(* session's responder from the first.  stop() calls setDisconnected for   *)
(* sessions whose connection is still open, and connect() may run after    *)
(* that.                                                                   *)
OneConnection ==
    \A c, d \in Live : Owner(c) = Owner(d) => c = d

(* Every SSL object is freed once: by its micro-thread or by the clean-up  *)
(* in onStart, never by both, and by one of them before the program ends.  *)
FreedOnce ==
    \A c \in Connections :
        /\ freed[c] <= 1
        /\ thread = "done" /\ conn[c] # "none" => freed[c] = 1

(* stop() does not cut a session off that was connected when it was        *)
(* called and is still logged on, unless it has waited its full time.      *)
OrderlyStop ==
    main \in {"setStop", "onStop"} /\ second < MaxSeconds =>
        stopped \cap loggedOn = {}

(* Once block() has cleared m_stop a call of stop() comes to its end and   *)
(* so does the initiator's thread, whatever the network does.  (A stop()   *)
(* before that is lost: it returns at once and the join never ends.)       *)
StopCompletes == main = "stop" /\ ~m_stop ~> main = "exit"
=============================================================================
