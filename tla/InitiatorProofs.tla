-------------------------- MODULE InitiatorProofs ---------------------------
(***************************************************************************)
(* For every set of sessions and every bound: the initiator's sets of      *)
(* sessions stay a partition, no session ever has two connections, every   *)
(* SSL object is freed exactly once, and stop() cuts no session off early. *)
(*                                                                         *)
(* The inductive invariant ties the micro-threads to the sets.  A live     *)
(* connection's session is pending or connected, or it can no longer be    *)
(* connected because it is disabled or the thread has ended; that is what  *)
(* makes stop()'s premature setDisconnected harmless.                      *)
(***************************************************************************)
EXTENDS Initiator, TLAPS

(* A live connection's session is not among those connect() looks at.      *)
Guarded ==
    \A c \in Live : \/ Owner(c) \in m_pending \cup m_connected
                    \/ Owner(c) \notin enabled
                    \/ thread = "done"

(* What stop() has disabled stays so until the thread is done.             *)
Disabled ==
    /\ m_cleanupDone => thread = "done"
    /\ main \in {"running", "stop"} => stopped = {} /\ logouts = {}
    /\ main \in {"logout", "setStop", "onStop"} =>
          (stopped \ logouts) \cap enabled = {}
    /\ main \in {"setStop", "onStop"} => logouts = {}

(* The SSL objects: each is in one place until it is freed.                *)
Held ==
    /\ m_threads \cap closing = {} \/ thread = "done"
    /\ thread \in {"closing", "done"} => m_threads = {}
    /\ thread \in {"block", "onStart", "loop"} => closing = {}
    /\ \A c \in Connections :
          /\ conn[c] = "none" => freed[c] = 0 /\ c \notin m_threads \cup closing
          /\ c \in m_threads => freed[c] = 0
          /\ c \in closing /\ thread # "done" => freed[c] = 0
          /\ conn[c] # "none" /\ c \notin m_threads \cup closing => freed[c] = 1
          /\ c \in closing /\ thread = "done" => freed[c] = 1
          /\ c \in Live => c \in m_threads \cup closing

(* A session that is logged on is read by a connection, and until stop()   *)
(* takes the connected sessions away it is among them.                     *)
Reached ==
    /\ \A s \in loggedOn :
          \E c \in Connections : Owner(c) = s /\ conn[c] = "reading"
    /\ main \in {"running", "stop", "logout"} =>
          \A c \in Connections : conn[c] = "reading" => Owner(c) \in m_connected

IInv ==
    /\ TypeOK
    /\ OneConnection
    /\ Guarded
    /\ Disabled
    /\ Held
    /\ Reached
    /\ OrderlyStop

-----------------------------------------------------------------------------
(* A connection belongs to a session.                                      *)
LEMMA OwnerType == \A c \in Connections : Owner(c) \in Sessions
BY DEF Connections, Owner

(* The connection that connect() makes for a session is one of that        *)
(* session that was not in use.                                            *)
LEMMA FreshUnused ==
    ASSUME NEW s \in Sessions, Unused(s) # {}
    PROVE  /\ Fresh(s) \in Connections
           /\ Owner(Fresh(s)) = s
           /\ conn[Fresh(s)] = "none"
<1>1. (CHOOSE n \in Unused(s) : TRUE) \in Unused(s)
  OBVIOUS
<1> QED BY <1>1 DEF Fresh, Unused, Connections, Owner

(* What connect() does: some disconnected, enabled sessions become pending *)
(* and some of them get one new connection.                                *)
LEMMA ConnectEffect ==
    ASSUME TypeOK, connect
    PROVE  \E begun \in SUBSET (m_disconnected \cap enabled) :
           \E made \in SUBSET Connections :
             /\ \A c \in made : Owner(c) \in begun /\ conn[c] = "none"
             /\ \A c, d \in made : Owner(c) = Owner(d) => c = d
             /\ setPending(begun)
             /\ conn' = [c \in Connections |->
                           IF c \in made THEN "connecting" ELSE conn[c]]
             /\ m_threads' = m_threads \cup made
<1>1. PICK begun \in SUBSET Connectable : \E started \in SUBSET begun :
        LET made == {Fresh(s) : s \in started}
        IN  /\ setPending(begun)
            /\ conn' = [c \in Connections |->
                          IF c \in made THEN "connecting" ELSE conn[c]]
            /\ m_threads' = m_threads \cup made
  BY DEF connect
<1>2. PICK started \in SUBSET begun :
        LET made == {Fresh(s) : s \in started}
        IN  /\ setPending(begun)
            /\ conn' = [c \in Connections |->
                          IF c \in made THEN "connecting" ELSE conn[c]]
            /\ m_threads' = m_threads \cup made
  BY <1>1
<1> DEFINE made == {Fresh(s) : s \in started}
<1>3. begun \subseteq m_disconnected \cap enabled
  BY <1>1 DEF Connectable
<1>4. \A s \in started : /\ Fresh(s) \in Connections
                         /\ Owner(Fresh(s)) = s
                         /\ conn[Fresh(s)] = "none"
  <2>1. TAKE s \in started
  <2>2. s \in Sessions /\ Unused(s) # {}
    BY <1>1, <1>2 DEF Connectable, TypeOK
  <2> QED BY <2>2, FreshUnused
<1>5. made \in SUBSET Connections
  BY <1>4
<1>6. \A c \in made : Owner(c) \in begun /\ conn[c] = "none"
  BY <1>2, <1>4
<1>7. \A c, d \in made : Owner(c) = Owner(d) => c = d
  BY <1>4
<1>8. /\ setPending(begun)
      /\ conn' = [c \in Connections |->
                    IF c \in made THEN "connecting" ELSE conn[c]]
      /\ m_threads' = m_threads \cup made
  BY <1>2
<1> HIDE DEF made
<1> QED BY <1>3, <1>5, <1>6, <1>7, <1>8

(* The initial states satisfy the invariant.                               *)
LEMMA InitIInv == Init => IInv
<1> SUFFICES ASSUME Init PROVE IInv
  OBVIOUS
<1>1. TypeOK
  <2>1. m_stop \in BOOLEAN /\ m_cleanupDone \in BOOLEAN
    BY Zenon DEF Init
  <2> QED BY <2>1, SecondsAssumption DEF Init, TypeOK
<1>2. Live = {}
  BY DEF Init, Live
<1>3. OneConnection /\ Guarded
  BY <1>2 DEF OneConnection, Guarded
<1>4. Disabled /\ Reached /\ OrderlyStop
  BY DEF Init, Disabled, Reached, OrderlyStop
<1>5. Held
  BY <1>2 DEF Init, Held
<1> QED BY <1>1, <1>3, <1>4, <1>5 DEF IInv

(* Every step keeps the sets a partition.                                  *)
LEMMA TypeStep == ASSUME IInv, [Next]_vars PROVE TypeOK'
<1> USE DEF sessionSets, stopVars
<1>0. TypeOK
  BY DEF IInv
<1>1. CASE block \/ onStart \/ loopEnds
  BY <1>0, <1>1 DEF TypeOK, block, onStart, loopEnds
<1>2. CASE cleanUp
  BY <1>0, <1>2 DEF TypeOK, cleanUp, Free
<1>3. CASE connect
  <2>1. PICK begun \in SUBSET (m_disconnected \cap enabled),
             made \in SUBSET Connections :
          /\ setPending(begun)
          /\ conn' = [c \in Connections |->
                        IF c \in made THEN "connecting" ELSE conn[c]]
          /\ m_threads' = m_threads \cup made
    BY <1>0, <1>3, ConnectEffect
  <2> QED BY <1>0, <1>3, <2>1 DEF TypeOK, connect, setPending
<1>4. ASSUME NEW c \in Connections, SocketThread(c) PROVE TypeOK'
  <2>0. Owner(c) \in Sessions
    BY OwnerType
  <2>1. CASE connectFails(c)
    BY <1>0, <2>0, <2>1 DEF TypeOK, connectFails, removeThread, Free, setDisconnected
  <2>2. CASE connectSucceeds(c)
    BY <1>0, <2>0, <2>2 DEF TypeOK, connectSucceeds, setConnected
  <2>3. CASE logsOn(c) \/ logsOut(c)
    BY <1>0, <2>0, <2>3 DEF TypeOK, logsOn, logsOut
  <2>4. CASE readEnds(c)
    BY <1>0, <2>0, <2>4 DEF TypeOK, readEnds, removeThread, Free, setDisconnected
  <2> QED BY <1>4, <2>1, <2>2, <2>3, <2>4 DEF SocketThread
<1>5. CASE MainThread \/ shutDown
  <2>1. CASE shutDown \/ stopTooEarly \/ stopBegins
    <3>1. main \in {"running", "stop"} => restored = {}
      BY <1>0 DEF IInv, Disabled, TypeOK
    <3> QED BY <1>0, <2>1, <3>1 DEF TypeOK, shutDown, stopTooEarly, stopBegins
  <2>2. CASE \E s \in Sessions : logout(s)
    BY <1>0, <2>2 DEF TypeOK, logout
  <2>3. CASE waitSecond
    BY <1>0, <2>3, SecondsAssumption DEF TypeOK, waitSecond, waited
  <2>4. CASE waitEnds
    BY <1>0, <2>4 DEF TypeOK, waitEnds, setDisconnected
  <2>5. CASE setStop \/ onStop \/ join
    BY <1>0, <2>5 DEF TypeOK, setStop, onStop, join
  <2> QED BY <1>5, <2>1, <2>2, <2>3, <2>4, <2>5 DEF MainThread
<1>6. CASE UNCHANGED vars
  BY <1>0, <1>6 DEF TypeOK, vars
<1> QED BY <1>1, <1>2, <1>3, <1>4, <1>5, <1>6 DEF Next, InitiatorThread

(* The connections change only by the actions of connect() and of their    *)
(* own micro-threads.                                                      *)
LEMMA OtherSteps ==
    ASSUME InitiatorThread \/ MainThread \/ shutDown \/ UNCHANGED vars
    PROVE  UNCHANGED <<conn, loggedOn>> /\ Live' = Live
<1> USE DEF sessionSets, stopVars
<1>1. UNCHANGED <<conn, loggedOn>>
  BY DEF InitiatorThread, MainThread, vars, block, onStart, loopEnds, cleanUp,
         stopTooEarly, stopBegins, logout, waitSecond, waitEnds, setStop,
         onStop, join, shutDown
<1> QED BY <1>1 DEF Live

(* A step of a micro-thread: its connection stays live or goes, the others *)
(* are as before.                                                          *)
LEMMA SocketStep ==
    ASSUME TypeOK, NEW c \in Connections, SocketThread(c)
    PROVE  /\ c \in Live
           /\ \A d \in Connections : d # c => conn'[d] = conn[d]
           /\ Live' \subseteq Live
           /\ Live \ {c} \subseteq Live'
           /\ UNCHANGED <<enabled, m_stop, m_cleanupDone, thread, closing, main,
                          stopped, logouts, restored, second>>
<1> USE DEF stopVars
<1>1. c \in Live
  BY DEF SocketThread, Live, connectFails, connectSucceeds, logsOn, logsOut, readEnds
<1>2. \A d \in Connections : d # c => conn'[d] = conn[d]
  BY DEF TypeOK, SocketThread, connectFails, connectSucceeds, logsOn, logsOut, readEnds
<1>3. UNCHANGED <<enabled, m_stop, m_cleanupDone, thread, closing, main,
                  stopped, logouts, restored, second>>
  BY DEF SocketThread, connectFails, connectSucceeds, logsOn, logsOut, readEnds
<1> QED BY <1>1, <1>2, <1>3 DEF Live

(* No step gives a session a second connection.                            *)
LEMMA OneConnectionStep == ASSUME IInv, [Next]_vars PROVE OneConnection'
<1>0. TypeOK /\ OneConnection /\ Guarded
  BY DEF IInv
<1>1. CASE InitiatorThread \/ MainThread \/ shutDown \/ UNCHANGED vars
  BY <1>0, <1>1, OtherSteps DEF OneConnection
<1>2. CASE connect
  <2>1. PICK begun \in SUBSET (m_disconnected \cap enabled) :
        \E made \in SUBSET Connections :
          /\ \A c \in made : Owner(c) \in begun /\ conn[c] = "none"
          /\ \A c, d \in made : Owner(c) = Owner(d) => c = d
          /\ conn' = [c \in Connections |->
                        IF c \in made THEN "connecting" ELSE conn[c]]
    BY <1>0, <1>2, ConnectEffect
  <2>2. PICK made \in SUBSET Connections :
          /\ \A c \in made : Owner(c) \in begun /\ conn[c] = "none"
          /\ \A c, d \in made : Owner(c) = Owner(d) => c = d
          /\ conn' = [c \in Connections |->
                        IF c \in made THEN "connecting" ELSE conn[c]]
    BY <2>1
  <2>3. Live' = Live \cup made
    BY <2>2 DEF Live
  <2>4. \A c \in Live : Owner(c) \notin begun
    BY <1>0, <1>2, <2>1 DEF Guarded, TypeOK, connect
  <2> QED BY <1>0, <2>2, <2>3, <2>4 DEF OneConnection
<1>3. ASSUME NEW c \in Connections, SocketThread(c) PROVE OneConnection'
  BY <1>0, <1>3, SocketStep DEF OneConnection
<1> QED BY <1>1, <1>2, <1>3 DEF Next

(* A live connection's session stays out of connect()'s reach.             *)
LEMMA GuardedStep == ASSUME IInv, [Next]_vars PROVE Guarded'
<1> USE DEF sessionSets, stopVars
<1>0. TypeOK /\ OneConnection /\ Guarded /\ Disabled
  BY DEF IInv
<1>1. CASE InitiatorThread
  <2>1. UNCHANGED sessionSets /\ UNCHANGED enabled /\ (thread = "done" => thread' = "done")
    BY <1>1 DEF InitiatorThread, block, onStart, loopEnds, cleanUp
  <2> QED BY <1>0, <1>1, <2>1, OtherSteps DEF Guarded
<1>2. CASE MainThread \/ shutDown \/ UNCHANGED vars
  <2>0. Live' = Live
    BY <1>2, OtherSteps
  <2>1. CASE shutDown \/ stopTooEarly \/ stopBegins \/ waitSecond \/ setStop
             \/ join \/ UNCHANGED vars
    BY <1>0, <2>0, <2>1 DEF Guarded, shutDown, stopTooEarly, stopBegins,
         waitSecond, setStop, join, vars
  <2>2. CASE \E s \in Sessions : logout(s)
    BY <1>0, <2>0, <2>2 DEF Guarded, logout
  <2>3. CASE waitEnds
    <3>1. stopped \cap enabled = {}
      BY <1>0, <2>3 DEF waitEnds, Disabled
    <3> QED BY <1>0, <2>0, <2>3, <3>1 DEF Guarded, waitEnds, setDisconnected
  <2>4. CASE onStop
    BY <1>0, <2>0, <2>4 DEF Guarded, onStop, Disabled
  <2> QED BY <1>2, <2>1, <2>2, <2>3, <2>4 DEF MainThread
<1>3. CASE connect
  <2>1. PICK begun \in SUBSET (m_disconnected \cap enabled) :
        \E made \in SUBSET Connections :
          /\ \A c \in made : Owner(c) \in begun /\ conn[c] = "none"
          /\ setPending(begun)
          /\ conn' = [c \in Connections |->
                        IF c \in made THEN "connecting" ELSE conn[c]]
    BY <1>0, <1>3, ConnectEffect
  <2>2. PICK made \in SUBSET Connections :
          /\ \A c \in made : Owner(c) \in begun /\ conn[c] = "none"
          /\ conn' = [c \in Connections |->
                        IF c \in made THEN "connecting" ELSE conn[c]]
    BY <2>1
  <2>3. Live' = Live \cup made
    BY <2>2 DEF Live
  <2>4. UNCHANGED <<enabled, thread>>
    BY <1>3 DEF connect
  <2>5. m_pending' \cup m_connected' = (m_pending \cup m_connected) \cup begun
    BY <1>0, <2>1 DEF setPending, TypeOK
  <2> QED BY <1>0, <2>2, <2>3, <2>4, <2>5 DEF Guarded
<1>4. ASSUME NEW c \in Connections, SocketThread(c) PROVE Guarded'
  <2>0. /\ c \in Live
        /\ Live' \subseteq Live
        /\ UNCHANGED <<enabled, thread>>
    BY <1>0, <1>4, SocketStep
  <2>1. \A d \in Live : d # c => Owner(d) # Owner(c)
    BY <1>0, <2>0 DEF OneConnection
  <2>2. CASE connectFails(c) \/ readEnds(c)
    <3>1. c \notin Live'
      BY <1>0, <2>2 DEF Live, connectFails, readEnds, TypeOK
    <3>2. m_pending' = m_pending \ {Owner(c)} /\ m_connected' = m_connected \ {Owner(c)}
      BY <2>2 DEF connectFails, readEnds, setDisconnected
    <3> QED BY <1>0, <2>0, <2>1, <3>1, <3>2 DEF Guarded
  <2>3. CASE connectSucceeds(c)
    BY <1>0, <2>0, <2>3 DEF Guarded, connectSucceeds, setConnected
  <2>4. CASE logsOn(c) \/ logsOut(c)
    BY <1>0, <2>0, <2>4 DEF Guarded, logsOn, logsOut
  <2> QED BY <1>4, <2>2, <2>3, <2>4 DEF SocketThread
<1> QED BY <1>1, <1>2, <1>3, <1>4 DEF Next

(* What stop() has disabled stays disabled until the thread is done.       *)
LEMMA DisabledStep == ASSUME IInv, [Next]_vars PROVE Disabled'
<1> USE DEF sessionSets, stopVars
<1>0. TypeOK /\ Disabled
  BY DEF IInv
<1>1. CASE InitiatorThread
  BY <1>0, <1>1 DEF Disabled, InitiatorThread, block, onStart, loopEnds, cleanUp
<1>2. CASE shutDown \/ stopTooEarly \/ stopBegins \/ waitSecond \/ waitEnds
           \/ setStop
  BY <1>0, <1>2 DEF Disabled, shutDown, stopTooEarly, stopBegins, waitSecond,
       waitEnds, setStop
<1>3. CASE \E s \in Sessions : logout(s)
  BY <1>0, <1>3 DEF Disabled, logout
<1>4. CASE onStop \/ join \/ UNCHANGED vars
  BY <1>0, <1>4 DEF Disabled, onStop, join, vars
<1>5. CASE connect
  BY <1>0, <1>5 DEF Disabled, connect
<1>6. ASSUME NEW c \in Connections, SocketThread(c) PROVE Disabled'
  <2>1. UNCHANGED <<enabled, m_cleanupDone, thread, main, stopped, logouts>>
    BY <1>0, <1>6, SocketStep
  <2> QED BY <1>0, <2>1 DEF Disabled
<1> QED BY <1>1, <1>2, <1>3, <1>4, <1>5, <1>6 DEF Next, MainThread

(* Every SSL object stays in one place until it is freed.                  *)
LEMMA HeldStep == ASSUME IInv, [Next]_vars PROVE Held'
<1> USE DEF sessionSets, stopVars
<1>0. TypeOK /\ Held
  BY DEF IInv
<1>1. CASE block \/ onStart
  BY <1>0, <1>1 DEF Held, Live, block, onStart
<1>2. CASE loopEnds
  BY <1>0, <1>2 DEF Held, Live, loopEnds
<1>3. CASE cleanUp
  <2>1. /\ UNCHANGED <<conn, m_threads, closing>> /\ Live' = Live
        /\ thread = "closing" /\ thread' = "done" /\ m_threads = {}
    BY <1>0, <1>3 DEF cleanUp, Live, Held
  <2>2. \A c \in Connections :
           freed'[c] = IF c \in closing THEN freed[c] + 1 ELSE freed[c]
    BY <1>3 DEF cleanUp, Free
  <2> QED BY <1>0, <2>1, <2>2 DEF Held, TypeOK
<1>4. CASE MainThread \/ shutDown \/ UNCHANGED vars
  <2>1. UNCHANGED <<conn, m_threads, closing, freed, thread>>
    BY <1>4 DEF MainThread, shutDown, vars, stopTooEarly, stopBegins, logout,
         waitSecond, waitEnds, setStop, onStop, join
  <2> QED BY <1>0, <2>1 DEF Held, Live
<1>5. CASE connect
  <2>1. PICK made \in SUBSET Connections :
          /\ \A c \in made : conn[c] = "none"
          /\ conn' = [c \in Connections |->
                        IF c \in made THEN "connecting" ELSE conn[c]]
          /\ m_threads' = m_threads \cup made
    BY <1>0, <1>5, ConnectEffect
  <2>2. UNCHANGED <<freed, closing, thread>> /\ thread = "loop"
    BY <1>5 DEF connect
  <2>3. \A c \in Connections : conn'[c] = IF c \in made THEN "connecting" ELSE conn[c]
    BY <2>1
  <2>4. \A c \in Connections : c \in Live' => c \in Live \/ c \in made
    BY <2>3 DEF Live
  <2> QED BY <1>0, <2>1, <2>2, <2>3, <2>4 DEF Held
<1>6. ASSUME NEW c \in Connections, SocketThread(c) PROVE Held'
  <2>0. /\ c \in Live /\ Live' \subseteq Live
        /\ \A d \in Connections : d # c => conn'[d] = conn[d]
        /\ UNCHANGED <<thread, closing>>
    BY <1>0, <1>6, SocketStep
  <2>1. conn[c] # "none" /\ conn'[c] # "none"
    BY <1>0, <1>6 DEF SocketThread, connectFails, connectSucceeds, logsOn,
         logsOut, readEnds, TypeOK
  <2>2. CASE UNCHANGED <<freed, m_threads>>
    BY <1>0, <2>0, <2>1, <2>2 DEF Held
  <2>3. CASE removeThread(c)
    <3>1. /\ m_threads' = m_threads \ {c}
          /\ \A d \in Connections :
                freed'[d] = IF d \in {c} \cap m_threads THEN freed[d] + 1
                                                        ELSE freed[d]
      BY <2>3 DEF removeThread, Free
    <3>2. c \in m_threads => freed'[c] = 1 /\ c \notin m_threads'
      BY <1>0, <3>1 DEF Held
    <3>3. c \notin m_threads => UNCHANGED <<m_threads>> /\ freed'[c] = freed[c]
      BY <3>1
    <3>4. \A d \in Connections : d # c =>
             freed'[d] = freed[d] /\ (d \in m_threads' <=> d \in m_threads)
      BY <3>1
    <3>5. CASE c \in m_threads
      <4>1. c \notin closing /\ thread # "done" /\ thread # "closing"
        BY <1>0, <3>5 DEF Held
      <4>2. c \notin Live'
        BY <1>0, <1>6, <2>3, <3>1, <3>5 DEF SocketThread, connectFails,
             connectSucceeds, logsOn, logsOut, readEnds, Live, TypeOK
      <4> QED BY <1>0, <2>0, <2>1, <3>1, <3>2, <3>4, <3>5, <4>1, <4>2 DEF Held
    <3>6. CASE c \notin m_threads
      <4>1. UNCHANGED m_threads /\ \A d \in Connections : freed'[d] = freed[d]
        BY <3>1, <3>6
      <4> QED BY <1>0, <2>0, <2>1, <4>1 DEF Held
    <3> QED BY <3>5, <3>6
  <2>4. UNCHANGED <<freed, m_threads>> \/ removeThread(c)
    BY <1>6 DEF SocketThread, connectFails, connectSucceeds, logsOn, logsOut, readEnds
  <2> QED BY <2>2, <2>3, <2>4
<1> QED BY <1>1, <1>2, <1>3, <1>4, <1>5, <1>6 DEF Next, InitiatorThread

(* A logged-on session keeps the connection that reads for it.             *)
LEMMA ReachedStep == ASSUME IInv, [Next]_vars PROVE Reached'
<1> USE DEF sessionSets, stopVars
<1>0. TypeOK /\ OneConnection /\ Guarded /\ Disabled /\ Reached
  BY DEF IInv
<1>1. CASE InitiatorThread \/ MainThread \/ shutDown \/ UNCHANGED vars
  <2>1. UNCHANGED <<conn, loggedOn>>
    BY <1>1, OtherSteps
  <2>2. \/ UNCHANGED m_connected
        \/ main' = "setStop"
    BY <1>1 DEF InitiatorThread, MainThread, vars, block, onStart, loopEnds,
         cleanUp, stopTooEarly, stopBegins, logout, waitSecond, waitEnds,
         setStop, onStop, join, shutDown
  <2>3. main' \in {"running", "stop", "logout"} => main \in {"running", "stop", "logout"}
    BY <1>1 DEF InitiatorThread, MainThread, vars, block, onStart, loopEnds,
         cleanUp, stopTooEarly, stopBegins, logout, waitSecond, waitEnds,
         setStop, onStop, join, shutDown
  <2> QED BY <1>0, <2>1, <2>2, <2>3 DEF Reached
<1>2. CASE connect
  <2>1. PICK begun \in SUBSET (m_disconnected \cap enabled) :
        \E made \in SUBSET Connections :
          /\ \A c \in made : conn[c] = "none"
          /\ setPending(begun)
          /\ conn' = [c \in Connections |->
                        IF c \in made THEN "connecting" ELSE conn[c]]
    BY <1>0, <1>2, ConnectEffect
  <2>2. PICK made \in SUBSET Connections :
          /\ \A c \in made : conn[c] = "none"
          /\ conn' = [c \in Connections |->
                        IF c \in made THEN "connecting" ELSE conn[c]]
    BY <2>1
  <2>3. \A c \in Connections : conn'[c] = "reading" <=> conn[c] = "reading"
    BY <2>2
  <2>4. m_connected' = m_connected
    BY <1>0, <2>1 DEF setPending, TypeOK
  <2>5. UNCHANGED <<loggedOn, main>>
    BY <1>2 DEF connect
  <2> QED BY <1>0, <2>3, <2>4, <2>5 DEF Reached
<1>3. ASSUME NEW c \in Connections, SocketThread(c) PROVE Reached'
  <2>0. /\ c \in Live
        /\ \A d \in Connections : d # c => conn'[d] = conn[d]
        /\ UNCHANGED main
    BY <1>0, <1>3, SocketStep
  <2>1. \A d \in Connections : conn[d] = "reading" /\ d # c => Owner(d) # Owner(c)
    BY <1>0, <2>0 DEF OneConnection, Live
  <2>2. CASE connectFails(c) \/ readEnds(c)
    <3>1. Owner(c) \notin loggedOn
      <4>1. Owner(c) \in loggedOn => conn[c] = "reading"
        BY <1>0, <2>1 DEF Reached
      <4> QED BY <2>2, <4>1 DEF connectFails, readEnds
    <3>2. conn'[c] = "gone"
      BY <1>0, <2>2 DEF connectFails, readEnds, TypeOK
    <3>3. UNCHANGED loggedOn /\ m_connected' = m_connected \ {Owner(c)}
      BY <2>2 DEF connectFails, readEnds, setDisconnected
    <3>4. \A s \in loggedOn' : \E d \in Connections : Owner(d) = s /\ conn'[d] = "reading"
      BY <1>0, <2>0, <3>1, <3>3 DEF Reached
    <3> QED BY <1>0, <2>0, <2>1, <3>2, <3>3, <3>4 DEF Reached
  <2>3. CASE connectSucceeds(c)
    <3>1. conn[c] = "connecting" /\ conn'[c] = "reading"
      BY <1>0, <2>3 DEF connectSucceeds, TypeOK
    <3>2. UNCHANGED loggedOn /\ m_connected' = m_connected \cup {Owner(c)}
      BY <2>3 DEF connectSucceeds, setConnected
    <3> QED BY <1>0, <2>0, <3>1, <3>2 DEF Reached
  <2>4. CASE logsOn(c)
    BY <1>0, <2>4 DEF Reached, logsOn
  <2>5. CASE logsOut(c)
    <3>1. conn'[c] = "closed"
      BY <1>0, <2>5 DEF logsOut, TypeOK
    <3>2. UNCHANGED m_connected /\ loggedOn' = loggedOn \ {Owner(c)}
      BY <2>5 DEF logsOut
    <3> QED BY <1>0, <2>0, <3>1, <3>2 DEF Reached
  <2> QED BY <1>3, <2>2, <2>3, <2>4, <2>5 DEF SocketThread
<1> QED BY <1>1, <1>2, <1>3 DEF Next

(* stop() cuts no session off before its time.                             *)
LEMMA OrderlyStopStep == ASSUME IInv, [Next]_vars PROVE OrderlyStop'
<1> USE DEF sessionSets, stopVars
<1>0. TypeOK /\ Disabled /\ Reached /\ OrderlyStop
  BY DEF IInv
<1>1. CASE InitiatorThread \/ connect
  BY <1>0, <1>1 DEF OrderlyStop, InitiatorThread, block, onStart, loopEnds,
       cleanUp, connect
<1>2. CASE shutDown \/ stopTooEarly \/ stopBegins \/ waitSecond \/ setStop
           \/ onStop \/ join \/ UNCHANGED vars
  BY <1>0, <1>2 DEF OrderlyStop, shutDown, stopTooEarly, stopBegins,
       waitSecond, setStop, onStop, join, vars
<1>3. CASE \E s \in Sessions : logout(s)
  BY <1>3 DEF OrderlyStop, logout
<1>4. CASE waitEnds
  <2>1. loggedOn \subseteq m_connected
    BY <1>0, <1>4 DEF Reached, waitEnds
  <2>2. UNCHANGED <<loggedOn, second, stopped>>
    BY <1>4 DEF waitEnds
  <2>3. second = MaxSeconds \/ loggedOn = {}
    BY <1>4, <2>1 DEF waitEnds, waited, isLoggedOn
  <2> QED BY <1>0, <2>2, <2>3, SecondsAssumption DEF OrderlyStop, TypeOK
<1>5. ASSUME NEW c \in Connections, SocketThread(c) PROVE OrderlyStop'
  <2>1. UNCHANGED <<enabled, main, stopped, logouts, second>>
    BY <1>0, <1>5, SocketStep
  <2>2. loggedOn' \subseteq loggedOn \cup enabled
    BY <1>5 DEF SocketThread, connectFails, connectSucceeds, logsOn, logsOut, readEnds
  <2> QED BY <1>0, <2>1, <2>2 DEF OrderlyStop, Disabled
<1> QED BY <1>1, <1>2, <1>3, <1>4, <1>5 DEF Next, MainThread

-----------------------------------------------------------------------------
(* The invariant is inductive.                                             *)
THEOREM Inductive == Spec => []IInv
<1>1. ASSUME IInv, [Next]_vars PROVE IInv'
  BY <1>1, TypeStep, OneConnectionStep, GuardedStep, DisabledStep, HeldStep,
     ReachedStep, OrderlyStopStep DEF IInv
<1> QED BY <1>1, InitIInv, PTL DEF Spec

(* The initiator's sets of sessions are always a partition.                *)
THEOREM TypeCorrect == Spec => []TypeOK
<1>1. IInv => TypeOK
  BY DEF IInv
<1> QED BY <1>1, Inductive, PTL

(* connect() never makes a second connection for a session, also not       *)
(* between stop()'s setDisconnected and the end of the loop in onStart.    *)
THEOREM NeverTwoConnections == Spec => []OneConnection
<1>1. IInv => OneConnection
  BY DEF IInv
<1> QED BY <1>1, Inductive, PTL

(* removeThread and the clean-up of onStart together free every SSL object *)
(* once.                                                                   *)
THEOREM EverySSLFreedOnce == Spec => []FreedOnce
<1>1. IInv => FreedOnce
  BY DEF IInv, Held, FreedOnce, TypeOK
<1> QED BY <1>1, Inductive, PTL

(* stop() ends its wait before the time is up only when every session that *)
(* it logged out has logged out.                                           *)
THEOREM StopIsOrderly == Spec => []OrderlyStop
<1>1. IInv => OrderlyStop
  BY DEF IInv
<1> QED BY <1>1, Inductive, PTL
=============================================================================
