------------------------------ MODULE Session -------------------------------
(***************************************************************************)
(* One FIX session as flashfix's Session.cpp keeps it: the logon           *)
(* handshake, sequence numbers in both directions, the queue of messages   *)
(* that came too early, resend requests, heartbeats and timeouts, logout   *)
(* and disconnect.  The settings are those of FixConfig.cpp: an initiator, *)
(* NonStopSession, ResetOnLogout, ResetOnDisconnect, FIX.4.4.              *)
(*                                                                         *)
(* The functions of Session.cpp are operators from the session's state to  *)
(* its next state, with the names they have there; the actions at the end  *)
(* are their callers.  In this module the counterparty may send anything;  *)
(* module FixLink puts a FIX counterparty at the other end.                *)
(***************************************************************************)
EXTENDS Integers, Sequences, SequencesExt

CONSTANTS
    HeartBtInt,      \* heartbeat interval, in units of time
    LogonTimeout,    \* SessionState::m_logonTimeout
    LogoutTimeout    \* SessionState::m_logoutTimeout

ASSUME TimesAssumption ==
    /\ HeartBtInt \in Nat \ {0}
    /\ LogonTimeout \in 0 .. 3 * HeartBtInt
    /\ LogoutTimeout \in 0 .. HeartBtInt

(* A GapFill is a SequenceReset with GapFillFlag=Y; Bad is a message that  *)
(* the data dictionary rejects.                                            *)
Kinds == {"Logon", "Logout", "Heartbeat", "TestRequest", "ResendRequest",
          "SequenceReset", "GapFill", "Reject", "App", "Bad"}

(* arg is the ResetSeqNumFlag of a Logon, the NewSeqNo of a SequenceReset  *)
(* and the BeginSeqNo of a ResendRequest (whose EndSeqNo is always 0).     *)
Message == [kind : Kinds, seq : Nat \ {0}, poss : BOOLEAN, arg : Nat]
Msg(kind, seq, poss, arg) ==
    [kind |-> kind, seq |-> seq, poss |-> poss, arg |-> arg]

VARIABLE s

Init == \E market \in BOOLEAN :
    s = [market |-> market,         \* a market data session, or order entry
         enabled |-> TRUE, shuttingDown |-> FALSE, aborted |-> FALSE,
         responder |-> TRUE,        \* m_pResponder is set
         reading |-> "wait",        \* the socket thread is in its read loop
         last |-> << >>,            \* the message string of processStream
         draining |-> FALSE,        \* it is in nextQueued
         greeting |-> FALSE,        \* and onLogon is due after it
         sentLogon |-> FALSE, receivedLogon |-> FALSE, sentLogout |-> FALSE,
         sentReset |-> FALSE, receivedReset |-> FALSE,
         sender |-> 1, target |-> 1,   \* the next sequence numbers
         apps |-> {},               \* stored application messages
         queue |-> {}, range |-> <<0, 0>>,
         testRequest |-> 0,
         received |-> 0, sent |-> 0,   \* ages of lastReceivedTime, -SentTime
         out |-> << >>,             \* written to the socket
         delivered |-> << >>,       \* history: numbers given to fromApp
         transmitted |-> << >>]     \* history: orders written to the socket

isLoggedOn(st) == st.sentLogon /\ st.receivedLogon

-----------------------------------------------------------------------------
(* Sending.                                                                *)

Reset(st) == [st EXCEPT !.sender = 1, !.target = 1, !.apps = {},
                        !.delivered = << >>, !.transmitted = << >>]

shouldSendReset(st) == st.sender = 1 /\ st.target = 1

OrdersIn(msgs) ==
    FlattenSeq([i \in 1 .. Len(msgs) |-> IF msgs[i].kind = "App" THEN <<msgs[i]>>
                                                              ELSE << >>])

Write(st, msgs) ==
    IF st.responder
    THEN [st EXCEPT !.sent = 0, !.out = @ \o msgs,
                    !.transmitted = @ \o OrdersIn(msgs)]
    ELSE [st EXCEPT !.sent = 0]

(* The number is taken and the message stored whether or not it is sent.   *)
Persist(st, kind) ==
    [st EXCEPT !.sender = @ + 1, !.sent = 0,
               !.apps = IF kind = "App" THEN @ \cup {st.sender} ELSE @]

Urgent == {"Logon", "Logout", "ResendRequest"}

sendRaw(st, kind, arg) ==
    IF kind \in Urgent \/ isLoggedOn(st)
    THEN Write(Persist(st, kind), <<Msg(kind, st.sender, FALSE, arg)>>)
    ELSE Persist(st, kind)

send(st) ==
    IF ~isLoggedOn(st) /\ shouldSendReset(st)
    THEN [st EXCEPT !.sent = 0]
    ELSE sendRaw(st, "App", 0)

generateLogon(st) ==
    LET flag == shouldSendReset(st)
        st1 == [st EXCEPT !.received = 0, !.testRequest = 0,
                          !.sentLogon = TRUE, !.sentReset = flag]
    IN  sendRaw(st1, "Logon", IF flag THEN 1 ELSE 0)

generateLogout(st) == [sendRaw(st, "Logout", 0) EXCEPT !.sentLogout = TRUE]

generateResendRequest(st, m) ==
    [sendRaw(st, "ResendRequest", st.target)
        EXCEPT !.range = <<st.target, m.seq - 1>>]

(* generateReject: a rejected message counts as received if its turn had   *)
(* come.  Without a logon it throws before it sends; LOGEX, which catches  *)
(* that for a message the dictionary rejects, only writes it to the log.   *)
generateReject(st, m) ==
    LET st1 == IF m.kind \notin {"Logon", "SequenceReset", "GapFill"}
                  /\ m.seq = st.target
               THEN [st EXCEPT !.target = @ + 1] ELSE st
    IN  IF st.receivedLogon THEN sendRaw(st1, "Reject", 0)
        ELSE [st1 EXCEPT !.sent = 0]

(* Mutant: the application lets retransmitted orders through.              *)
toAppAll(m) == TRUE

(* Application::toApp throws DoNotSend for a possible duplicate.           *)
toApp(m) == ~m.poss

(* Messages b..e once more: those of the set again as possible duplicates, *)
(* and gap fills over everything between them.  log has their kinds.       *)
Repeated(log, again, b, e) ==
    LET next(n) == Min((again \cap n .. e) \cup {e + 1})
        part(n) == IF n \in again THEN <<Msg(log[n], n, TRUE, 0)>>
                   ELSE IF n = b \/ n - 1 \in again
                   THEN <<Msg("GapFill", n, TRUE, next(n))>>
                   ELSE << >>
    IN  IF b > e THEN <<Msg("GapFill", b, TRUE, e + 1)>>
        ELSE FlattenSeq([i \in 1 .. e - b + 1 |-> part(b + i - 1)])

(* What generateRetransmits writes for the numbers b..e.                   *)
generateRetransmits(apps, b, e) ==
    Repeated([n \in apps |-> "App"],
             {n \in apps : toApp(Msg("App", n, TRUE, 0))}, b, e)

(* Mutant: the connection is dropped but the logon is remembered.          *)
disconnectKeepsLogon(st) ==
    [Reset(st) EXCEPT !.responder = FALSE, !.aborted = ~st.shuttingDown,
                      !.queue = {}, !.range = <<0, 0>>]

(* disconnect: outside shutdown onLogout throws, and nothing catches it.   *)
disconnect(st) ==
    LET st1 == [st EXCEPT !.responder = FALSE, !.sentLogon = FALSE,
                          !.receivedLogon = FALSE]
    IN  IF (st.sentLogon \/ st.receivedLogon) /\ ~st.shuttingDown
        THEN [st1 EXCEPT !.aborted = TRUE]
        ELSE [Reset(st1) EXCEPT !.sentLogout = FALSE, !.sentReset = FALSE,
                                !.receivedReset = FALSE,
                                !.queue = {}, !.range = <<0, 0>>]

-----------------------------------------------------------------------------
(* Receiving.                                                              *)

validLogonState(st, m) ==
    \/ st.receivedReset
    \/ m.kind = "Logon" /\ (st.sentReset \/ ~st.receivedLogon)
    \/ m.kind # "Logon" /\ st.receivedLogon
    \/ m.kind = "Logout" /\ st.sentLogon
    \/ m.kind # "Logout" /\ st.sentLogout
    \/ m.kind \in {"SequenceReset", "GapFill", "Reject"}

(* A message that came too early is queued under its number.  Only one     *)
(* resend request is out at a time, unless the gap begins further back.    *)
doTargetTooHigh(st, m) ==
    LET st1 == [st EXCEPT !.queue = {q \in @ : q.seq # m.seq} \cup {m}]
    IN  IF st.range # <<0, 0>> /\ m.seq >= st.range[1]
        THEN st1 ELSE generateResendRequest(st1, m)

(* Mutant: a message that came before is taken for the next one.           *)
doTargetTooLowOften(st, m) == [st EXCEPT !.target = m.seq]

(* Mutant: a possible duplicate is handed to the application.              *)
doTargetTooLowAgain(st, m) ==
    IF m.poss /\ m.kind = "App" THEN [st EXCEPT !.delivered = Append(@, m.seq)]
    ELSE IF m.poss THEN st ELSE disconnect(generateLogout(st))

doTargetTooLow(st, m) ==
    IF m.poss THEN st ELSE disconnect(generateLogout(st))

(* verify, with the callback to the application: fromApp hands an          *)
(* application message over, fromAdmin throws for a Reject.                *)
verify(st, m, checkTooHigh, checkTooLow) ==
    IF ~validLogonState(st, m)
    THEN [ok |-> FALSE, st |-> disconnect(st)]
    ELSE IF checkTooHigh /\ m.seq > st.target
    THEN [ok |-> FALSE, st |-> doTargetTooHigh(st, m)]
    ELSE IF checkTooLow /\ m.seq < st.target
    THEN [ok |-> FALSE, st |-> doTargetTooLow(st, m)]
    ELSE [ok |-> m.kind # "Reject",
          st |-> [st EXCEPT
                    !.range = IF (checkTooHigh \/ checkTooLow) /\ m.seq >= @[2]
                              THEN <<0, 0>> ELSE @,
                    !.received = 0, !.testRequest = 0,
                    !.aborted = m.kind = "Reject",
                    !.delivered = IF m.kind = "App" THEN Append(@, m.seq) ELSE @]]

Advance(st) == [st EXCEPT !.target = @ + 1]

nextLogon(st, m) ==
    LET reset == m.arg = 1
        answer == reset /\ ~st.sentReset
        st0 == [st EXCEPT !.receivedReset = reset]
        st1 == IF answer THEN Reset(st0) ELSE st0
        v == verify(st1, m, FALSE, TRUE)
        st2 == [v.st EXCEPT !.receivedLogon = TRUE]
        st3 == IF answer THEN [sendRaw(st2, "Logon", 1) EXCEPT !.sentLogon = TRUE]
               ELSE st2
        st4 == [st3 EXCEPT !.sentReset = FALSE, !.receivedReset = FALSE,
                           !.greeting = TRUE]
    IN  IF ~st.enabled THEN disconnect(st)
        ELSE IF ~st.sentLogon /\ ~reset THEN disconnect(st1)
        ELSE IF ~v.ok THEN v.st
        ELSE IF m.seq > st4.target /\ ~reset THEN doTargetTooHigh(st4, m)
        ELSE Advance(st4)

(* Heartbeat, Reject and application messages.                             *)
nextInTurn(st, m, checkTooHigh) ==
    LET v == verify(st, m, checkTooHigh, TRUE)
    IN  IF v.ok THEN Advance(v.st) ELSE v.st

nextTestRequest(st, m) ==
    LET v == verify(st, m, TRUE, TRUE)
    IN  IF v.ok THEN Advance(sendRaw(v.st, "Heartbeat", 0)) ELSE v.st

nextLogout(st, m) ==
    LET v == verify(st, m, FALSE, FALSE)
        st1 == IF v.st.sentLogout THEN v.st ELSE generateLogout(v.st)
    IN  IF v.ok THEN disconnect(Reset(st1)) ELSE v.st

(* A number that goes back is rejected; without a logon generateReject     *)
(* throws, and nothing catches it here.                                    *)
nextSequenceReset(st, m) ==
    LET checked == m.kind = "GapFill"
        v == verify(st, m, checked, checked)
    IN  IF ~v.ok \/ m.arg = v.st.target THEN v.st
        ELSE IF m.arg > v.st.target THEN [v.st EXCEPT !.target = m.arg]
        ELSE IF v.st.receivedLogon THEN generateReject(v.st, m)
        ELSE [v.st EXCEPT !.aborted = TRUE]

nextResendRequest(st, m) ==
    LET v == verify(st, m, FALSE, FALSE)
        st1 == Write(v.st, generateRetransmits(v.st.apps, m.arg, v.st.sender - 1))
    IN  IF ~v.ok THEN v.st
        ELSE IF m.seq = st1.target THEN Advance(st1) ELSE st1

nextMessage(st, m) ==
    CASE m.kind = "Logon" -> nextLogon(st, m)
      [] m.kind = "Logout" -> nextLogout(st, m)
      [] m.kind = "TestRequest" -> nextTestRequest(st, m)
      [] m.kind = "ResendRequest" -> nextResendRequest(st, m)
      [] m.kind \in {"SequenceReset", "GapFill"} -> nextSequenceReset(st, m)
      [] m.kind = "Reject" -> nextInTurn(st, m, FALSE)
      [] m.kind \in {"Heartbeat", "App"} -> nextInTurn(st, m, TRUE)
      [] m.kind = "Bad" -> generateReject(st, m)

-----------------------------------------------------------------------------
(* Session::next(now): what the passing of time makes the session do.      *)

withinHeartBeat(st) == st.sent < HeartBtInt /\ st.received < HeartBtInt
(* Mutant: a test request that is not answered is waited for.              *)
timedOutNever(st)   == st.received > 3 * HeartBtInt

timedOut(st)        == 5 * st.received >= 12 * HeartBtInt
needTestRequest(st) == 5 * st.received >= 6 * (st.testRequest + 1) * HeartBtInt
needHeartbeat(st)   == st.sent >= HeartBtInt /\ st.testRequest = 0

Beat(st) ==
    CASE st.aborted \/ withinHeartBeat(st) -> st
      [] ~st.aborted /\ timedOut(st) -> disconnect(st)
      [] OTHER ->
           IF needTestRequest(st)
           THEN [sendRaw(st, "TestRequest", 0) EXCEPT !.testRequest = @ + 1]
           ELSE IF needHeartbeat(st) THEN sendRaw(st, "Heartbeat", 0)
           ELSE st

(* Mutant: a logout that is not answered is waited for.                    *)
nextNowPatient(st) ==
    LET st1 == IF st.enabled \/ st.sentLogout THEN st ELSE generateLogout(st)
    IN  IF ~st.enabled /\ ~isLoggedOn(st) THEN st
        ELSE IF ~st.receivedLogon
        THEN IF ~st.sentLogon THEN generateLogon(st)
             ELSE IF st.received >= LogonTimeout THEN disconnect(st) ELSE st
        ELSE IF withinHeartBeat(st1) \/ st1.sentLogout THEN st1 ELSE Beat(st1)

nextNow(st) ==
    LET st1 == IF st.enabled \/ st.sentLogout THEN st ELSE generateLogout(st)
        st2 == IF st1.sentLogout /\ st1.sent >= LogoutTimeout
               THEN disconnect(st1) ELSE st1
    IN  IF ~st.enabled /\ ~isLoggedOn(st) THEN st
        ELSE IF ~st.receivedLogon
        THEN IF ~st.sentLogon THEN generateLogon(st)
             ELSE IF st.received >= LogonTimeout THEN disconnect(st) ELSE st
        ELSE Beat(st2)

-----------------------------------------------------------------------------
(* The callers: the socket thread's read loop, the initiator's outbound    *)
(* queue and the main thread.                                              *)

Queued(st) == {q \in st.queue : q.seq = st.target}

(* processStream goes on with what is already in the parser's buffer       *)
(* after a message that made the session disconnect; then read() returns   *)
(* false and the socket thread ends.                                       *)
After(st) == [st EXCEPT !.reading = IF st.responder THEN @ ELSE "stream"]

Readable ==
    /\ ~s.aborted /\ ~s.draining
    /\ s.reading = "stream" \/ (s.reading = "wait" /\ s.responder)

(* Mutant: a resend request in turn does not look at the queue.            *)
ReceiveLeavesQueue(m) ==
    LET st == nextMessage(s, m)
    IN  /\ Readable
        /\ s' = [After(st) EXCEPT
                    !.last = <<m>>,
                    !.draining = \/ m.kind \notin {"App", "ResendRequest", "GapFill"}
                                 \/ m.kind = "App" /\ st.target = s.target + 1]

(* next(message): the handler, then nextQueued and next(now); an           *)
(* application message that is not in turn is left at once.                *)
Receive(m) ==
    LET st == nextMessage(s, m)
    IN  /\ Readable
        /\ s' = [After(st) EXCEPT
                    !.last = <<m>>,
                    !.draining = m.kind # "App" \/ st.target = s.target + 1]

(* nextQueued: the message whose turn has come is taken from the queue and *)
(* handled; of a Logon or ResendRequest only the number counts.            *)
nextQueued ==
    /\ s.draining /\ ~s.aborted
    /\ \E q \in Queued(s) :
          LET st1 == [s EXCEPT !.queue = @ \ {q}]
              st2 == nextMessage(st1, q)
              st3 == IF q.kind \in {"Logon", "ResendRequest"} THEN Advance(st1)
                     ELSE IF ~st2.aborted /\ isLoggedOn(st2) THEN nextNow(st2)
                     ELSE st2
          IN  s' = After(st3)

(* onLogon: a market data session sends its MarketDataRequest.             *)
onLogon(st) == IF st.market THEN send(st) ELSE st

(* The queue holds nothing in turn: after a Logon the application is told, *)
(* and next(now) ends the handling.                                        *)
Drained ==
    /\ s.draining /\ ~s.aborted
    /\ Queued(s) = {}
    /\ LET st1 == IF s.greeting /\ isLoggedOn(s) THEN onLogon(s) ELSE s
           st2 == IF isLoggedOn(s) THEN nextNow(st1) ELSE st1
       IN  s' = [After(st2) EXCEPT !.draining = FALSE, !.greeting = FALSE]

(* A message that cannot be parsed (InvalidMessage) is dropped; one that   *)
(* looks like a Logon ends the session, and without a logon the connection *)
(* is closed, which leaves the session with what it has sent.              *)
ReceiveGarbled(isLogon) ==
    LET st == IF isLogon THEN disconnect(s) ELSE s
    IN  /\ Readable
        /\ s' = IF st.aborted \/ isLoggedOn(st) THEN [st EXCEPT !.last = << >>]
                ELSE [st EXCEPT !.last = << >>, !.responder = FALSE,
                                !.reading = "ended"]

(* A BodyLength that is no number: the parser throws what it has buffered  *)
(* away, and processStream goes on with the message it handled last; when  *)
(* there was none, or it was garbled, with one that cannot be parsed.      *)
ReceiveBadLength ==
    \/ \E m \in ToSet(s.last) : Receive(m)
    \/ s.reading = "wait" /\ ReceiveGarbled(FALSE)

(* The buffer is used up.                                                  *)
StreamEnds ==
    /\ s.reading = "stream" /\ ~s.draining /\ ~s.aborted
    /\ s' = [s EXCEPT !.reading = "ended", !.last = << >>]

(* SSL_read fails or finds the end of the TLS connection: the session is   *)
(* disconnected and the socket thread ends.                                *)
ReadFails ==
    LET st == disconnect(s)
    IN  /\ Readable /\ s.reading = "wait"
        /\ s' = IF st.aborted THEN [st EXCEPT !.last = << >>]
                ELSE [st EXCEPT !.last = << >>, !.reading = "ended"]

(* read() times out.  It does not look at m_disconnect on this path, so    *)
(* the loop goes on after a disconnect.                                    *)
ReadTimeout ==
    /\ s.reading = "wait" /\ ~s.draining /\ ~s.aborted
    /\ s' = [nextNow(s) EXCEPT !.last = << >>]

(* processOutboundQueue: an order.                                         *)
SendOrder ==
    /\ ~s.aborted /\ ~s.market
    /\ s' = send(s)

(* The main thread: isShuttingDown, then stop() disables the session.      *)
ShutDown ==
    /\ ~s.aborted /\ ~s.shuttingDown
    /\ s' = [s EXCEPT !.shuttingDown = TRUE]

Logout ==
    /\ ~s.aborted /\ s.shuttingDown /\ s.enabled
    /\ s' = [s EXCEPT !.enabled = FALSE]

(* The initiator connects a session whose socket thread has ended.         *)
Reconnect ==
    /\ ~s.aborted /\ s.reading = "ended" /\ s.enabled
    /\ s' = nextNow([s EXCEPT !.responder = TRUE, !.reading = "wait",
                              !.out = << >>])

(* A unit of time passes, when what is due has been done: read() returns   *)
(* once a second.  Ages beyond the last timeout are all alike.             *)
Tick ==
    /\ ~s.draining /\ ~s.aborted
    /\ s.reading = "wait" => nextNow(s) = s /\ s.last = << >>
    /\ s' = [s EXCEPT !.received = IF @ < 3 * HeartBtInt THEN @ + 1 ELSE @,
                      !.sent = IF @ < HeartBtInt THEN @ + 1 ELSE @]

Next ==
    \/ \E m \in Message : Receive(m)
    \/ \E isLogon \in BOOLEAN : ReceiveGarbled(isLogon)
    \/ ReceiveBadLength
    \/ nextQueued \/ Drained \/ StreamEnds \/ ReadFails \/ ReadTimeout
    \/ SendOrder \/ ShutDown \/ Logout \/ Reconnect \/ Tick

Spec == Init /\ [][Next]_s
=============================================================================
