---------------------------- MODULE SessionProofs ----------------------------
(***************************************************************************)
(* Theorems about the FIX session and its counterparty.                    *)
(***************************************************************************)
EXTENDS FixLink, SumProofs, SequenceTheorems

-----------------------------------------------------------------------------
(* Sequences of messages.                                                  *)

(* Messages of a session and of its counterparty: a resend request and a   *)
(* gap fill name a number.                                                 *)
Proper == {m \in Message : m.kind \in {"ResendRequest", "GapFill"} => m.arg # 0}

(* The fields of a message have their types.                               *)
LEMMA ProperType ==
    ASSUME NEW m \in Proper
    PROVE  /\ m \in Message
           /\ m.kind \in Kinds /\ m.seq \in Nat \ {0}
           /\ m.poss \in BOOLEAN /\ m.arg \in Nat
           /\ m.kind \in {"ResendRequest", "GapFill"} => m.arg # 0
BY DEF Proper, Message

(* One sequence flattened is that sequence.                                *)
LEMMA FlattenOne ==
    ASSUME NEW A, NEW x \in Seq(A)
    PROVE  FlattenSeq(<<x>>) = x
<1>1. << >> \in Seq(Seq(A)) /\ Append(<< >>, x) = <<x>>
  OBVIOUS
<1>2. FlattenSeq(<< >>) = << >>
  BY DEF FlattenSeq
<1>3. FlattenSeq(<<x>>) = << >> \o x
  BY <1>1, <1>2, FlattenAppend
<1> QED BY <1>3

(* A message written alone is transmitted if it is an order.               *)
LEMMA OrdersInOne ==
    ASSUME NEW m \in Proper
    PROVE  OrdersIn(<<m>>) = IF m.kind = "App" THEN <<m>> ELSE << >>
<1> DEFINE x == IF m.kind = "App" THEN <<m>> ELSE << >>
<1>1. x \in Seq(Proper)
  OBVIOUS
<1>2. [i \in 1 .. Len(<<m>>) |-> IF <<m>>[i].kind = "App" THEN <<(<<m>>)[i]>>
                                                           ELSE << >>] = <<x>>
  OBVIOUS
<1> QED BY <1>1, <1>2, FlattenOne DEF OrdersIn

(* Messages that are no orders add nothing to the orders transmitted.      *)
LEMMA OrdersInNone ==
    ASSUME NEW msgs \in Seq(Proper), \A i \in 1..Len(msgs) : msgs[i].kind # "App"
    PROVE  OrdersIn(msgs) = << >>
<1> DEFINE parts == [i \in 1 .. Len(msgs) |-> IF msgs[i].kind = "App"
                                              THEN <<msgs[i]>> ELSE << >>]
<1>1. parts = [i \in 1 .. Len(msgs) |-> << >>]
  OBVIOUS
<1>2. << >> \in Seq({})
  OBVIOUS
<1>3. parts \in Seq(Seq({}))
  BY <1>1, <1>2
<1>4. FlattenSeq(parts) \in Seq({})
  BY <1>3, FlattenType
<1>5. \A q \in Seq({}) : q = << >>
  BY EmptySeq
<1> QED BY <1>4, <1>5 DEF OrdersIn

-----------------------------------------------------------------------------
(* The members of a session, and what an operation does to them.           *)

Switches == {"market", "enabled", "shuttingDown", "aborted", "responder",
             "draining", "greeting", "sentLogon", "receivedLogon",
             "sentLogout", "sentReset", "receivedReset"}

Fields == Switches \cup
          {"reading", "last", "sender", "target", "apps", "queue", "range",
           "testRequest", "received", "sent", "out", "delivered", "transmitted"}

(* r has the members of st, all but those of F with the same value.        *)
Frame(st, r, F) ==
    /\ DOMAIN st = Fields
    /\ DOMAIN r = Fields
    /\ \A f \in Fields \ F : r[f] = st[f]

(* What is left alone twice is left alone.                                 *)
LEMMA FrameTwice ==
    ASSUME NEW st, NEW r, NEW q, NEW F, NEW G,
           Frame(st, r, F), Frame(r, q, G)
    PROVE  Frame(st, q, F \cup G)
BY DEF Frame

(* A frame holds for more members as well.                                 *)
LEMMA FrameMore ==
    ASSUME NEW st, NEW r, NEW F, NEW G, Frame(st, r, F), F \subseteq G
    PROVE  Frame(st, r, G)
BY DEF Frame

Numbers == {"sender", "target", "apps", "delivered", "transmitted"}
Sent    == {"sender", "apps", "sent", "out", "transmitted"}
Links   == {"responder", "sentLogon", "receivedLogon", "aborted"}

(* SessionState::reset, as far as it goes.                                 *)
Resets(st, r) ==
    /\ Frame(st, r, Numbers)
    /\ r.sender = 1 /\ r.target = 1 /\ r.apps = {}
    /\ r.delivered = << >> /\ r.transmitted = << >>

(* reset numbers both directions from one and forgets the orders stored.   *)
LEMMA ResetEffect ==
    ASSUME NEW st, DOMAIN st = Fields
    PROVE  Resets(st, Reset(st))
BY DEF Reset, Resets, Frame, Fields, Switches, Numbers

(* Messages go to the socket, if there is one.                             *)
Writes(st, r, msgs) ==
    /\ Frame(st, r, {"sent", "out", "transmitted"})
    /\ r.sent = 0
    /\ IF st.responder THEN /\ r.out = st.out \o msgs
                            /\ r.transmitted = st.transmitted \o OrdersIn(msgs)
                       ELSE r.out = st.out /\ r.transmitted = st.transmitted

(* Write puts all of the messages on the socket, or none.                  *)
LEMMA WriteEffect ==
    ASSUME NEW st, DOMAIN st = Fields, NEW msgs
    PROVE  Writes(st, Write(st, msgs), msgs)
BY DEF Write, Writes, Frame, Fields, Switches

(* A message is stored under the next number, and written or not.          *)
Sends(st, r, m) ==
    /\ Frame(st, r, Sent)
    /\ r.sender = st.sender + 1 /\ r.sent = 0
    /\ r.apps = IF m.kind = "App" THEN st.apps \cup {st.sender} ELSE st.apps
    /\ IF st.responder /\ (m.kind \in Urgent \/ isLoggedOn(st))
       THEN /\ r.out = st.out \o <<m>>
            /\ r.transmitted = st.transmitted \o OrdersIn(<<m>>)
       ELSE r.out = st.out /\ r.transmitted = st.transmitted

(* sendRaw sends one message, which only a session that is logged on or an *)
(* administrative message gets to the socket.                              *)
LEMMA SendEffect ==
    ASSUME NEW st, DOMAIN st = Fields, NEW kind, NEW arg
    PROVE  Sends(st, sendRaw(st, kind, arg), Msg(kind, st.sender, FALSE, arg))
<1> DEFINE p == Persist(st, kind)
           m == Msg(kind, st.sender, FALSE, arg)
           w == Write(p, <<m>>)
<1>1. /\ Frame(st, p, {"sender", "apps", "sent"})
      /\ p.sender = st.sender + 1 /\ p.sent = 0
      /\ p.apps = IF kind = "App" THEN st.apps \cup {st.sender} ELSE st.apps
  BY DEF Persist, Frame, Fields, Switches
<1>2. /\ p.out = st.out /\ p.transmitted = st.transmitted
      /\ p.responder = st.responder /\ DOMAIN p = Fields
  BY <1>1 DEF Frame, Fields, Switches
<1>3. m.kind = kind
  BY DEF Msg
<1>4. Writes(p, w, <<m>>)
  BY <1>2, WriteEffect
<1>5. sendRaw(st, kind, arg) =
         IF kind \in Urgent \/ isLoggedOn(st) THEN w ELSE p
  BY DEF sendRaw, w, p, m
<1> HIDE DEF p, m, w
<1>6. w.sender = p.sender /\ w.apps = p.apps
  BY <1>4 DEF Writes, Frame, Fields, Switches
<1>7. Frame(st, p, Sent) /\ Frame(st, w, Sent)
  BY <1>1, <1>4 DEF Writes, Frame, Sent
<1>8. CASE kind \in Urgent \/ isLoggedOn(st)
  <2>1. Sends(st, w, m)
    BY <1>1, <1>2, <1>3, <1>4, <1>6, <1>7, <1>8 DEF Sends, Writes
  <2> QED BY <1>5, <1>8, <2>1 DEF m
<1>9. CASE ~(kind \in Urgent \/ isLoggedOn(st))
  <2>1. Sends(st, p, m)
    BY <1>1, <1>2, <1>3, <1>7, <1>9 DEF Sends
  <2> QED BY <1>5, <1>9, <2>1 DEF m
<1> QED BY <1>8, <1>9

(* The connection goes: outside shutdown the program ends, and otherwise   *)
(* the session forgets its numbers and what it had queued.                 *)
Disconnects(st, r) ==
    /\ Frame(st, r, Links \cup Numbers \cup
                    {"sentLogout", "sentReset", "receivedReset", "queue", "range"})
    /\ r.responder = FALSE /\ r.sentLogon = FALSE /\ r.receivedLogon = FALSE
    /\ IF (st.sentLogon \/ st.receivedLogon) /\ ~st.shuttingDown
       THEN r.aborted = TRUE /\ Frame(st, r, Links)
       ELSE /\ r.aborted = st.aborted
            /\ r.sentLogout = FALSE /\ r.sentReset = FALSE /\ r.receivedReset = FALSE
            /\ r.queue = {} /\ r.range = <<0, 0>>
            /\ r.sender = 1 /\ r.target = 1 /\ r.apps = {}
            /\ r.delivered = << >> /\ r.transmitted = << >>

(* disconnect does that, or aborts.                                        *)
LEMMA DisconnectEffect ==
    ASSUME NEW st, DOMAIN st = Fields
    PROVE  Disconnects(st, disconnect(st))
<1> USE DEF Frame, Fields, Switches, Links, Numbers
<1>1. CASE (st.sentLogon \/ st.receivedLogon) /\ ~st.shuttingDown
  BY <1>1 DEF disconnect, Disconnects
<1>2. CASE ~((st.sentLogon \/ st.receivedLogon) /\ ~st.shuttingDown)
  BY <1>2 DEF disconnect, Reset, Disconnects
<1> QED BY <1>1, <1>2

-----------------------------------------------------------------------------
(* The members have their types, and orders are written once.              *)

(* Switches, the place of the socket thread, numbers and ages.             *)
Typed(st) ==
    /\ \A f \in Switches : st[f] \in BOOLEAN
    /\ st.reading \in {"wait", "stream", "ended"}
    /\ st.sender \in Nat \ {0} /\ st.target \in Nat \ {0}
    /\ st.apps \subseteq 1 .. st.sender - 1
    /\ st.range \in Nat \X Nat /\ st.range[1] <= st.range[2] + 1
    /\ st.testRequest \in Nat
    /\ st.received \in 0 .. 3 * HeartBtInt /\ st.sent \in 0 .. HeartBtInt

(* The messages that the session holds.                                    *)
Carried(st) ==
    /\ st.last \in Seq(Proper) /\ Len(st.last) <= 1
    /\ st.queue \subseteq Proper
    /\ st.out \in Seq(Proper)

(* Orders on the socket have numbers that were used, each its own.         *)
Unique(st) ==
    /\ st.transmitted \in Seq(Proper)
    /\ \A i \in 1..Len(st.transmitted) : st.transmitted[i].seq < st.sender
    /\ \A i, j \in 1..Len(st.transmitted) :
          st.transmitted[i].seq = st.transmitted[j].seq => i = j

Sound(st) == DOMAIN st = Fields /\ Typed(st) /\ Carried(st) /\ Unique(st)

(* An operation that leaves the members of Carried alone, or of Unique.    *)
LEMMA FrameSound ==
    ASSUME NEW st, NEW r, NEW F, Frame(st, r, F)
    PROVE  /\ F \cap {"last", "queue", "out"} = {} /\ Carried(st) => Carried(r)
           /\ F \cap {"transmitted", "sender"} = {} /\ Unique(st) => Unique(r)
           /\ F \cap Switches = {} => \A f \in Switches : r[f] = st[f]
<1>1. ASSUME F \cap {"last", "queue", "out"} = {}
      PROVE  r.last = st.last /\ r.queue = st.queue /\ r.out = st.out
  BY <1>1 DEF Frame, Fields
<1>2. ASSUME F \cap {"transmitted", "sender"} = {}
      PROVE  r.transmitted = st.transmitted /\ r.sender = st.sender
  BY <1>2 DEF Frame, Fields
<1>3. ASSUME F \cap Switches = {} PROVE \A f \in Switches : r[f] = st[f]
  BY <1>3 DEF Frame, Fields
<1> QED BY <1>1, <1>2, <1>3 DEF Carried, Unique

(* A reset keeps the members in order.                                     *)
LEMMA ResetSound ==
    ASSUME NEW st, NEW r, Sound(st), Resets(st, r)
    PROVE  Sound(r)
<1>1. Frame(st, r, Numbers)
  BY DEF Resets
<1>2. /\ r.reading = st.reading /\ r.range = st.range
      /\ r.testRequest = st.testRequest /\ r.received = st.received
      /\ r.sent = st.sent /\ \A f \in Switches : r[f] = st[f]
      /\ DOMAIN r = Fields
  BY <1>1 DEF Frame, Fields, Switches, Numbers
<1>3. Typed(r)
  BY <1>2 DEF Sound, Typed, Resets
<1>4. Carried(r)
  BY <1>1, FrameSound DEF Sound, Numbers
<1>5. Unique(r)
  BY DEF Resets, Unique
<1> QED BY <1>2, <1>3, <1>4, <1>5 DEF Sound

(* What follows holds for orders and for other messages.                   *)
LEMMA OneMoreUnique ==
    ASSUME NEW st, NEW r, Unique(st), st.sender \in Nat,
           NEW m \in Proper, m.seq = st.sender, r.sender = st.sender + 1,
           \/ r.transmitted = st.transmitted
           \/ r.transmitted = st.transmitted \o OrdersIn(<<m>>)
    PROVE  Unique(r)
<1> DEFINE T == st.transmitted
<1>t. T \in Seq(Proper) /\ Len(T) \in Nat /\ \A i \in 1..Len(T) : T[i].seq \in Nat
  BY ProperType DEF Unique
<1>1. CASE r.transmitted = T
  BY <1>1, <1>t DEF Unique
<1>2. CASE r.transmitted = T \o <<m>>
  <2> DEFINE R == T \o <<m>>
  <2>1. /\ R \in Seq(Proper) /\ Len(R) = Len(T) + 1
        /\ \A i \in 1..Len(T) : R[i] = T[i]
        /\ R[Len(T) + 1] = m
    BY <1>t
  <2>2. \A i \in 1..Len(T) : T[i].seq < st.sender
    BY DEF Unique
  <2>3. \A i, j \in 1..Len(T) : T[i].seq = T[j].seq => i = j
    BY DEF Unique
  <2> HIDE DEF R, T
  <2>4. \A i \in 1..Len(R) : i \in 1..Len(T) \/ i = Len(T) + 1
    BY <1>t, <2>1
  <2>5. \A i \in 1..Len(R) : R[i].seq < st.sender + 1
    <3> SUFFICES ASSUME NEW i \in 1..Len(R) PROVE R[i].seq < st.sender + 1
      OBVIOUS
    <3>1. CASE i \in 1..Len(T)
      BY <1>t, <2>1, <2>2, <3>1
    <3>2. CASE i = Len(T) + 1
      BY <2>1, <3>2
    <3> QED BY <2>4, <3>1, <3>2
  <2>6. \A i, j \in 1..Len(R) : R[i].seq = R[j].seq => i = j
    BY <1>t, <2>1, <2>2, <2>3, <2>4
  <2> QED BY <1>2, <2>1, <2>5, <2>6 DEF Unique, R
<1>3. T \o << >> = T
  BY <1>t
<1> QED BY <1>1, <1>2, <1>3, OrdersInOne

(* A message stored under the next number, and perhaps written.            *)
LEMMA SendSound ==
    ASSUME NEW st, NEW r, Sound(st), NEW m \in Proper, m.seq = st.sender,
           Sends(st, r, m)
    PROVE  Sound(r)
<1>1. Frame(st, r, Sent)
  BY DEF Sends
<1>2. /\ r.reading = st.reading /\ r.range = st.range /\ r.target = st.target
      /\ r.testRequest = st.testRequest /\ r.received = st.received
      /\ \A f \in Switches : r[f] = st[f]
      /\ r.last = st.last /\ r.queue = st.queue
      /\ DOMAIN r = Fields
  BY <1>1 DEF Frame, Fields, Switches, Sent
<1>3. Typed(r)
  <2>1. r.sender = st.sender + 1 /\ r.sent = 0
    BY DEF Sends
  <2>2. r.apps \subseteq 1 .. r.sender - 1
    BY <2>1 DEF Sends, Sound, Typed
  <2>3. 0 \in 0..HeartBtInt
    BY TimesAssumption
  <2> QED BY <1>2, <2>1, <2>2, <2>3 DEF Sound, Typed
<1>4. Carried(r)
  <2>1. st.out \in Seq(Proper)
    BY DEF Sound, Carried
  <2>2. st.out \o <<m>> \in Seq(Proper)
    BY <2>1
  <2>3. r.out = st.out \/ r.out = st.out \o <<m>>
    BY DEF Sends
  <2>4. r.out \in Seq(Proper)
    BY <2>1, <2>2, <2>3, Zenon
  <2> QED BY <1>2, <2>4 DEF Sound, Carried
<1>5. Unique(r)
  BY OneMoreUnique DEF Sound, Typed, Sends
<1> QED BY <1>2, <1>3, <1>4, <1>5 DEF Sound

(* Messages written that are no orders.                                    *)
LEMMA WriteSound ==
    ASSUME NEW st, NEW r, Sound(st), NEW msgs \in Seq(Proper),
           \A i \in 1..Len(msgs) : msgs[i].kind # "App",
           Writes(st, r, msgs)
    PROVE  Sound(r)
<1>1. Frame(st, r, {"sent", "out", "transmitted"})
  BY DEF Writes
<1>2. /\ r.reading = st.reading /\ r.range = st.range /\ r.target = st.target
      /\ r.testRequest = st.testRequest /\ r.received = st.received
      /\ r.sender = st.sender /\ r.apps = st.apps
      /\ \A f \in Switches : r[f] = st[f]
      /\ r.last = st.last /\ r.queue = st.queue
      /\ DOMAIN r = Fields
  BY <1>1 DEF Frame, Fields, Switches
<1>3. Typed(r)
  <2>1. 0 \in 0..HeartBtInt
    BY TimesAssumption
  <2> QED BY <1>2, <2>1 DEF Sound, Typed, Writes
<1>4. Carried(r)
  <2>1. st.out \in Seq(Proper)
    BY DEF Sound, Carried
  <2>2. st.out \o msgs \in Seq(Proper)
    BY <2>1
  <2>3. r.out = st.out \/ r.out = st.out \o msgs
    BY DEF Writes
  <2>4. r.out \in Seq(Proper)
    BY <2>1, <2>2, <2>3, Zenon
  <2> QED BY <1>2, <2>4 DEF Sound, Carried
<1>5. r.transmitted = st.transmitted
  <2>1. st.transmitted \in Seq(Proper)
    BY DEF Sound, Unique
  <2>2. st.transmitted \o << >> = st.transmitted
    BY <2>1
  <2> QED BY <2>2, OrdersInNone DEF Writes
<1>6. Unique(r)
  BY <1>2, <1>5 DEF Sound, Unique
<1> QED BY <1>2, <1>3, <1>4, <1>6 DEF Sound

(* A session that has disconnected.                                        *)
LEMMA DisconnectSound ==
    ASSUME NEW st, NEW r, Sound(st), Disconnects(st, r)
    PROVE  Sound(r)
<1>1. /\ r.reading = st.reading
      /\ r.testRequest = st.testRequest /\ r.received = st.received
      /\ r.sent = st.sent /\ r.last = st.last /\ r.out = st.out
      /\ r.market = st.market /\ r.enabled = st.enabled
      /\ r.shuttingDown = st.shuttingDown
      /\ r.draining = st.draining /\ r.greeting = st.greeting
      /\ DOMAIN r = Fields
  BY DEF Disconnects, Frame, Fields, Switches, Links, Numbers
<1>2. r.responder = FALSE /\ r.sentLogon = FALSE /\ r.receivedLogon = FALSE
  BY DEF Disconnects
<1>3. CASE (st.sentLogon \/ st.receivedLogon) /\ ~st.shuttingDown
  <2>1. Frame(st, r, Links) /\ r.aborted = TRUE
    BY <1>3 DEF Disconnects
  <2>2. Carried(r) /\ Unique(r)
    BY <2>1, FrameSound DEF Sound, Links
  <2>3. /\ r.sender = st.sender /\ r.target = st.target /\ r.apps = st.apps
        /\ r.range = st.range
        /\ r.sentLogout = st.sentLogout /\ r.sentReset = st.sentReset
        /\ r.receivedReset = st.receivedReset
    BY <2>1 DEF Frame, Fields, Switches, Links
  <2>4. Typed(r)
    <3>1. \A f \in Switches : st[f] \in BOOLEAN
      BY DEF Sound, Typed
    <3>2. \A f \in Switches : r[f] \in BOOLEAN
      BY <1>1, <1>2, <2>1, <2>3, <3>1 DEF Switches
    <3> QED BY <1>1, <2>3, <3>2 DEF Sound, Typed
  <2> QED BY <1>1, <2>2, <2>4 DEF Sound
<1>4. CASE ~((st.sentLogon \/ st.receivedLogon) /\ ~st.shuttingDown)
  <2>1. /\ r.aborted = st.aborted
        /\ r.sentLogout = FALSE /\ r.sentReset = FALSE /\ r.receivedReset = FALSE
        /\ r.queue = {} /\ r.range = <<0, 0>>
        /\ r.sender = 1 /\ r.target = 1 /\ r.apps = {}
        /\ r.transmitted = << >>
    BY <1>4 DEF Disconnects
  <2>2. \A f \in Switches : r[f] \in BOOLEAN
    <3>1. \A f \in Switches : st[f] \in BOOLEAN
      BY DEF Sound, Typed
    <3> QED BY <1>1, <1>2, <2>1, <3>1 DEF Switches
  <2>3. Typed(r)
    BY <1>1, <2>1, <2>2 DEF Sound, Typed
  <2>4. Carried(r)
    BY <1>1, <2>1 DEF Sound, Carried
  <2>5. Unique(r)
    BY <2>1 DEF Unique
  <2> QED BY <1>1, <2>3, <2>4, <2>5 DEF Sound
<1> QED BY <1>3, <1>4

(* A change of switches, places, ages and expected numbers.                *)
LEMMA ChangeSound ==
    ASSUME NEW st, NEW r, Sound(st), NEW F, Frame(st, r, F),
           F \cap {"last", "queue", "out", "sender", "transmitted"} = {}, Typed(r)
    PROVE  Sound(r)
<1>1. Carried(r)
  BY FrameSound DEF Sound
<1>2. Unique(r)
  BY FrameSound DEF Sound
<1> QED BY <1>1, <1>2 DEF Sound, Frame

(* The number that comes next is a number to come.                         *)
LEMMA AdvanceSound ==
    ASSUME NEW st, Sound(st)
    PROVE  /\ Sound(Advance(st)) /\ Frame(st, Advance(st), {"target"})
           /\ Advance(st).target = st.target + 1
<1> DEFINE r == Advance(st)
<1>1. Frame(st, r, {"target"}) /\ r.target = st.target + 1
  BY DEF Advance, Sound, Frame, Fields
<1>2. Typed(r)
  BY <1>1 DEF Typed, Sound, Frame, Fields, Switches
<1> QED BY <1>1, <1>2, ChangeSound

(* sendRaw keeps the members in order.                                     *)
LEMMA SendRawSound ==
    ASSUME NEW st, Sound(st), NEW kind \in Kinds, NEW arg \in Nat,
           kind \in {"ResendRequest", "GapFill"} => arg # 0
    PROVE  /\ Sound(sendRaw(st, kind, arg))
           /\ Sends(st, sendRaw(st, kind, arg), Msg(kind, st.sender, FALSE, arg))
<1>1. DOMAIN st = Fields /\ st.sender \in Nat \ {0}
  BY DEF Sound, Typed
<1>2. Sends(st, sendRaw(st, kind, arg), Msg(kind, st.sender, FALSE, arg))
  BY <1>1, SendEffect
<1>3. /\ Msg(kind, st.sender, FALSE, arg) \in Proper
      /\ Msg(kind, st.sender, FALSE, arg).seq = st.sender
  BY <1>1 DEF Msg, Proper, Message
<1> QED BY <1>2, <1>3, SendSound

(* generateLogon begins a handshake: what it changes.                      *)
Greets(st, r) ==
    \E p : /\ Frame(st, p, {"received", "testRequest", "sentLogon", "sentReset"})
           /\ p.received = 0 /\ p.testRequest = 0
           /\ p.sentLogon = TRUE /\ p.sentReset = shouldSendReset(st)
           /\ Sends(p, r, Msg("Logon", st.sender, FALSE,
                              IF shouldSendReset(st) THEN 1 ELSE 0))

(* generateLogon keeps the members in order.                               *)
LEMMA GenerateLogonSound ==
    ASSUME NEW st, Sound(st)
    PROVE  Sound(generateLogon(st)) /\ Greets(st, generateLogon(st))
<1> DEFINE flag == shouldSendReset(st)
           p == [st EXCEPT !.received = 0, !.testRequest = 0,
                           !.sentLogon = TRUE, !.sentReset = flag]
           arg == IF flag THEN 1 ELSE 0
<1>0. flag \in BOOLEAN /\ arg \in Nat /\ "Logon" \in Kinds
  BY DEF shouldSendReset, Kinds
<1>1. /\ Frame(st, p, {"received", "testRequest", "sentLogon", "sentReset"})
      /\ p.received = 0 /\ p.testRequest = 0 /\ p.sentLogon = TRUE /\ p.sentReset = flag
  BY DEF Frame, Fields, Switches, Sound
<1>2. generateLogon(st) = sendRaw(p, "Logon", arg)
  BY DEF generateLogon
<1> HIDE DEF p, arg, flag
<1>3. p.sender = st.sender
  BY <1>1 DEF Frame, Fields
<1>4. Typed(p)
  <2>1. \A f \in Switches : p[f] \in BOOLEAN
    <3>1. \A f \in Switches : st[f] \in BOOLEAN
      BY DEF Sound, Typed
    <3>2. \A f \in Switches \ {"sentLogon", "sentReset"} : p[f] = st[f]
      BY <1>1 DEF Frame, Fields, Switches
    <3> QED BY <1>0, <1>1, <3>1, <3>2 DEF Switches
  <2>2. /\ p.reading = st.reading /\ p.target = st.target /\ p.apps = st.apps
        /\ p.range = st.range /\ p.sent = st.sent
    BY <1>1 DEF Frame, Fields
  <2> QED BY <1>1, <1>3, <2>1, <2>2, TimesAssumption DEF Sound, Typed
<1>5. Sound(p)
  BY <1>1, <1>4, ChangeSound
<1>6. /\ Sound(sendRaw(p, "Logon", arg))
      /\ Sends(p, sendRaw(p, "Logon", arg), Msg("Logon", p.sender, FALSE, arg))
  BY <1>0, <1>5, SendRawSound
<1> QED BY <1>1, <1>2, <1>3, <1>6 DEF Greets, arg, flag

(* No resend request asks for the counterparty's Logon.                    *)
Modest(out) == \A i \in 1..Len(out) : out[i].kind = "ResendRequest" => out[i].arg # 1

(* Modest messages stay so when modest ones follow.                        *)
LEMMA ModestJoin ==
    ASSUME NEW out \in Seq(Proper), NEW msgs \in Seq(Proper),
           Modest(out), Modest(msgs)
    PROVE  Modest(out \o msgs)
<1> DEFINE R == out \o msgs
<1>1. /\ Len(out) \in Nat /\ Len(msgs) \in Nat /\ Len(R) = Len(out) + Len(msgs)
      /\ \A i \in 1..Len(out) : R[i] = out[i]
      /\ \A i \in 1..Len(R) : i > Len(out) => R[i] = msgs[i - Len(out)]
  OBVIOUS
<1> HIDE DEF R
<1>2. ASSUME NEW i \in 1..Len(R), R[i].kind = "ResendRequest"
      PROVE  R[i].arg # 1
  <2>1. CASE i \in 1..Len(out)
    BY <1>1, <1>2, <2>1 DEF Modest
  <2>2. CASE i > Len(out)
    <3>1. i - Len(out) \in 1..Len(msgs) /\ R[i] = msgs[i - Len(out)]
      BY <1>1, <2>2
    <3> QED BY <1>2, <3>1 DEF Modest
  <2> QED BY <1>1, <2>1, <2>2
<1> QED BY <1>2 DEF Modest, R

(* What is sent is modest if the message is.                               *)
LEMMA ModestSend ==
    ASSUME NEW st, NEW r, Sound(st), NEW m \in Proper, Sends(st, r, m),
           Modest(st.out), m.kind = "ResendRequest" => m.arg # 1
    PROVE  Modest(r.out)
<1>1. st.out \in Seq(Proper) /\ <<m>> \in Seq(Proper)
  BY DEF Sound, Carried
<1>2. Modest(<<m>>)
  BY DEF Modest
<1>3. Modest(st.out \o <<m>>)
  BY <1>1, <1>2, ModestJoin
<1>4. r.out = st.out \/ r.out = st.out \o <<m>>
  BY DEF Sends
<1> QED BY <1>3, <1>4, Zenon

(* An answer of the session: a Reject, Heartbeat, TestRequest or Logout.   *)
LEMMA AnswerSound ==
    ASSUME NEW st, Sound(st),
           NEW kind \in {"Reject", "Heartbeat", "TestRequest", "Logout", "App"}
    PROVE  LET r == sendRaw(st, kind, 0)
           IN  /\ Sound(r) /\ Frame(st, r, Sent) /\ r.sent = 0
               /\ Modest(st.out) => Modest(r.out)
<1> DEFINE r == sendRaw(st, kind, 0)
           m == Msg(kind, st.sender, FALSE, 0)
<1>1. Sound(r) /\ Sends(st, r, m)
  BY SendRawSound DEF Kinds
<1>2. m \in Proper /\ m.kind # "ResendRequest"
  BY DEF Msg, Proper, Message, Kinds, Sound, Typed
<1> HIDE DEF r, m
<1>3. Modest(st.out) => Modest(r.out)
  BY <1>1, <1>2, ModestSend
<1> QED BY <1>1, <1>3 DEF Sends, r

(* generateLogout leaves everything but the sending alone.                 *)
LEMMA LogoutSound ==
    ASSUME NEW st, Sound(st)
    PROVE  LET r == generateLogout(st)
           IN  /\ Sound(r) /\ Frame(st, r, Sent \cup {"sentLogout"})
               /\ r.sentLogout = TRUE /\ r.sent = 0
               /\ Modest(st.out) => Modest(r.out)
<1> DEFINE p == sendRaw(st, "Logout", 0)
           r == generateLogout(st)
<1>1. /\ Sound(p) /\ Frame(st, p, Sent) /\ p.sent = 0
      /\ Modest(st.out) => Modest(p.out)
  BY AnswerSound
<1>3. r = [p EXCEPT !.sentLogout = TRUE]
  BY DEF generateLogout
<1> HIDE DEF p, r
<1>4. Frame(p, r, {"sentLogout"}) /\ r.sentLogout = TRUE
  BY <1>1, <1>3 DEF Frame, Fields, Switches, Sound
<1>5. Typed(r)
  BY <1>1, <1>4 DEF Typed, Sound, Frame, Fields, Switches
<1>6. Sound(r)
  BY <1>1, <1>4, <1>5, ChangeSound
<1>7. r.sent = p.sent /\ r.out = p.out
  BY <1>4 DEF Frame, Fields
<1>8. Frame(st, r, Sent \cup {"sentLogout"})
  BY <1>1, <1>4, FrameTwice
<1> QED BY <1>1, <1>4, <1>6, <1>7, <1>8 DEF r

(* A message that came too early is queued, and a resend may be asked for. *)
LEMMA TooHighSound ==
    ASSUME NEW st, Sound(st), NEW m \in Proper, m.seq > st.target
    PROVE  LET r == doTargetTooHigh(st, m)
           IN  /\ Sound(r) /\ Frame(st, r, Sent \cup {"queue", "range"})
               /\ r.queue = {q \in st.queue : q.seq # m.seq} \cup {m}
               /\ r.sender = st.sender \/ r.sender = st.sender + 1
               /\ st.range = <<0, 0>> => r.sender = st.sender + 1
               /\ ~st.responder => r.out = st.out
               /\ Modest(st.out) /\ st.target # 1 => Modest(r.out)
<1> DEFINE p == [st EXCEPT !.queue = {q \in @ : q.seq # m.seq} \cup {m}]
           w == sendRaw(p, "ResendRequest", st.target)
           r == generateResendRequest(p, m)
<1>0. m.seq \in Nat \ {0} /\ st.target \in Nat \ {0}
  BY ProperType DEF Sound, Typed
<1>1. /\ Frame(st, p, {"queue"})
      /\ p.queue = {q \in st.queue : q.seq # m.seq} \cup {m}
  BY DEF Frame, Fields, Sound
<1>2. doTargetTooHigh(st, m) =
         IF st.range # <<0, 0>> /\ m.seq >= st.range[1] THEN p ELSE r
  BY DEF doTargetTooHigh
<1> HIDE DEF p
<1>3. Sound(p)
  <2>1. Typed(p)
    BY <1>1 DEF Typed, Sound, Frame, Fields, Switches
  <2>2. Carried(p)
    <3>1. p.last = st.last /\ p.out = st.out
      BY <1>1 DEF Frame, Fields
    <3>2. p.queue \subseteq Proper
      BY <1>1 DEF Sound, Carried
    <3> QED BY <3>1, <3>2 DEF Sound, Carried
  <2>3. Unique(p)
    BY <1>1, FrameSound DEF Sound
  <2> QED BY <1>1, <2>1, <2>2, <2>3 DEF Sound, Frame
<1>4. /\ p.target = st.target /\ p.out = st.out /\ p.sender = st.sender
      /\ p.responder = st.responder /\ DOMAIN p = Fields
  BY <1>1 DEF Frame, Fields, Switches
<1>5. Sound(w) /\ Sends(p, w, Msg("ResendRequest", p.sender, FALSE, st.target))
  BY <1>0, <1>3, SendRawSound DEF Kinds
<1>6. r = [w EXCEPT !.range = <<st.target, m.seq - 1>>]
  BY <1>4 DEF generateResendRequest
<1> HIDE DEF w, r
<1>7. Frame(w, r, {"range"}) /\ r.range = <<st.target, m.seq - 1>>
  BY <1>5, <1>6 DEF Frame, Fields, Sound
<1>8. Sound(r)
  <2>1. m.seq - 1 \in Nat /\ st.target <= m.seq - 1 + 1
    BY <1>0
  <2>2. /\ r.range \in Nat \X Nat
        /\ r.range[1] <= r.range[2] + 1
    BY <1>0, <1>7, <2>1
  <2>3. /\ r.reading = w.reading /\ r.sender = w.sender /\ r.target = w.target
        /\ r.apps = w.apps /\ r.testRequest = w.testRequest
        /\ r.received = w.received /\ r.sent = w.sent
        /\ \A f \in Switches : r[f] = w[f]
    BY <1>7 DEF Frame, Fields, Switches
  <2>4. Typed(r)
    BY <1>5, <2>2, <2>3 DEF Typed, Sound
  <2> QED BY <1>5, <1>7, <2>4, ChangeSound
<1>9. /\ r.queue = p.queue /\ r.out = w.out
      /\ r.sender = st.sender + 1
  <2>1. w.sender = p.sender + 1 /\ Frame(p, w, Sent)
    BY <1>5 DEF Sends
  <2> QED BY <1>4, <1>7, <2>1 DEF Frame, Fields, Sent
<1>10. Frame(st, p, Sent \cup {"queue", "range"})
  BY <1>1, FrameMore
<1>11. Frame(st, r, Sent \cup {"queue", "range"})
  <2>1. Frame(p, w, Sent)
    BY <1>5 DEF Sends
  <2> QED BY <1>1, <1>7, <2>1 DEF Frame
<1>12. ~st.responder => r.out = st.out
  BY <1>4, <1>5, <1>9 DEF Sends
<1>13. Modest(st.out) /\ st.target # 1 => Modest(r.out)
  <2> DEFINE q == Msg("ResendRequest", p.sender, FALSE, st.target)
  <2>1. q \in Proper /\ q.arg = st.target
    BY <1>0, <1>3 DEF Msg, Proper, Message, Kinds, Sound, Typed
  <2> HIDE DEF q
  <2>2. Sends(p, w, q)
    BY <1>5 DEF q
  <2> QED BY <1>3, <1>4, <1>9, <2>1, <2>2, ModestSend
<1>14. CASE st.range # <<0, 0>> /\ m.seq >= st.range[1]
  <2>1. doTargetTooHigh(st, m) = p
    BY <1>2, <1>14
  <2> QED BY <1>1, <1>3, <1>4, <1>10, <1>14, <2>1
<1>15. CASE ~(st.range # <<0, 0>> /\ m.seq >= st.range[1])
  <2>1. doTargetTooHigh(st, m) = r
    BY <1>2, <1>15
  <2> QED BY <1>1, <1>8, <1>9, <1>11, <1>12, <1>13, <2>1
<1> QED BY <1>14, <1>15

(* A rejected message counts as received if its turn had come.             *)
LEMMA RejectSound ==
    ASSUME NEW st, Sound(st), NEW m \in Proper
    PROVE  LET r == generateReject(st, m)
           IN  /\ Sound(r) /\ Frame(st, r, Sent \cup {"target"})
               /\ r.target = IF /\ m.kind \notin {"Logon", "SequenceReset", "GapFill"}
                                /\ m.seq = st.target
                             THEN st.target + 1 ELSE st.target
               /\ ~st.receivedLogon => r.out = st.out /\ r.sender = st.sender
               /\ Modest(st.out) => Modest(r.out)
<1> DEFINE turn == /\ m.kind \notin {"Logon", "SequenceReset", "GapFill"}
                   /\ m.seq = st.target
           p == IF turn THEN [st EXCEPT !.target = @ + 1] ELSE st
           w == sendRaw(p, "Reject", 0)
           u == [p EXCEPT !.sent = 0]
<1>1. /\ Frame(st, p, {"target"})
      /\ p.target = IF turn THEN st.target + 1 ELSE st.target
  BY DEF Frame, Fields, Sound
<1>2. generateReject(st, m) = IF st.receivedLogon THEN w ELSE u
  BY DEF generateReject
<1> HIDE DEF p, turn
<1>3. Sound(p)
  <2>1. st.target + 1 \in Nat \ {0} /\ st.target \in Nat \ {0}
    BY DEF Sound, Typed
  <2>2. p.target \in Nat \ {0}
    BY <1>1, <2>1
  <2>3. Typed(p)
    BY <1>1, <2>2 DEF Typed, Sound, Frame, Fields, Switches
  <2> QED BY <1>1, <2>3, ChangeSound
<1>4. /\ Sound(w) /\ Frame(p, w, Sent)
      /\ Modest(p.out) => Modest(w.out)
  BY <1>3, AnswerSound
<1>5. Frame(p, u, {"sent"}) /\ u.sent = 0
  BY <1>3 DEF Frame, Fields, Sound
<1> HIDE DEF w, u
<1>6. Sound(u)
  <2>1. 0 \in 0..HeartBtInt
    BY TimesAssumption
  <2>2. Typed(u)
    BY <1>3, <1>5, <2>1 DEF Typed, Sound, Frame, Fields, Switches
  <2> QED BY <1>3, <1>5, <2>2, ChangeSound
<1>7. p.out = st.out /\ u.out = p.out /\ p.sender = st.sender /\ u.sender = p.sender
  BY <1>1, <1>5 DEF Frame, Fields
<1>8. w.target = p.target /\ u.target = p.target
  BY <1>4, <1>5 DEF Frame, Fields, Sent
<1>9. Frame(st, w, Sent \cup {"target"})
  BY <1>1, <1>4 DEF Frame
<1>10. Frame(st, u, Sent \cup {"target"})
  BY <1>1, <1>5 DEF Frame, Sent
<1>11. CASE st.receivedLogon
  <2>1. generateReject(st, m) = w
    BY <1>2, <1>11
  <2> QED BY <1>1, <1>4, <1>7, <1>8, <1>9, <1>11, <2>1 DEF turn
<1>12. CASE ~st.receivedLogon
  <2>1. generateReject(st, m) = u
    BY <1>2, <1>12
  <2> QED BY <1>1, <1>6, <1>7, <1>8, <1>10, <1>12, <2>1 DEF turn
<1> QED BY <1>11, <1>12

(* What is retransmitted are gap fills alone: toApp refuses orders.        *)
LEMMA RetransmitsAreGapFills ==
    ASSUME NEW apps, NEW b \in Nat \ {0}, NEW e \in Nat
    PROVE  LET msgs == generateRetransmits(apps, b, e)
           IN  /\ msgs \in Seq(Proper)
               /\ \A i \in 1..Len(msgs) : msgs[i].kind = "GapFill"
<1> DEFINE fill(n) == Msg("GapFill", n, TRUE, e + 1)
           G == {m \in Proper : m.kind = "GapFill"}
           part(n) == IF n = b THEN <<fill(n)>> ELSE << >>
           parts == [i \in 1 .. e - b + 1 |-> part(b + i - 1)]
           again == {n \in apps : toApp(Msg("App", n, TRUE, 0))}
<1>1. again = {}
  BY DEF toApp, Msg
<1>2. fill(b) \in G
  BY DEF Msg, Proper, Message, Kinds
<1>3. Min({} \cup {e + 1}) = e + 1
  BY DEF Min
<1>4. generateRetransmits(apps, b, e) =
        IF b > e THEN <<fill(b)>> ELSE FlattenSeq(parts)
  <2>1. \A n \in Nat : (again \cap n .. e) \cup {e + 1} = {} \cup {e + 1}
    BY <1>1
  <2> QED BY <1>1, <1>3, <2>1 DEF generateRetransmits, Repeated
<1> HIDE DEF G, fill
<1>5. b <= e => parts \in Seq(Seq(G))
  <2>1. <<fill(b)>> \in Seq(G) /\ << >> \in Seq(G)
    BY <1>2
  <2> DEFINE P == Seq(G)
  <2> HIDE DEF P
  <2>2. \A n : part(n) \in P
    BY <2>1 DEF P
  <2> HIDE DEF part
  <2>3. b <= e => e - b + 1 \in Nat
    OBVIOUS
  <2>4. b <= e => parts \in Seq(P)
    BY <2>2, <2>3
  <2> QED BY <2>4 DEF P
<1>6. generateRetransmits(apps, b, e) \in Seq(G)
  <2>1. CASE b > e
    BY <1>2, <1>4, <2>1
  <2>2. CASE b <= e
    <3> HIDE DEF parts
    <3>1. FlattenSeq(parts) \in Seq(G)
      BY <1>5, <2>2, FlattenType
    <3>2. generateRetransmits(apps, b, e) = FlattenSeq(parts)
      BY <1>4, <2>2
    <3> QED BY <3>1, <3>2, Zenon
  <2> QED BY <2>1, <2>2
<1> QED BY <1>6 DEF G

(* A message in turn, or one whose turn does not matter, is taken: what    *)
(* verify changes then.                                                    *)
Takes(st, r, m, checked) ==
    /\ Frame(st, r, {"range", "received", "testRequest", "aborted", "delivered"})
    /\ r.range = IF checked /\ m.seq >= st.range[2] THEN <<0, 0>> ELSE st.range
    /\ r.received = 0 /\ r.testRequest = 0
    /\ r.aborted = (m.kind = "Reject")
    /\ r.delivered = IF m.kind = "App" THEN Append(st.delivered, m.seq)
                     ELSE st.delivered

Verifies(st, m, high, low, v) ==
    \/ /\ ~validLogonState(st, m)
       /\ v.ok = FALSE /\ v.st = disconnect(st)
    \/ /\ validLogonState(st, m) /\ high /\ m.seq > st.target
       /\ v.ok = FALSE /\ v.st = doTargetTooHigh(st, m)
    \/ /\ validLogonState(st, m) /\ low /\ m.seq < st.target
       /\ v.ok = FALSE
       /\ v.st = IF m.poss THEN st ELSE disconnect(generateLogout(st))
    \/ /\ validLogonState(st, m)
       /\ ~(high /\ m.seq > st.target) /\ ~(low /\ m.seq < st.target)
       /\ v.ok = (m.kind # "Reject")
       /\ Sound(v.st) /\ Takes(st, v.st, m, high \/ low)

(* verify disconnects, queues, drops or takes a message.                   *)
LEMMA VerifyCases ==
    ASSUME NEW st, Sound(st), NEW m \in Proper,
           NEW high \in BOOLEAN, NEW low \in BOOLEAN
    PROVE  Verifies(st, m, high, low, verify(st, m, high, low))
<1> DEFINE v == verify(st, m, high, low)
           t == [st EXCEPT
                    !.range = IF (high \/ low) /\ m.seq >= @[2]
                              THEN <<0, 0>> ELSE @,
                    !.received = 0, !.testRequest = 0,
                    !.aborted = m.kind = "Reject",
                    !.delivered = IF m.kind = "App" THEN Append(@, m.seq) ELSE @]
<1>1. Takes(st, t, m, high \/ low)
  BY DEF Takes, Frame, Fields, Switches, Sound
<1>2. v = IF ~validLogonState(st, m)
          THEN [ok |-> FALSE, st |-> disconnect(st)]
          ELSE IF high /\ m.seq > st.target
          THEN [ok |-> FALSE, st |-> doTargetTooHigh(st, m)]
          ELSE IF low /\ m.seq < st.target
          THEN [ok |-> FALSE, st |-> doTargetTooLow(st, m)]
          ELSE [ok |-> m.kind # "Reject", st |-> t]
  BY DEF verify
<1> HIDE DEF t
<1>3. Sound(t)
  <2>1. Frame(st, t, {"range", "received", "testRequest", "aborted", "delivered"})
    BY <1>1 DEF Takes
  <2>2. /\ t.reading = st.reading /\ t.sender = st.sender /\ t.target = st.target
        /\ t.apps = st.apps /\ t.sent = st.sent
    BY <2>1 DEF Frame, Fields
  <2>3. t.received \in 0 .. 3 * HeartBtInt /\ t.testRequest \in Nat
    BY <1>1, TimesAssumption DEF Takes
  <2>4. t.range \in Nat \X Nat /\ t.range[1] <= t.range[2] + 1
    BY <1>1 DEF Takes, Sound, Typed
  <2>5. \A f \in Switches : t[f] \in BOOLEAN
    <3>1. \A f \in Switches : st[f] \in BOOLEAN
      BY DEF Sound, Typed
    <3>2. \A f \in Switches \ {"aborted"} : t[f] = st[f]
      BY <2>1 DEF Frame, Fields, Switches
    <3>3. t.aborted \in BOOLEAN
      BY <1>1, Zenon DEF Takes
    <3> QED BY <3>1, <3>2, <3>3 DEF Switches
  <2>6. Typed(t)
    BY <2>2, <2>3, <2>4, <2>5 DEF Sound, Typed
  <2> QED BY <2>1, <2>6, ChangeSound
<1> HIDE DEF v
<1> SUFFICES Verifies(st, m, high, low, v)
  BY DEF v
<1>4. CASE ~validLogonState(st, m)
  <2>1. v.ok = FALSE /\ v.st = disconnect(st)
    BY <1>2, <1>4
  <2> QED BY <1>4, <2>1 DEF Verifies
<1>5. CASE validLogonState(st, m) /\ high /\ m.seq > st.target
  <2>1. v.ok = FALSE /\ v.st = doTargetTooHigh(st, m)
    BY <1>2, <1>5
  <2> QED BY <1>5, <2>1 DEF Verifies
<1>6. CASE /\ validLogonState(st, m) /\ low /\ m.seq < st.target
           /\ ~(high /\ m.seq > st.target)
  <2>1. v.ok = FALSE /\ v.st = doTargetTooLow(st, m)
    BY <1>2, <1>6
  <2> QED BY <1>6, <2>1 DEF Verifies, doTargetTooLow
<1>7. CASE /\ validLogonState(st, m)
           /\ ~(high /\ m.seq > st.target) /\ ~(low /\ m.seq < st.target)
  <2>1. v = [ok |-> m.kind # "Reject", st |-> t]
    BY <1>2, <1>7
  <2>2. v.st = t /\ v.ok = (m.kind # "Reject")
    BY <2>1
  <2> QED BY <1>1, <1>3, <1>7, <2>2 DEF Verifies
<1> QED BY <1>4, <1>5, <1>6, <1>7

(* disconnect keeps the members in order.                                  *)
LEMMA LeaveSound ==
    ASSUME NEW st, Sound(st)
    PROVE  Sound(disconnect(st)) /\ Disconnects(st, disconnect(st))
BY DisconnectEffect, DisconnectSound DEF Sound

(* A jump of the expected number.                                          *)
LEMMA JumpSound ==
    ASSUME NEW st, Sound(st), NEW n \in Nat \ {0}
    PROVE  LET r == [st EXCEPT !.target = n]
           IN  Sound(r) /\ Frame(st, r, {"target"}) /\ r.target = n
<1> DEFINE r == [st EXCEPT !.target = n]
<1>1. Frame(st, r, {"target"}) /\ r.target = n
  BY DEF Sound, Frame, Fields
<1>2. Typed(r)
  BY <1>1 DEF Typed, Sound, Frame, Fields, Switches
<1> QED BY <1>1, <1>2, ChangeSound

(* Resend requests, answered with gap fills.                               *)
LEMMA ResendSound ==
    ASSUME NEW st, Sound(st), NEW m \in Proper, m.kind = "ResendRequest"
    PROVE  LET msgs == generateRetransmits(st.apps, m.arg, st.sender - 1)
               r == Write(st, msgs)
           IN  /\ Sound(r) /\ Frame(st, r, {"sent", "out", "transmitted"})
               /\ Modest(st.out) => Modest(r.out)
<1> DEFINE msgs == generateRetransmits(st.apps, m.arg, st.sender - 1)
           r == Write(st, msgs)
<1>1. m.arg \in Nat \ {0} /\ st.sender - 1 \in Nat
  BY ProperType DEF Sound, Typed
<1>2. msgs \in Seq(Proper) /\ \A i \in 1..Len(msgs) : msgs[i].kind = "GapFill"
  BY <1>1, RetransmitsAreGapFills
<1> HIDE DEF msgs
<1>3. Writes(st, r, msgs)
  BY WriteEffect DEF Sound
<1> HIDE DEF r
<1>4. \A i \in 1..Len(msgs) : msgs[i].kind # "App"
  BY <1>2
<1>5. Sound(r)
  BY <1>2, <1>3, <1>4, WriteSound
<1>6. Modest(st.out) => Modest(r.out)
  <2>1. st.out \in Seq(Proper)
    BY DEF Sound, Carried
  <2>2. Modest(msgs)
    BY <1>2 DEF Modest
  <2>3. Modest(st.out) => Modest(st.out \o msgs)
    BY <1>2, <2>1, <2>2, ModestJoin
  <2>4. r.out = st.out \/ r.out = st.out \o msgs
    BY <1>3 DEF Writes
  <2> QED BY <2>3, <2>4, Zenon
<1> QED BY <1>3, <1>5, <1>6 DEF Writes, r, msgs

(* A change of switches alone.                                             *)
LEMMA SwitchSound ==
    ASSUME NEW st, Sound(st), NEW r, NEW F \in SUBSET Switches, Frame(st, r, F),
           \A f \in F : r[f] \in BOOLEAN
    PROVE  Sound(r)
<1>1. \A f \in Switches : r[f] \in BOOLEAN
  BY DEF Sound, Typed, Frame, Fields
<1>2. /\ r.reading = st.reading /\ r.sender = st.sender /\ r.target = st.target
      /\ r.apps = st.apps /\ r.testRequest = st.testRequest
      /\ r.received = st.received /\ r.sent = st.sent /\ r.range = st.range
  BY DEF Frame, Fields, Switches
<1>3. Typed(r)
  BY <1>1, <1>2 DEF Sound, Typed
<1>4. F \cap {"last", "queue", "out", "sender", "transmitted"} = {}
  BY DEF Switches
<1> QED BY <1>3, <1>4, ChangeSound

(* A Logon by which the session is logged on.                              *)
LoggedOn(st, r, m) ==
    /\ Frame(st, r, Sent \cup Numbers \cup
                    {"range", "received", "testRequest", "aborted",
                     "sentLogon", "receivedLogon", "sentReset",
                     "receivedReset", "greeting"})
    /\ r.sentLogon = TRUE /\ r.receivedLogon = TRUE
    /\ r.sentReset = FALSE /\ r.receivedReset = FALSE
    /\ r.aborted = FALSE /\ r.received = 0
    /\ r.target = 2
    /\ r.delivered = IF st.sentReset THEN st.delivered ELSE << >>
    /\ Modest(st.out) => Modest(r.out)

(* nextLogon, for the Logon a counterparty may answer with.                *)
LEMMA LogonSound ==
    ASSUME NEW st, Sound(st), NEW m \in Proper, m.kind = "Logon",
           m.seq = 1, m.arg = 1, ~m.poss,
           st.sentLogon, st.sentReset => st.target = 1, st.enabled
    PROVE  Sound(nextLogon(st, m)) /\ LoggedOn(st, nextLogon(st, m), m)
<1> DEFINE st0 == [st EXCEPT !.receivedReset = TRUE]
           st1 == IF st.sentReset THEN st0 ELSE Reset(st0)
           v   == verify(st1, m, FALSE, TRUE)
           st2 == [v.st EXCEPT !.receivedLogon = TRUE]
           w   == sendRaw(st2, "Logon", 1)
           w1  == [w EXCEPT !.sentLogon = TRUE]
           st3 == IF st.sentReset THEN st2 ELSE w1
           st4 == [st3 EXCEPT !.sentReset = FALSE, !.receivedReset = FALSE,
                              !.greeting = TRUE]
<1>1. Sound(st0) /\ Frame(st, st0, {"receivedReset"}) /\ st0.receivedReset = TRUE
  <2>1. Frame(st, st0, {"receivedReset"}) /\ st0.receivedReset = TRUE
    BY DEF Frame, Fields, Switches, Sound
  <2> HIDE DEF st0
  <2>2. {"receivedReset"} \in SUBSET Switches /\ \A f \in {"receivedReset"} : st0[f] \in BOOLEAN
    BY <2>1 DEF Switches
  <2> QED BY <2>1, <2>2, SwitchSound
<1>0. nextLogon(st, m) =
        IF ~v.ok THEN v.st
        ELSE IF m.seq > st4.target /\ ~TRUE THEN doTargetTooHigh(st4, m)
        ELSE Advance(st4)
  <2>1. (m.arg = 1) = TRUE
    OBVIOUS
  <2>2. (m.arg = 1 /\ ~st.sentReset) = ~st.sentReset
    OBVIOUS
  <2> QED BY <2>1, <2>2 DEF nextLogon
<1> HIDE DEF st0
<1>2. /\ Sound(st1) /\ Frame(st, st1, Numbers \cup {"receivedReset"})
      /\ st1.receivedReset = TRUE /\ st1.target = 1
      /\ st1.delivered = IF st.sentReset THEN st.delivered ELSE << >>
  <2>1. CASE st.sentReset
    <3>1. st0.target = st.target /\ st0.delivered = st.delivered
      BY <1>1 DEF Frame, Fields
    <3>2. Frame(st, st0, Numbers \cup {"receivedReset"})
      BY <1>1, FrameMore
    <3> QED BY <1>1, <2>1, <3>1, <3>2
  <2>2. CASE ~st.sentReset
    <3> DEFINE q == Reset(st0)
    <3>1. Sound(q) /\ Resets(st0, q)
      BY <1>1, ResetEffect, ResetSound DEF Sound
    <3>2. st1 = q
      BY <2>2
    <3> HIDE DEF q, st1
    <3>3. q.receivedReset = TRUE
      BY <1>1, <3>1 DEF Resets, Frame, Fields, Switches, Numbers
    <3>4. Frame(st, q, Numbers \cup {"receivedReset"})
      BY <1>1, <3>1 DEF Resets, Frame
    <3> QED BY <2>2, <3>1, <3>2, <3>3, <3>4 DEF Resets
  <2> QED BY <2>1, <2>2
<1> HIDE DEF st1
<1>3. /\ v.ok = TRUE /\ Sound(v.st) /\ Takes(st1, v.st, m, TRUE)
  <2>1. Verifies(st1, m, FALSE, TRUE, v)
    BY <1>2, VerifyCases
  <2>2. validLogonState(st1, m)
    BY <1>2 DEF validLogonState
  <2>3. ~(m.seq < st1.target) /\ m.kind # "Reject"
    BY <1>2
  <2> HIDE DEF v
  <2> QED BY <2>1, <2>2, <2>3 DEF Verifies
<1> HIDE DEF v
<1>4. /\ Sound(st2) /\ Frame(v.st, st2, {"receivedLogon"}) /\ st2.receivedLogon = TRUE
  <2>1. Frame(v.st, st2, {"receivedLogon"}) /\ st2.receivedLogon = TRUE
    BY <1>3 DEF Frame, Fields, Switches, Sound
  <2> HIDE DEF st2
  <2>2. {"receivedLogon"} \in SUBSET Switches /\ \A f \in {"receivedLogon"} : st2[f] \in BOOLEAN
    BY <2>1 DEF Switches
  <2> QED BY <1>3, <2>1, <2>2, SwitchSound
<1> HIDE DEF st2
<1>5. /\ Sound(w) /\ Sends(st2, w, Msg("Logon", st2.sender, FALSE, 1))
  BY <1>4, SendRawSound DEF Kinds
<1> HIDE DEF w
<1>6. Sound(w1) /\ Frame(w, w1, {"sentLogon"}) /\ w1.sentLogon = TRUE
  <2>1. Frame(w, w1, {"sentLogon"}) /\ w1.sentLogon = TRUE
    BY <1>5 DEF Frame, Fields, Switches, Sound
  <2> HIDE DEF w1
  <2>2. {"sentLogon"} \in SUBSET Switches /\ \A f \in {"sentLogon"} : w1[f] \in BOOLEAN
    BY <2>1 DEF Switches
  <2> QED BY <1>5, <2>1, <2>2, SwitchSound
<1> HIDE DEF w1
<1>7. /\ Sound(st3) /\ Frame(st2, st3, Sent \cup {"sentLogon"})
      /\ st3.sentLogon = TRUE
      /\ Modest(st2.out) => Modest(st3.out)
  <2>1. CASE st.sentReset
    <3>1. st2.sentLogon = TRUE
      <4>1. st2.sentLogon = st.sentLogon
        BY <1>2, <1>3, <1>4 DEF Takes, Frame, Fields, Switches, Numbers
      <4>2. st.sentLogon \in BOOLEAN
        BY DEF Sound, Typed, Switches
      <4> QED BY <4>1, <4>2
    <3>2. Frame(st2, st2, Sent \cup {"sentLogon"})
      BY <1>4 DEF Frame
    <3> QED BY <1>4, <2>1, <3>1, <3>2
  <2>2. CASE ~st.sentReset
    <3>1. st3 = w1
      BY <2>2
    <3> HIDE DEF st3
    <3>2. Frame(st2, w1, Sent \cup {"sentLogon"})
      BY <1>5, <1>6, FrameTwice DEF Sends
    <3>3. w1.out = w.out
      BY <1>6 DEF Frame, Fields, Switches
    <3>4. Modest(st2.out) => Modest(w.out)
      <4> DEFINE q == Msg("Logon", st2.sender, FALSE, 1)
      <4>1. q \in Proper /\ q.kind # "ResendRequest"
        BY <1>4 DEF Msg, Proper, Message, Kinds, Sound, Typed
      <4>2. Sends(st2, w, q)
        BY <1>5
      <4> HIDE DEF q
      <4> QED BY <1>4, <4>1, <4>2, ModestSend
    <3> QED BY <1>6, <3>1, <3>2, <3>3, <3>4
  <2> QED BY <2>1, <2>2
<1> HIDE DEF st3
<1>8. /\ Sound(st4) /\ Frame(st3, st4, {"sentReset", "receivedReset", "greeting"})
      /\ st4.sentReset = FALSE /\ st4.receivedReset = FALSE /\ st4.greeting = TRUE
  <2>1. /\ Frame(st3, st4, {"sentReset", "receivedReset", "greeting"})
        /\ st4.sentReset = FALSE /\ st4.receivedReset = FALSE /\ st4.greeting = TRUE
    BY <1>7 DEF Frame, Fields, Switches, Sound
  <2> DEFINE F == {"sentReset", "receivedReset", "greeting"}
  <2> HIDE DEF st4
  <2>2. F \in SUBSET Switches /\ \A f \in F : st4[f] \in BOOLEAN
    BY <2>1 DEF Switches
  <2> QED BY <1>7, <2>1, <2>2, SwitchSound
<1> HIDE DEF st4
<1> DEFINE r == Advance(st4)
<1>9. Sound(r) /\ Frame(st4, r, {"target"}) /\ r.target = st4.target + 1
  BY <1>8, AdvanceSound
<1>10. nextLogon(st, m) = r
  BY <1>0, <1>3
<1> HIDE DEF r
<1>11. /\ r.sentLogon = TRUE /\ r.sentReset = FALSE /\ r.receivedReset = FALSE
  BY <1>7, <1>8, <1>9 DEF Frame, Fields, Switches
<1>12. r.receivedLogon = TRUE /\ r.aborted = v.st.aborted
       /\ r.received = v.st.received /\ r.delivered = v.st.delivered
       /\ st4.target = v.st.target
  BY <1>4, <1>7, <1>8, <1>9 DEF Frame, Fields, Switches, Sent
<1>13. /\ v.st.aborted = FALSE /\ v.st.received = 0
       /\ v.st.delivered = st1.delivered /\ v.st.target = 1 /\ v.st.out = st.out
  BY <1>2, <1>3 DEF Takes, Frame, Fields, Switches, Numbers
<1>14. Modest(st.out) => Modest(r.out)
  BY <1>4, <1>7, <1>8, <1>9, <1>13 DEF Frame, Fields, Switches
<1>15. Frame(st, r, Sent \cup Numbers \cup
                    {"range", "received", "testRequest", "aborted",
                     "sentLogon", "receivedLogon", "sentReset",
                     "receivedReset", "greeting"})
  <2>1. Frame(st, v.st, Numbers \cup {"range", "received", "testRequest", "aborted",
                                      "receivedReset"})
    BY <1>2, <1>3 DEF Takes, Frame, Numbers
  <2>2. Frame(v.st, st3, Sent \cup {"sentLogon", "receivedLogon"})
    BY <1>4, <1>7 DEF Frame
  <2>3. Frame(st3, r, {"sentReset", "receivedReset", "greeting", "target"})
    BY <1>8, <1>9 DEF Frame
  <2> QED BY <2>1, <2>2, <2>3 DEF Frame, Numbers
<1>16. LoggedOn(st, r, m)
  <2>1. r.target = 2
    BY <1>9, <1>12, <1>13
  <2>2. r.delivered = IF st.sentReset THEN st.delivered ELSE << >>
    BY <1>2, <1>12, <1>13
  <2> QED BY <1>11, <1>12, <1>13, <1>14, <1>15, <2>1, <2>2 DEF LoggedOn
<1> QED BY <1>9, <1>10, <1>16

-----------------------------------------------------------------------------
(* What handling a message comes to.                                       *)

(* What no handler of a message changes, but a Logon that is accepted.     *)
Aside == {"market", "enabled", "shuttingDown", "reading", "last", "draining",
          "greeting"}

(* The session has left its connection: by an abort, or as it was before   *)
(* there was one.                                                          *)
Left(st, r) ==
    /\ Frame(st, r, Fields \ Aside)
    /\ r.responder = FALSE /\ r.sentLogon = FALSE /\ r.receivedLogon = FALSE
    /\ \/ /\ r.aborted = TRUE /\ st.shuttingDown = FALSE
          /\ r.delivered \in {st.delivered, << >>}
       \/ /\ r.aborted = st.aborted
          /\ r.sentLogout = FALSE /\ r.sentReset = FALSE /\ r.receivedReset = FALSE
          /\ r.queue = {} /\ r.range = <<0, 0>>
          /\ r.target = 1 /\ r.delivered = << >>
    /\ Modest(st.out) => Modest(r.out)

(* Leaving after something else was done.                                  *)
LEMMA LeftVia ==
    ASSUME NEW st, NEW p, Sound(p), Frame(st, p, Fields \ Aside),
           p.aborted = st.aborted, p.delivered \in {st.delivered, << >>},
           Modest(st.out) => Modest(p.out)
    PROVE  Sound(disconnect(p)) /\ Left(st, disconnect(p))
<1> DEFINE r == disconnect(p)
<1>1. Sound(r) /\ Disconnects(p, r)
  BY LeaveSound
<1> HIDE DEF r
<1>2. Frame(p, r, Fields \ Aside) /\ r.out = p.out
  BY <1>1 DEF Disconnects, Frame, Fields, Aside, Switches, Links, Numbers
<1>3. Frame(st, r, Fields \ Aside)
  BY <1>2, FrameTwice DEF Frame
<1>4. CASE (p.sentLogon \/ p.receivedLogon) /\ ~p.shuttingDown
  <2>1. r.aborted = TRUE /\ r.delivered = p.delivered
    BY <1>1, <1>4 DEF Disconnects, Frame, Fields, Switches, Links
  <2>2. p.shuttingDown = st.shuttingDown /\ p.shuttingDown \in BOOLEAN
    BY DEF Frame, Fields, Aside, Switches, Sound, Typed
  <2>3. st.shuttingDown = FALSE
    BY <1>4, <2>2
  <2> QED BY <1>1, <1>2, <1>3, <2>1, <2>3 DEF Left, Disconnects, r
<1>5. CASE ~((p.sentLogon \/ p.receivedLogon) /\ ~p.shuttingDown)
  BY <1>1, <1>2, <1>3, <1>5 DEF Left, Disconnects, r
<1> QED BY <1>4, <1>5

(* Leaving at once.                                                        *)
LEMMA LeftNow ==
    ASSUME NEW st, Sound(st)
    PROVE  Sound(disconnect(st)) /\ Left(st, disconnect(st))
<1>1. Frame(st, st, Fields \ Aside)
  BY DEF Frame, Sound
<1> QED BY <1>1, LeftVia

(* Leaving with a Logout.                                                  *)
LEMMA LeftWithLogout ==
    ASSUME NEW st, Sound(st)
    PROVE  LET r == disconnect(generateLogout(st)) IN Sound(r) /\ Left(st, r)
<1> DEFINE p == generateLogout(st)
<1>1. /\ Sound(p) /\ Frame(st, p, Sent \cup {"sentLogout"})
      /\ Modest(st.out) => Modest(p.out)
  BY LogoutSound
<1> HIDE DEF p
<1>2. /\ Frame(st, p, Fields \ Aside)
      /\ p.aborted = st.aborted /\ p.delivered = st.delivered
  BY <1>1 DEF Frame, Fields, Switches, Sent, Aside
<1>3. Sound(disconnect(p)) /\ Left(st, disconnect(p))
  BY <1>1, <1>2, LeftVia
<1> QED BY <1>3 DEF p

Moved == Sent \cup {"target", "queue", "range", "received", "testRequest", "delivered"}

(* The session stays, and the message is dropped, queued, taken in its     *)
(* turn, or fills a gap.                                                   *)
Moves(st, r, m) ==
    /\ Frame(st, r, Moved)
    /\ \/ r.target = st.target /\ r.delivered = st.delivered /\ r.queue = st.queue
       \/ /\ r.target = st.target /\ r.delivered = st.delivered
          /\ m.seq > st.target
          /\ m.kind \in {"App", "Heartbeat", "TestRequest", "GapFill"}
          /\ r.queue = {q \in st.queue : q.seq # m.seq} \cup {m}
       \/ /\ m.seq = st.target /\ m.kind \notin {"Logon", "GapFill"}
          /\ r.target = st.target + 1 /\ r.queue = st.queue
          /\ IF m.kind = "App"
             THEN r.delivered = Append(st.delivered, m.seq) /\ r.received = 0
             ELSE r.delivered = st.delivered
       \/ /\ m.seq = st.target /\ m.kind = "GapFill" /\ m.arg > st.target
          /\ r.target = m.arg /\ r.delivered = st.delivered /\ r.queue = st.queue
    /\ Modest(st.out) /\ st.target # 1 => Modest(r.out)

(* verify on a session that is logged on, for anything but a Logon.        *)
LEMMA VerifyOn ==
    ASSUME NEW st, Sound(st), st.receivedLogon, st.aborted = FALSE, NEW m \in Proper,
           m.kind \notin {"Logon", "Reject"},
           NEW high \in BOOLEAN, NEW low \in BOOLEAN,
           high => m.kind \in {"App", "Heartbeat", "TestRequest", "GapFill"}
    PROVE  LET v == verify(st, m, high, low)
           IN  \/ /\ v.ok = FALSE /\ Sound(v.st)
                  /\ Left(st, v.st) \/ Moves(st, v.st, m)
               \/ /\ v.ok = TRUE /\ Sound(v.st) /\ Takes(st, v.st, m, high \/ low)
                  /\ high => m.seq <= st.target
                  /\ low => m.seq >= st.target
<1> DEFINE v == verify(st, m, high, low)
<1>0. m.seq \in Nat /\ st.target \in Nat
  BY ProperType DEF Sound, Typed
<1>1. Verifies(st, m, high, low, v)
  BY VerifyCases
<1> HIDE DEF v
<1>2. validLogonState(st, m)
  BY DEF validLogonState
<1>3. CASE high /\ m.seq > st.target /\ v.ok = FALSE /\ v.st = doTargetTooHigh(st, m)
  <2> DEFINE r == doTargetTooHigh(st, m)
  <2>1. /\ Sound(r) /\ Frame(st, r, Sent \cup {"queue", "range"})
        /\ r.queue = {q \in st.queue : q.seq # m.seq} \cup {m}
        /\ Modest(st.out) /\ st.target # 1 => Modest(r.out)
    BY <1>3, TooHighSound
  <2> HIDE DEF r
  <2>2. r.target = st.target /\ r.delivered = st.delivered /\ Frame(st, r, Moved)
    BY <2>1 DEF Frame, Fields, Sent, Moved
  <2>3. Moves(st, r, m)
    BY <1>3, <2>1, <2>2 DEF Moves
  <2> QED BY <1>3, <2>1, <2>3 DEF r, v
<1>4. CASE /\ low /\ m.seq < st.target /\ v.ok = FALSE
           /\ v.st = IF m.poss THEN st ELSE disconnect(generateLogout(st))
  <2>1. Moves(st, st, m)
    BY DEF Moves, Frame, Sound
  <2>2. Sound(disconnect(generateLogout(st))) /\ Left(st, disconnect(generateLogout(st)))
    BY LeftWithLogout
  <2> QED BY <1>4, <2>1, <2>2 DEF v
<1>5. CASE /\ ~(high /\ m.seq > st.target) /\ ~(low /\ m.seq < st.target)
           /\ v.ok = (m.kind # "Reject")
           /\ Sound(v.st) /\ Takes(st, v.st, m, high \/ low)
  <2>1. (high => m.seq <= st.target) /\ (low => m.seq >= st.target)
    BY <1>0, <1>5
  <2>2. v.ok = TRUE
    BY <1>5
  <2> QED BY <1>5, <2>1, <2>2, Zenon DEF v
<1> QED BY <1>1, <1>2, <1>3, <1>4, <1>5 DEF Verifies

(* A message handled on a session that is logged on.                       *)
Handled(st, r, m) == Sound(r) /\ (Left(st, r) \/ Moves(st, r, m))

(* A session that may hear m.                                              *)
Hears(st, m) ==
    /\ Sound(st) /\ st.receivedLogon = TRUE /\ st.aborted = FALSE
    /\ m \in Proper

(* Taking a message on a session that is logged on.                        *)
LEMMA TakesOn ==
    ASSUME NEW st, NEW p, NEW m, NEW c, Sound(st), st.aborted = FALSE,
           Takes(st, p, m, c), m.kind # "Reject"
    PROVE  /\ Frame(st, p, {"range", "received", "testRequest", "delivered"})
           /\ p.target = st.target /\ p.queue = st.queue /\ p.out = st.out
           /\ p.aborted = FALSE /\ p.received = 0
           /\ p.delivered = IF m.kind = "App" THEN Append(st.delivered, m.seq)
                            ELSE st.delivered
<1>1. Frame(st, p, {"range", "received", "testRequest", "aborted", "delivered"})
  BY DEF Takes
<1>2. p.aborted = FALSE
  BY DEF Takes
<1>3. Frame(st, p, {"range", "received", "testRequest", "delivered"})
  BY <1>1, <1>2 DEF Frame
<1>4. p.target = st.target /\ p.queue = st.queue /\ p.out = st.out
  BY <1>1 DEF Frame, Fields
<1> QED BY <1>2, <1>3, <1>4 DEF Takes

(* Application messages and Heartbeats.                                    *)
LEMMA InTurnHandled ==
    ASSUME NEW st, NEW m, Hears(st, m), m.kind \in {"App", "Heartbeat"}
    PROVE  Handled(st, nextInTurn(st, m, TRUE), m)
<1> DEFINE v == verify(st, m, TRUE, TRUE)
           p == v.st
           r == Advance(p)
<1>0. m.seq \in Nat /\ st.target \in Nat
  BY ProperType DEF Hears, Sound, Typed
<1>1. nextInTurn(st, m, TRUE) = IF v.ok THEN r ELSE p
  BY DEF nextInTurn
<1>2. \/ v.ok = FALSE /\ Sound(p) /\ (Left(st, p) \/ Moves(st, p, m))
      \/ /\ v.ok = TRUE /\ Sound(p) /\ Takes(st, p, m, TRUE)
         /\ m.seq <= st.target /\ m.seq >= st.target
  BY VerifyOn DEF Hears
<1> HIDE DEF v
<1>3. CASE v.ok = FALSE
  BY <1>1, <1>2, <1>3 DEF Handled
<1>4. CASE v.ok = TRUE
  <2>1. /\ Sound(p) /\ m.seq = st.target
        /\ Frame(st, p, {"range", "received", "testRequest", "delivered"})
        /\ p.target = st.target /\ p.queue = st.queue /\ p.out = st.out
        /\ p.received = 0
        /\ p.delivered = IF m.kind = "App" THEN Append(st.delivered, m.seq)
                         ELSE st.delivered
    <3>1. /\ Sound(p) /\ Takes(st, p, m, TRUE)
          /\ m.seq <= st.target /\ m.seq >= st.target
      BY <1>2, <1>4
    <3>2. m.seq = st.target
      BY <1>0, <3>1
    <3>3. Sound(st) /\ st.aborted = FALSE /\ m.kind # "Reject"
      BY DEF Hears
    <3> QED BY <3>1, <3>2, <3>3, TakesOn
  <2> HIDE DEF p
  <2>2. Sound(r) /\ Frame(p, r, {"target"}) /\ r.target = p.target + 1
    BY <2>1, AdvanceSound
  <2> HIDE DEF r
  <2>3. /\ r.delivered = p.delivered /\ r.queue = p.queue /\ r.out = p.out
        /\ r.received = p.received
    BY <2>2 DEF Frame, Fields
  <2>4. Frame(st, r, Moved)
    BY <2>1, <2>2 DEF Frame, Moved
  <2>5. Moves(st, r, m)
    BY <2>1, <2>2, <2>3, <2>4 DEF Moves
  <2> QED BY <1>1, <1>4, <2>2, <2>5 DEF Handled
<1> QED BY <1>2, <1>3, <1>4

(* Test requests.                                                          *)
LEMMA TestRequestHandled ==
    ASSUME NEW st, NEW m, Hears(st, m), m.kind = "TestRequest"
    PROVE  Handled(st, nextTestRequest(st, m), m)
<1> DEFINE v == verify(st, m, TRUE, TRUE)
           p == v.st
           w == sendRaw(p, "Heartbeat", 0)
           r == Advance(w)
<1>0. m.seq \in Nat /\ st.target \in Nat
  BY ProperType DEF Hears, Sound, Typed
<1>1. nextTestRequest(st, m) = IF v.ok THEN r ELSE p
  BY DEF nextTestRequest
<1>2. \/ v.ok = FALSE /\ Sound(p) /\ (Left(st, p) \/ Moves(st, p, m))
      \/ /\ v.ok = TRUE /\ Sound(p) /\ Takes(st, p, m, TRUE)
         /\ m.seq <= st.target /\ m.seq >= st.target
  BY VerifyOn DEF Hears
<1> HIDE DEF v
<1>3. CASE v.ok = FALSE
  BY <1>1, <1>2, <1>3 DEF Handled
<1>4. CASE v.ok = TRUE
  <2>1. /\ Sound(p) /\ m.seq = st.target
        /\ Frame(st, p, {"range", "received", "testRequest", "delivered"})
        /\ p.target = st.target /\ p.queue = st.queue /\ p.out = st.out
        /\ p.delivered = st.delivered
    <3>1. /\ Sound(p) /\ Takes(st, p, m, TRUE)
          /\ m.seq <= st.target /\ m.seq >= st.target
      BY <1>2, <1>4
    <3>2. m.seq = st.target
      BY <1>0, <3>1
    <3>3. Sound(st) /\ st.aborted = FALSE /\ m.kind # "Reject"
      BY DEF Hears
    <3> QED BY <3>1, <3>2, <3>3, TakesOn
  <2> HIDE DEF p
  <2>2. Sound(w) /\ Frame(p, w, Sent) /\ (Modest(p.out) => Modest(w.out))
    BY <2>1, AnswerSound
  <2> HIDE DEF w
  <2>3. Sound(r) /\ Frame(w, r, {"target"}) /\ r.target = w.target + 1
    BY <2>2, AdvanceSound
  <2> HIDE DEF r
  <2>4. /\ r.delivered = p.delivered /\ r.queue = p.queue /\ r.out = w.out
        /\ w.target = p.target
    BY <2>2, <2>3 DEF Frame, Fields, Sent
  <2>5. Frame(st, r, Moved)
    BY <2>1, <2>2, <2>3 DEF Frame, Moved
  <2>6. Moves(st, r, m)
    BY <2>1, <2>2, <2>3, <2>4, <2>5 DEF Moves
  <2> QED BY <1>1, <1>4, <2>3, <2>6 DEF Handled
<1> QED BY <1>2, <1>3, <1>4

(* Gap fills.                                                              *)
LEMMA GapFillHandled ==
    ASSUME NEW st, NEW m, Hears(st, m), m.kind = "GapFill"
    PROVE  Handled(st, nextSequenceReset(st, m), m)
<1> DEFINE v == verify(st, m, TRUE, TRUE)
           p == v.st
           j == [p EXCEPT !.target = m.arg]
           w == generateReject(p, m)
<1>0. m.seq \in Nat /\ st.target \in Nat /\ m.arg \in Nat \ {0}
  BY ProperType DEF Hears, Sound, Typed
<1>1. nextSequenceReset(st, m) =
        IF ~v.ok \/ m.arg = p.target THEN p ELSE IF m.arg > p.target THEN j
        ELSE IF p.receivedLogon THEN w ELSE [p EXCEPT !.aborted = TRUE]
  <2>1. (m.kind = "GapFill") = TRUE
    OBVIOUS
  <2> QED BY <2>1 DEF nextSequenceReset
<1>2. \/ v.ok = FALSE /\ Sound(p) /\ (Left(st, p) \/ Moves(st, p, m))
      \/ /\ v.ok = TRUE /\ Sound(p) /\ Takes(st, p, m, TRUE)
         /\ m.seq <= st.target /\ m.seq >= st.target
  BY VerifyOn DEF Hears
<1> HIDE DEF v
<1>3. CASE v.ok = FALSE
  BY <1>1, <1>2, <1>3 DEF Handled
<1>4. CASE v.ok = TRUE
  <2>1. /\ Sound(p) /\ m.seq = st.target
        /\ Frame(st, p, {"range", "received", "testRequest", "delivered"})
        /\ p.target = st.target /\ p.queue = st.queue /\ p.out = st.out
        /\ p.delivered = st.delivered /\ p.receivedLogon = TRUE
    <3>1. /\ Sound(p) /\ Takes(st, p, m, TRUE)
          /\ m.seq <= st.target /\ m.seq >= st.target
      BY <1>2, <1>4
    <3>2. m.seq = st.target
      BY <1>0, <3>1
    <3>3. Sound(st) /\ st.aborted = FALSE /\ m.kind # "Reject"
      BY DEF Hears
    <3>4. /\ Frame(st, p, {"range", "received", "testRequest", "delivered"})
          /\ p.target = st.target /\ p.queue = st.queue /\ p.out = st.out
          /\ p.delivered = st.delivered
      BY <3>1, <3>2, <3>3, TakesOn
    <3>5. p.receivedLogon = TRUE
      BY <3>4 DEF Frame, Fields, Switches, Hears
    <3> QED BY <3>1, <3>2, <3>4, <3>5
  <2> HIDE DEF p
  <2>2. CASE m.arg = p.target
    <3>1. Frame(st, p, Moved)
      BY <2>1 DEF Frame, Moved
    <3>2. Moves(st, p, m)
      BY <2>1, <3>1 DEF Moves
    <3> QED BY <1>1, <2>1, <2>2, <3>2 DEF Handled
  <2>3. CASE m.arg > p.target
    <3>1. Sound(j) /\ Frame(p, j, {"target"}) /\ j.target = m.arg
      BY <1>0, <2>1, JumpSound
    <3>2. nextSequenceReset(st, m) = j
      BY <1>0, <1>1, <1>4, <2>1, <2>3
    <3> HIDE DEF j
    <3>3. /\ j.delivered = p.delivered /\ j.queue = p.queue /\ j.out = p.out
      BY <3>1 DEF Frame, Fields
    <3>4. Frame(st, j, Moved)
      BY <2>1, <3>1 DEF Frame, Moved
    <3>5. Moves(st, j, m)
      BY <2>1, <2>3, <3>1, <3>3, <3>4 DEF Moves
    <3> QED BY <3>1, <3>2, <3>5 DEF Handled
  <2>4. CASE m.arg < p.target
    <3>1. /\ Sound(w) /\ Frame(p, w, Sent \cup {"target"})
          /\ w.target = p.target
          /\ Modest(p.out) => Modest(w.out)
      BY <2>1, RejectSound DEF Hears
    <3>2. nextSequenceReset(st, m) = w
      BY <1>0, <1>1, <1>4, <2>1, <2>4
    <3> HIDE DEF w
    <3>3. w.delivered = p.delivered /\ w.queue = p.queue
      BY <3>1 DEF Frame, Fields, Sent
    <3>4. Frame(st, w, Moved)
      BY <2>1, <3>1 DEF Frame, Moved
    <3>5. Moves(st, w, m)
      BY <2>1, <3>1, <3>3, <3>4 DEF Moves
    <3> QED BY <3>1, <3>2, <3>5 DEF Handled
  <2> QED BY <1>0, <2>1, <2>2, <2>3, <2>4
<1> QED BY <1>2, <1>3, <1>4

(* Resend requests.                                                        *)
LEMMA ResendRequestHandled ==
    ASSUME NEW st, NEW m, Hears(st, m), m.kind = "ResendRequest"
    PROVE  Handled(st, nextResendRequest(st, m), m)
<1> DEFINE v == verify(st, m, FALSE, FALSE)
           p == v.st
           w == Write(p, generateRetransmits(p.apps, m.arg, p.sender - 1))
           r == Advance(w)
<1>1. nextResendRequest(st, m) =
        IF ~v.ok THEN p ELSE IF m.seq = w.target THEN r ELSE w
  BY DEF nextResendRequest
<1>2. \/ v.ok = FALSE /\ Sound(p) /\ (Left(st, p) \/ Moves(st, p, m))
      \/ v.ok = TRUE /\ Sound(p) /\ Takes(st, p, m, FALSE)
  BY VerifyOn DEF Hears
<1> HIDE DEF v
<1>3. CASE v.ok = FALSE
  BY <1>1, <1>2, <1>3 DEF Handled
<1>4. CASE v.ok = TRUE
  <2>1. /\ Sound(p)
        /\ Frame(st, p, {"range", "received", "testRequest", "delivered"})
        /\ p.target = st.target /\ p.queue = st.queue /\ p.out = st.out
        /\ p.delivered = st.delivered
    BY <1>2, <1>4, TakesOn DEF Hears
  <2> HIDE DEF p
  <2>2. /\ Sound(w) /\ Frame(p, w, {"sent", "out", "transmitted"})
        /\ Modest(p.out) => Modest(w.out)
    BY <2>1, ResendSound DEF Hears
  <2> HIDE DEF w
  <2>3. Sound(r) /\ Frame(w, r, {"target"}) /\ r.target = w.target + 1
    BY <2>2, AdvanceSound
  <2> HIDE DEF r
  <2>4. /\ r.delivered = p.delivered /\ r.queue = p.queue /\ r.out = w.out
        /\ w.target = p.target /\ w.delivered = p.delivered /\ w.queue = p.queue
    BY <2>2, <2>3 DEF Frame, Fields
  <2>5. Frame(st, r, Moved) /\ Frame(st, w, Moved)
    BY <2>1, <2>2, <2>3 DEF Frame, Moved, Sent
  <2>6. Moves(st, w, m)
    BY <2>1, <2>2, <2>4, <2>5 DEF Moves
  <2>7. m.seq = w.target => Moves(st, r, m)
    BY <2>1, <2>2, <2>3, <2>4, <2>5 DEF Moves
  <2> QED BY <1>1, <1>4, <2>2, <2>3, <2>6, <2>7 DEF Handled
<1> QED BY <1>2, <1>3, <1>4

(* Logouts.                                                                *)
LEMMA LogoutHandled ==
    ASSUME NEW st, NEW m, Hears(st, m), m.kind = "Logout"
    PROVE  Handled(st, nextLogout(st, m), m)
<1> DEFINE v == verify(st, m, FALSE, FALSE)
           p == v.st
           w == IF p.sentLogout THEN p ELSE generateLogout(p)
           u == Reset(w)
<1>1. nextLogout(st, m) = IF v.ok THEN disconnect(u) ELSE p
  BY DEF nextLogout
<1>2. \/ v.ok = FALSE /\ Sound(p) /\ (Left(st, p) \/ Moves(st, p, m))
      \/ v.ok = TRUE /\ Sound(p) /\ Takes(st, p, m, FALSE)
  BY VerifyOn DEF Hears
<1> HIDE DEF v
<1>3. CASE v.ok = FALSE
  BY <1>1, <1>2, <1>3 DEF Handled
<1>4. CASE v.ok = TRUE
  <2>1. /\ Sound(p)
        /\ Frame(st, p, {"range", "received", "testRequest", "delivered"})
        /\ p.out = st.out
    BY <1>2, <1>4, TakesOn DEF Hears
  <2> HIDE DEF p
  <2>2. /\ Sound(w) /\ Frame(p, w, Sent \cup {"sentLogout"})
        /\ Modest(p.out) => Modest(w.out)
    <3>1. Frame(p, p, Sent \cup {"sentLogout"})
      BY <2>1 DEF Frame
    <3>2. LET q == generateLogout(p)
          IN  /\ Sound(q) /\ Frame(p, q, Sent \cup {"sentLogout"})
              /\ Modest(p.out) => Modest(q.out)
      BY <2>1, LogoutSound
    <3> QED BY <2>1, <3>1, <3>2
  <2> HIDE DEF w
  <2>3. Sound(u) /\ Resets(w, u)
    BY <2>2, ResetEffect, ResetSound DEF Sound
  <2> HIDE DEF u
  <2>4. Frame(w, u, Numbers) /\ u.delivered = << >>
    BY <2>3 DEF Resets
  <2>5. u.out = w.out /\ u.aborted = st.aborted
    BY <2>1, <2>2, <2>4 DEF Frame, Fields, Switches, Numbers, Sent
  <2>6. Frame(st, u, Fields \ Aside)
    BY <2>1, <2>2, <2>4 DEF Frame, Aside, Numbers, Sent
  <2>7. Sound(disconnect(u)) /\ Left(st, disconnect(u))
    BY <2>1, <2>2, <2>3, <2>4, <2>5, <2>6, LeftVia
  <2> QED BY <1>1, <1>4, <2>7 DEF Handled
<1> QED BY <1>2, <1>3, <1>4

(* Messages that the dictionary rejects.                                   *)
LEMMA BadHandled ==
    ASSUME NEW st, NEW m, Hears(st, m), m.kind = "Bad"
    PROVE  Handled(st, generateReject(st, m), m)
<1> DEFINE r == generateReject(st, m)
<1>1. /\ Sound(r) /\ Frame(st, r, Sent \cup {"target"})
      /\ r.target = IF m.seq = st.target THEN st.target + 1 ELSE st.target
      /\ Modest(st.out) => Modest(r.out)
  BY RejectSound DEF Hears
<1> HIDE DEF r
<1>2. r.delivered = st.delivered /\ r.queue = st.queue /\ Frame(st, r, Moved)
  BY <1>1 DEF Frame, Fields, Sent, Moved
<1>3. Moves(st, r, m)
  BY <1>1, <1>2 DEF Moves
<1> QED BY <1>1, <1>3 DEF Handled, r

(* A session that is logged on handles a message of its counterparty, a    *)
(* Logon apart: it leaves, or it drops, queues or takes the message.       *)
LEMMA MessageHandled ==
    ASSUME NEW st, NEW m, Hears(st, m),
           m.kind \in {"App", "Heartbeat", "TestRequest", "GapFill",
                       "ResendRequest", "Logout", "Bad"}
    PROVE  Handled(st, nextMessage(st, m), m)
<1>1. CASE m.kind \in {"App", "Heartbeat"}
  BY <1>1, InTurnHandled DEF nextMessage
<1>2. CASE m.kind = "TestRequest"
  BY <1>2, TestRequestHandled DEF nextMessage
<1>3. CASE m.kind = "GapFill"
  BY <1>3, GapFillHandled DEF nextMessage
<1>4. CASE m.kind = "ResendRequest"
  BY <1>4, ResendRequestHandled DEF nextMessage
<1>5. CASE m.kind = "Logout"
  BY <1>5, LogoutHandled DEF nextMessage
<1>6. CASE m.kind = "Bad"
  BY <1>6, BadHandled DEF nextMessage
<1> QED BY <1>1, <1>2, <1>3, <1>4, <1>5, <1>6

-----------------------------------------------------------------------------
(* A session that is not logged on.                                        *)

(* Nothing was handed over since the numbers were reset, and what has been *)
(* queued meanwhile is not the first message of a connection.              *)
Quiet(st) ==
    /\ st.target = 1 /\ st.delivered = << >>
    /\ \A q \in st.queue : q.seq # 1
    /\ st.queue # {} \/ st.range # <<0, 0>> => st.sender # 1

Off(st) ==
    /\ Sound(st) /\ st.aborted = FALSE
    /\ st.receivedLogon = FALSE /\ st.receivedReset = FALSE /\ st.sentLogout = FALSE
    /\ st.sentReset = TRUE => st.sentLogon = TRUE
    /\ Quiet(st)

(* A session that has left without an abort is off.                        *)
LEMMA LeftIsOff ==
    ASSUME NEW st, NEW r, Sound(r), Left(st, r), r.aborted = FALSE
    PROVE  Off(r) /\ r.queue = {} /\ r.responder = FALSE /\ r.sentLogon = FALSE
<1>1. /\ r.responder = FALSE /\ r.sentLogon = FALSE /\ r.receivedLogon = FALSE
      /\ r.sentLogout = FALSE /\ r.sentReset = FALSE /\ r.receivedReset = FALSE
      /\ r.queue = {} /\ r.range = <<0, 0>>
      /\ r.target = 1 /\ r.delivered = << >>
  BY DEF Left
<1>2. Quiet(r)
  BY <1>1 DEF Quiet
<1> QED BY <1>1, <1>2 DEF Off

(* It stays off when it disconnects.                                       *)
LEMMA OffDisconnects ==
    ASSUME NEW st, Off(st), st.sentLogon = FALSE \/ st.shuttingDown = TRUE
    PROVE  LET r == disconnect(st)
           IN  /\ Off(r) /\ Frame(st, r, Fields \ Aside) /\ r.out = st.out
               /\ r.responder = FALSE /\ r.sentLogon = FALSE /\ r.queue = {}
<1> DEFINE r == disconnect(st)
<1>1. Sound(r) /\ Left(st, r)
  BY LeftNow DEF Off
<1>2. Disconnects(st, r)
  BY LeaveSound DEF Off
<1> HIDE DEF r
<1>3. r.aborted = FALSE
  <2>1. ~((st.sentLogon \/ st.receivedLogon) /\ ~st.shuttingDown)
    BY DEF Off
  <2> QED BY <1>2, <2>1 DEF Disconnects, Off
<1>4. r.out = st.out
  BY <1>2 DEF Disconnects, Frame, Fields, Links, Numbers
<1>5. Off(r) /\ r.queue = {} /\ r.responder = FALSE /\ r.sentLogon = FALSE
  BY <1>1, <1>3, LeftIsOff
<1> QED BY <1>1, <1>4, <1>5 DEF Left, r

(* What the buffer still holds changes nothing for a session that is off.  *)
OffHandled(st, r, m) ==
    /\ Off(r) /\ Frame(st, r, Fields \ Aside) /\ r.out = st.out
    /\ r.responder = FALSE /\ r.sentLogon = FALSE
    /\ m.kind = "App" => r.queue = {}

(* A gap fill may come to the queue.                                       *)
LEMMA OffGapFill ==
    ASSUME NEW st, Off(st), st.responder = FALSE, st.sentLogon = FALSE,
           NEW m \in Proper, m.kind = "GapFill", m.seq # 1
    PROVE  OffHandled(st, nextMessage(st, m), m)
<1> DEFINE v == verify(st, m, TRUE, TRUE)
           r == doTargetTooHigh(st, m)
<1>0. /\ m.seq \in Nat \ {0} /\ m.seq > st.target /\ st.target = 1
      /\ st.sender \in Nat \ {0} /\ Sound(st)
  BY ProperType DEF Off, Quiet, Sound, Typed
<1>1. Verifies(st, m, TRUE, TRUE, v)
  BY <1>0, VerifyCases
<1>2. validLogonState(st, m)
  BY DEF validLogonState
<1>3. nextMessage(st, m) =
        IF ~v.ok \/ m.arg = v.st.target THEN v.st
        ELSE IF m.arg > v.st.target THEN [v.st EXCEPT !.target = m.arg]
        ELSE IF v.st.receivedLogon THEN generateReject(v.st, m)
        ELSE [v.st EXCEPT !.aborted = TRUE]
  <2>1. (m.kind = "GapFill") = TRUE
    OBVIOUS
  <2> QED BY <2>1 DEF nextMessage, nextSequenceReset
<1> HIDE DEF v
<1>4. nextMessage(st, m) = r
  <2>1. v.ok = FALSE /\ v.st = r
    BY <1>0, <1>1, <1>2 DEF Verifies
  <2> QED BY <1>3, <2>1
<1>5. /\ Sound(r) /\ Frame(st, r, Sent \cup {"queue", "range"})
      /\ r.queue = {q \in st.queue : q.seq # m.seq} \cup {m}
      /\ r.sender = st.sender \/ r.sender = st.sender + 1
      /\ st.range = <<0, 0>> => r.sender = st.sender + 1
      /\ r.out = st.out
  BY <1>0, TooHighSound
<1> HIDE DEF r
<1>6. /\ r.target = st.target /\ r.delivered = st.delivered
      /\ r.responder = st.responder /\ r.sentLogon = st.sentLogon
      /\ r.aborted = st.aborted /\ r.receivedLogon = st.receivedLogon
      /\ r.receivedReset = st.receivedReset /\ r.sentLogout = st.sentLogout
      /\ r.sentReset = st.sentReset
  BY <1>5 DEF Frame, Fields, Switches, Sent
<1>7. Quiet(r)
  <2>1. r.sender # 1
    BY <1>0, <1>5 DEF Off, Quiet
  <2>2. \A q \in r.queue : q.seq # 1
    BY <1>0, <1>5 DEF Off, Quiet
  <2> QED BY <1>6, <2>1, <2>2 DEF Off, Quiet
<1>8. Off(r)
  BY <1>5, <1>6, <1>7 DEF Off
<1>9. Frame(st, r, Fields \ Aside)
  BY <1>5 DEF Frame, Aside, Sent
<1>10. OffHandled(st, r, m)
  BY <1>5, <1>6, <1>8, <1>9 DEF OffHandled
<1> QED BY <1>4, <1>10

(* A message that the dictionary rejects is dropped.                       *)
LEMMA OffBad ==
    ASSUME NEW st, Off(st), st.responder = FALSE, st.sentLogon = FALSE,
           NEW m \in Proper, m.kind = "Bad", m.seq # 1
    PROVE  OffHandled(st, nextMessage(st, m), m)
<1> DEFINE r == generateReject(st, m)
<1>1. nextMessage(st, m) = r
  BY DEF nextMessage
<1>2. st.receivedLogon = FALSE /\ Sound(st) /\ st.target = 1
  BY DEF Off, Quiet
<1>3. /\ Sound(r) /\ Frame(st, r, Sent \cup {"target"})
      /\ r.target = st.target
      /\ r.out = st.out /\ r.sender = st.sender
  BY <1>2, RejectSound
<1> HIDE DEF r
<1>4. /\ r.delivered = st.delivered
      /\ r.responder = st.responder /\ r.sentLogon = st.sentLogon
      /\ r.aborted = st.aborted /\ r.receivedLogon = st.receivedLogon
      /\ r.receivedReset = st.receivedReset /\ r.sentLogout = st.sentLogout
      /\ r.sentReset = st.sentReset /\ r.queue = st.queue /\ r.range = st.range
  BY <1>3 DEF Frame, Fields, Switches, Sent
<1>5. Quiet(r)
  BY <1>3, <1>4 DEF Off, Quiet
<1>6. Off(r)
  BY <1>3, <1>4, <1>5 DEF Off
<1>7. Frame(st, r, Fields \ Aside)
  BY <1>3 DEF Frame, Aside, Sent
<1>8. OffHandled(st, r, m)
  BY <1>3, <1>4, <1>6, <1>7 DEF OffHandled
<1> QED BY <1>1, <1>8

(* Any other message makes it disconnect once more.                        *)
LEMMA OffOther ==
    ASSUME NEW st, Off(st), st.responder = FALSE, st.sentLogon = FALSE,
           NEW m \in Proper,
           \/ m.kind \in {"App", "Heartbeat", "TestRequest", "ResendRequest", "Logout"}
           \/ m.kind = "Logon" /\ st.enabled = FALSE
    PROVE  OffHandled(st, nextMessage(st, m), m)
<1> DEFINE r == disconnect(st)
<1>1. OffHandled(st, r, m)
  BY OffDisconnects DEF OffHandled
<1>2. \A high, low \in BOOLEAN : m.kind # "Logon" =>
          verify(st, m, high, low) = [ok |-> FALSE, st |-> r]
  <2>1. m.kind # "Logon" => ~validLogonState(st, m)
    <3>1. /\ st.receivedReset = FALSE /\ st.receivedLogon = FALSE
          /\ st.sentLogout = FALSE /\ st.sentLogon = FALSE
      BY DEF Off
    <3> QED BY <3>1 DEF validLogonState
  <2> QED BY <2>1 DEF verify
<1> HIDE DEF r
<1>3. m.kind # "Logon" => \A high, low \in BOOLEAN :
          verify(st, m, high, low).ok = FALSE /\ verify(st, m, high, low).st = r
  BY <1>2
<1>4. CASE m.kind \in {"App", "Heartbeat"}
  <2>1. nextMessage(st, m) = r
    BY <1>3, <1>4 DEF nextMessage, nextInTurn
  <2> QED BY <1>1, <2>1
<1>5. CASE m.kind = "TestRequest"
  <2>1. nextMessage(st, m) = r
    BY <1>3, <1>5 DEF nextMessage, nextTestRequest
  <2> QED BY <1>1, <2>1
<1>6. CASE m.kind = "ResendRequest"
  <2>1. nextMessage(st, m) = r
    BY <1>3, <1>6 DEF nextMessage, nextResendRequest
  <2> QED BY <1>1, <2>1
<1>7. CASE m.kind = "Logout"
  <2>1. nextMessage(st, m) = r
    BY <1>3, <1>7 DEF nextMessage, nextLogout
  <2> QED BY <1>1, <2>1
<1>8. CASE m.kind = "Logon" /\ st.enabled = FALSE
  <2>1. nextMessage(st, m) = r
    BY <1>8 DEF nextMessage, nextLogon, r
  <2> QED BY <1>1, <2>1
<1> QED BY <1>4, <1>5, <1>6, <1>7, <1>8

-----------------------------------------------------------------------------
(* What the passing of time comes to.                                      *)

(* The session stays as it is, but for what it sends.                      *)
Still(st, r) ==
    /\ Frame(st, r, Sent \cup {"testRequest", "sentLogout"})
    /\ r.sentLogout = st.sentLogout \/ st.enabled = FALSE
    /\ Modest(st.out) => Modest(r.out)

(* Sending a test request or a heartbeat.                                  *)
LEMMA BeatSends ==
    ASSUME NEW st, Sound(st), NEW kind \in {"TestRequest", "Heartbeat"}, NEW b,
           b = [sendRaw(st, kind, 0) EXCEPT !.testRequest = @ + 1]
           \/ b = sendRaw(st, kind, 0)
    PROVE  /\ Sound(b) /\ Frame(st, b, Sent \cup {"testRequest"})
           /\ Modest(st.out) => Modest(b.out)
<1> DEFINE p == sendRaw(st, kind, 0)
           r == [p EXCEPT !.testRequest = @ + 1]
<1>1. Sound(p) /\ Frame(st, p, Sent) /\ (Modest(st.out) => Modest(p.out))
  BY AnswerSound
<1> HIDE DEF p
<1>2. Frame(p, r, {"testRequest"}) /\ r.testRequest = p.testRequest + 1
  BY <1>1 DEF Frame, Fields, Sound
<1>3. b = r \/ b = p
  BY DEF p
<1> HIDE DEF r
<1>4. Sound(r)
  <2>1. Typed(r)
    BY <1>1, <1>2 DEF Typed, Sound, Frame, Fields, Switches
  <2> QED BY <1>1, <1>2, <2>1, ChangeSound
<1>5. Frame(st, r, Sent \cup {"testRequest"}) /\ Frame(st, p, Sent \cup {"testRequest"})
  BY <1>1, <1>2 DEF Frame
<1>6. r.out = p.out
  BY <1>2 DEF Frame, Fields
<1> QED BY <1>1, <1>3, <1>4, <1>5, <1>6

(* The part of next(now) that looks at the time of the last message.       *)
LEMMA BeatCases ==
    ASSUME NEW st, Sound(st)
    PROVE  LET r == Beat(st)
           IN  /\ Sound(r)
               /\ \/ r = disconnect(st) /\ timedOut(st) /\ ~st.aborted
                  \/ /\ Frame(st, r, Sent \cup {"testRequest"})
                     /\ Modest(st.out) => Modest(r.out)
               /\ st.aborted => r = st
<1> DEFINE r == Beat(st)
           t == [sendRaw(st, "TestRequest", 0) EXCEPT !.testRequest = @ + 1]
           h == sendRaw(st, "Heartbeat", 0)
<1>1. /\ Frame(st, st, Sent \cup {"testRequest"})
  BY DEF Frame, Sound
<1>2. CASE st.aborted \/ withinHeartBeat(st)
  <2>1. withinHeartBeat(st) => ~timedOut(st)
    BY TimesAssumption DEF withinHeartBeat, timedOut, Sound, Typed
  <2>2. r = st
    BY <1>2, <2>1 DEF Beat
  <2> QED BY <1>1, <2>2
<1>3. CASE ~st.aborted /\ ~withinHeartBeat(st) /\ timedOut(st)
  <2>1. r = disconnect(st)
    BY <1>3 DEF Beat
  <2> QED BY <1>3, <2>1, LeaveSound
<1>4. CASE ~st.aborted /\ ~withinHeartBeat(st) /\ ~timedOut(st)
  <2>1. r = IF needTestRequest(st) THEN t ELSE IF needHeartbeat(st) THEN h ELSE st
    BY <1>4 DEF Beat
  <2>2. /\ Sound(t) /\ Frame(st, t, Sent \cup {"testRequest"})
        /\ Modest(st.out) => Modest(t.out)
    BY BeatSends
  <2>3. /\ Sound(h) /\ Frame(st, h, Sent \cup {"testRequest"})
        /\ Modest(st.out) => Modest(h.out)
    BY BeatSends
  <2> HIDE DEF t, h
  <2> QED BY <1>1, <1>4, <2>1, <2>2, <2>3
<1> QED BY <1>2, <1>3, <1>4

(* On a session that has left, it keeps to what it was.                    *)
LEMMA BeatLeft ==
    ASSUME NEW st, NEW p, Sound(p), Left(st, p)
    PROVE  Sound(Beat(p)) /\ Left(st, Beat(p))
<1> DEFINE r == Beat(p)
<1>1. /\ Sound(r)
      /\ \/ r = disconnect(p) /\ timedOut(p) /\ ~p.aborted
         \/ /\ Frame(p, r, Sent \cup {"testRequest"})
            /\ Modest(p.out) => Modest(r.out)
  BY BeatCases
<1> HIDE DEF r
<1>2. CASE r = disconnect(p) /\ ~p.aborted
  <2>1. p.aborted \in BOOLEAN
    BY DEF Sound, Typed, Switches
  <2>2. Disconnects(p, r)
    BY <1>2, LeaveSound
  <2>3. p.aborted = FALSE /\ p.aborted = st.aborted
    BY <1>2, <2>1 DEF Left
  <2>4. p.sentLogon = FALSE /\ p.receivedLogon = FALSE
    BY DEF Left
  <2>5. /\ r.responder = FALSE /\ r.sentLogon = FALSE /\ r.receivedLogon = FALSE
        /\ r.aborted = p.aborted
        /\ r.sentLogout = FALSE /\ r.sentReset = FALSE /\ r.receivedReset = FALSE
        /\ r.queue = {} /\ r.range = <<0, 0>>
        /\ r.target = 1 /\ r.delivered = << >>
    BY <2>2, <2>4 DEF Disconnects
  <2>6. r.out = p.out /\ Frame(p, r, Fields \ Aside)
    BY <2>2 DEF Disconnects, Frame, Fields, Switches, Links, Numbers, Aside
  <2>7. Frame(st, r, Fields \ Aside)
    BY <2>6 DEF Left, Frame
  <2> QED BY <1>1, <2>3, <2>5, <2>6, <2>7 DEF Left, r
<1>3. CASE /\ Frame(p, r, Sent \cup {"testRequest"})
           /\ Modest(p.out) => Modest(r.out)
  <2>1. /\ r.responder = p.responder /\ r.sentLogon = p.sentLogon
        /\ r.receivedLogon = p.receivedLogon /\ r.aborted = p.aborted
        /\ r.sentLogout = p.sentLogout /\ r.sentReset = p.sentReset
        /\ r.receivedReset = p.receivedReset
        /\ r.queue = p.queue /\ r.range = p.range
        /\ r.target = p.target /\ r.delivered = p.delivered
    BY <1>3 DEF Frame, Fields, Switches, Sent
  <2>2. Frame(st, r, Fields \ Aside)
    BY <1>3 DEF Left, Frame, Sent, Aside
  <2> QED BY <1>1, <1>3, <2>1, <2>2 DEF Left, r
<1> QED BY <1>1, <1>2, <1>3

(* next(now) on a session that is logged on: it stays or it leaves, and    *)
(* it stays if it is enabled and has just heard from the counterparty.     *)
LEMMA NowOn ==
    ASSUME NEW st, Sound(st), st.aborted = FALSE,
           st.sentLogon = TRUE, st.receivedLogon = TRUE
    PROVE  LET r == nextNow(st)
           IN  /\ Sound(r) /\ (Left(st, r) \/ Still(st, r))
               /\ (st.enabled = TRUE /\ st.sentLogout = FALSE /\ st.received = 0)
                     => Still(st, r)
<1> DEFINE st1 == IF st.enabled \/ st.sentLogout THEN st ELSE generateLogout(st)
           st2 == IF st1.sentLogout /\ st1.sent >= LogoutTimeout
                  THEN disconnect(st1) ELSE st1
           r == Beat(st2)
<1>0. nextNow(st) = r
  BY DEF nextNow, isLoggedOn
<1>1. st.enabled \in BOOLEAN /\ st.sentLogout \in BOOLEAN
  BY DEF Sound, Typed, Switches
<1>2. Still(st, st)
  BY DEF Still, Frame, Sound
<1>3. Sound(st1) /\ Still(st, st1)
  <2>1. CASE st.enabled \/ st.sentLogout
    BY <1>2, <2>1
  <2>2. CASE ~(st.enabled \/ st.sentLogout)
    <3> DEFINE q == generateLogout(st)
    <3>1. /\ Sound(q) /\ Frame(st, q, Sent \cup {"sentLogout"})
          /\ Modest(st.out) => Modest(q.out)
      BY LogoutSound
    <3> HIDE DEF q
    <3>2. Frame(st, q, Sent \cup {"testRequest", "sentLogout"})
      BY <3>1 DEF Frame
    <3>3. Still(st, q)
      BY <1>1, <2>2, <3>1, <3>2 DEF Still
    <3> QED BY <2>2, <3>1, <3>3 DEF q
  <2> QED BY <2>1, <2>2
<1> HIDE DEF st1
<1>4. /\ st1.aborted = FALSE /\ st1.delivered = st.delivered
      /\ st1.received = st.received
      /\ Frame(st, st1, Fields \ Aside)
  BY <1>3 DEF Still, Frame, Fields, Switches, Sent, Aside
<1>5. Sound(disconnect(st1)) /\ Left(st, disconnect(st1))
  BY <1>3, <1>4, LeftVia DEF Still
<1>6. CASE st1.sentLogout /\ st1.sent >= LogoutTimeout
  <2>1. st2 = disconnect(st1)
    BY <1>6
  <2>2. Sound(r) /\ Left(st, r)
    BY <1>5, <2>1, BeatLeft
  <2>3. ~(st.enabled = TRUE /\ st.sentLogout = FALSE)
    BY <1>3, <1>6 DEF Still
  <2> QED BY <1>0, <2>2, <2>3
<1>7. CASE ~(st1.sentLogout /\ st1.sent >= LogoutTimeout)
  <2>1. st2 = st1
    BY <1>7
  <2> HIDE DEF st2
  <2>2. /\ Sound(r)
        /\ \/ r = disconnect(st1) /\ timedOut(st1)
           \/ /\ Frame(st1, r, Sent \cup {"testRequest"})
              /\ Modest(st1.out) => Modest(r.out)
    BY <1>3, <2>1, BeatCases
  <2> HIDE DEF r
  <2>3. CASE r = disconnect(st1) /\ timedOut(st1)
    <3>1. st.received # 0
      <4>1. ~(5 * 0 >= 12 * HeartBtInt)
        BY TimesAssumption
      <4>2. 5 * st.received >= 12 * HeartBtInt
        BY <1>4, <2>3 DEF timedOut
      <4> QED BY <4>1, <4>2
    <3> QED BY <1>0, <1>5, <2>3, <3>1
  <2>4. CASE /\ Frame(st1, r, Sent \cup {"testRequest"})
             /\ Modest(st1.out) => Modest(r.out)
    <3>1. r.sentLogout = st1.sentLogout
      BY <2>4 DEF Frame, Fields, Switches, Sent
    <3>2. Frame(st, r, Sent \cup {"testRequest", "sentLogout"})
      BY <1>3, <2>4 DEF Still, Frame
    <3>3. Still(st, r)
      BY <1>3, <2>4, <3>1, <3>2 DEF Still
    <3> QED BY <1>0, <2>2, <3>3
  <2> QED BY <2>2, <2>3, <2>4
<1> QED BY <1>6, <1>7

(* A session that is off begins a handshake.                               *)
Dials(st, r) ==
    /\ Off(r)
    /\ Frame(st, r, Sent \cup {"received", "testRequest", "sentLogon", "sentReset"})
    /\ st.sentLogon = FALSE /\ st.enabled = TRUE /\ r.sentLogon = TRUE
    /\ IF st.responder
       THEN \E m \in Proper : /\ r.out = st.out \o <<m>> /\ m.kind = "Logon"
                              /\ m.seq = 1 => st.queue = {}
       ELSE r.out = st.out

(* generateLogon on a session that is off.                                 *)
LEMMA GenerateLogonOff ==
    ASSUME NEW st, Off(st), st.sentLogon = FALSE, st.enabled = TRUE
    PROVE  Dials(st, generateLogon(st))
<1> DEFINE r == generateLogon(st)
           arg == IF shouldSendReset(st) THEN 1 ELSE 0
           m == Msg("Logon", st.sender, FALSE, arg)
<1>1. Sound(r) /\ Greets(st, r)
  BY GenerateLogonSound DEF Off
<1>2. /\ m \in Proper /\ m.kind = "Logon" /\ m.seq = st.sender
  <2>1. arg \in Nat
    OBVIOUS
  <2> HIDE DEF arg
  <2> QED BY <2>1 DEF Off, Sound, Typed, Msg, Proper, Message, Kinds
<1> HIDE DEF r
<1>3. PICK p :
        /\ Frame(st, p, {"received", "testRequest", "sentLogon", "sentReset"})
        /\ p.sentLogon = TRUE
        /\ Sends(p, r, m)
  BY <1>1 DEF Greets
<1> HIDE DEF m
<1>4. Frame(p, r, Sent) /\ r.sender = p.sender + 1
  BY <1>3 DEF Sends
<1>5. Frame(st, r, Sent \cup {"received", "testRequest", "sentLogon", "sentReset"})
  BY <1>3, <1>4, FrameTwice DEF Frame
<1>6. /\ r.sentLogon = TRUE /\ r.aborted = st.aborted
      /\ r.receivedLogon = st.receivedLogon
      /\ r.receivedReset = st.receivedReset /\ r.sentLogout = st.sentLogout
      /\ r.target = st.target /\ r.delivered = st.delivered /\ r.queue = st.queue
      /\ r.range = st.range /\ r.sender = st.sender + 1
      /\ p.out = st.out /\ p.responder = st.responder
  BY <1>3, <1>4 DEF Frame, Fields, Switches, Sent
<1>7. Quiet(r)
  <2>1. r.sender # 1
    BY <1>6 DEF Off, Sound, Typed
  <2> QED BY <1>6, <2>1 DEF Off, Quiet
<1>8. Off(r)
  BY <1>1, <1>6, <1>7 DEF Off
<1>9. IF st.responder THEN r.out = st.out \o <<m>> ELSE r.out = st.out
  BY <1>2, <1>3, <1>6 DEF Sends, Urgent
<1>10. m.seq = 1 => st.queue = {}
  BY <1>2 DEF Off, Quiet
<1> QED BY <1>2, <1>5, <1>6, <1>8, <1>9, <1>10 DEF Dials, r

(* next(now) on a session that is off: it stays so, dials or gives up.     *)
LEMMA NowOff ==
    ASSUME NEW st, Off(st)
    PROVE  LET r == nextNow(st)
           IN  \/ r = st /\ (st.enabled = TRUE => st.sentLogon = TRUE)
               \/ Dials(st, r)
               \/ /\ st.sentLogon = TRUE /\ r = disconnect(st)
                  /\ Sound(r) /\ Left(st, r)
<1>1. st.enabled \in BOOLEAN /\ st.sentLogon \in BOOLEAN /\ st.receivedLogon = FALSE
  BY DEF Off, Sound, Typed, Switches
<1>2. nextNow(st) = IF ~st.enabled THEN st
                    ELSE IF ~st.sentLogon THEN generateLogon(st)
                    ELSE IF st.received >= LogonTimeout THEN disconnect(st) ELSE st
  BY <1>1 DEF nextNow, isLoggedOn
<1>3. Sound(disconnect(st)) /\ Left(st, disconnect(st))
  BY LeftNow DEF Off
<1>4. st.sentLogon = FALSE /\ st.enabled = TRUE => Dials(st, generateLogon(st))
  BY GenerateLogonOff
<1> QED BY <1>1, <1>2, <1>3, <1>4

(* An order on a session that is logged on.                                *)
LEMMA SendOn ==
    ASSUME NEW st, Sound(st), st.sentLogon = TRUE, st.receivedLogon = TRUE
    PROVE  Sound(send(st)) /\ Frame(st, send(st), Sent)
           /\ (Modest(st.out) => Modest(send(st).out))
<1>1. send(st) = sendRaw(st, "App", 0)
  BY DEF send, isLoggedOn
<1>2. LET r == sendRaw(st, "App", 0)
      IN  Sound(r) /\ Frame(st, r, Sent) /\ (Modest(st.out) => Modest(r.out))
  BY AnswerSound
<1> QED BY <1>1, <1>2

(* An order on a session that is not: it is refused or only stored.        *)
LEMMA SendOff ==
    ASSUME NEW st, Off(st)
    PROVE  Off(send(st)) /\ Frame(st, send(st), Sent) /\ send(st).out = st.out
<1> DEFINE u == [st EXCEPT !.sent = 0]
           w == sendRaw(st, "App", 0)
<1>0. Sound(st) /\ ~isLoggedOn(st)
  BY DEF Off, isLoggedOn
<1>1. send(st) = IF shouldSendReset(st) THEN u ELSE w
  BY <1>0 DEF send
<1>2. Frame(st, u, {"sent"}) /\ u.sent = 0
  BY <1>0 DEF Frame, Fields, Sound
<1>3. Sound(w) /\ Sends(st, w, Msg("App", st.sender, FALSE, 0))
  BY <1>0, SendRawSound DEF Kinds
<1> HIDE DEF u, w
<1>4. Sound(u)
  <2>1. 0 \in 0..HeartBtInt
    BY TimesAssumption
  <2>2. Typed(u)
    BY <1>0, <1>2, <2>1 DEF Typed, Sound, Frame, Fields, Switches
  <2> QED BY <1>0, <1>2, <2>2, ChangeSound
<1>5. w.out = st.out /\ Frame(st, w, Sent) /\ w.sender = st.sender + 1
  <2>1. Msg("App", st.sender, FALSE, 0).kind \notin Urgent
    BY DEF Msg, Urgent
  <2> QED BY <1>0, <1>3, <2>1 DEF Sends
<1>6. Frame(st, u, Sent) /\ u.out = st.out /\ u.sender = st.sender
  BY <1>2 DEF Frame, Fields, Sent
<1>7. ASSUME NEW r, Sound(r), Frame(st, r, Sent), r.sender = st.sender \/ r.sender = st.sender + 1
      PROVE  Off(r)
  <2>1. /\ r.aborted = st.aborted
        /\ r.receivedLogon = st.receivedLogon /\ r.sentLogon = st.sentLogon
        /\ r.receivedReset = st.receivedReset /\ r.sentLogout = st.sentLogout
        /\ r.sentReset = st.sentReset
        /\ r.target = st.target /\ r.delivered = st.delivered /\ r.queue = st.queue
        /\ r.range = st.range
    BY <1>7 DEF Frame, Fields, Switches, Sent
  <2>2. st.sender \in Nat \ {0}
    BY <1>0 DEF Sound, Typed
  <2>3. Quiet(r)
    BY <1>7, <2>1, <2>2 DEF Off, Quiet
  <2> QED BY <1>7, <2>1, <2>3 DEF Off
<1>8. Off(u) /\ Off(w)
  BY <1>3, <1>4, <1>5, <1>6, <1>7
<1> QED BY <1>1, <1>5, <1>6, <1>8

-----------------------------------------------------------------------------
(* The application messages in what the counterparty has sent.             *)

(* Their numbers, among the first n kinds of a log.                        *)
AppsOf(log, n) ==
    FlattenSeq([i \in 1 .. n |-> IF log[i] = "App" THEN <<i>> ELSE << >>])

(* There are none at the beginning, and one more with every application    *)
(* message.                                                                *)
LEMMA AppsOfStep ==
    ASSUME NEW log, NEW n \in Nat
    PROVE  /\ AppsOf(log, 0) = << >>
           /\ AppsOf(log, n) \in Seq(Nat)
           /\ AppsOf(log, n + 1) = IF log[n + 1] = "App"
                                   THEN Append(AppsOf(log, n), n + 1)
                                   ELSE AppsOf(log, n)
<1> DEFINE P == Seq(Nat)
           part(i) == IF log[i] = "App" THEN <<i>> ELSE << >>
           parts(k) == [i \in 1 .. k |-> part(i)]
<1>1. \A i \in Nat : part(i) \in P
  OBVIOUS
<1>2. FlattenSeq(<< >>) = << >>
  BY DEF FlattenSeq
<1>3. parts(0) = << >>
  OBVIOUS
<1>4. \A k \in Nat : AppsOf(log, k) = FlattenSeq(parts(k))
  BY DEF AppsOf
<1>h. part(n + 1) = IF log[n + 1] = "App" THEN <<n + 1>> ELSE << >>
  OBVIOUS
<1> HIDE DEF P, part
<1>5. parts(n) \in Seq(P) /\ Len(parts(n)) = n
  BY <1>1
<1>6. parts(n + 1) = Append(parts(n), part(n + 1))
  <2>1. part(n + 1) \in P
    BY <1>1
  <2> DEFINE a == Append(parts(n), part(n + 1))
  <2>2. a \in Seq(P) /\ Len(a) = n + 1 /\ parts(n + 1) \in Seq(P) /\ Len(parts(n + 1)) = n + 1
    BY <1>1, <1>5, <2>1
  <2>3. \A i \in 1 .. n + 1 : a[i] = parts(n + 1)[i]
    <3> SUFFICES ASSUME NEW i \in 1 .. n + 1 PROVE a[i] = part(i)
      OBVIOUS
    <3>1. CASE i = n + 1
      BY <1>5, <2>1, <3>1
    <3>2. CASE i \in 1 .. n
      <4>1. a[i] = parts(n)[i]
        BY <1>5, <2>1, <3>2
      <4> QED BY <3>2, <4>1
    <3> QED BY <3>1, <3>2
  <2> HIDE DEF a, parts
  <2>4. parts(n + 1) = a
    BY <2>2, <2>3, SeqEqual
  <2> QED BY <2>4 DEF a
<1> HIDE DEF parts
<1>7. FlattenSeq(parts(n)) \in P
  BY <1>5, FlattenType DEF P
<1>8. FlattenSeq(parts(n + 1)) = FlattenSeq(parts(n)) \o part(n + 1)
  <2>1. part(n + 1) \in P
    BY <1>1
  <2> QED BY <1>5, <1>6, <2>1, FlattenAppend DEF P
<1>9. AppsOf(log, 0) = << >>
  BY <1>2, <1>3, <1>4
<1>10. AppsOf(log, n) = FlattenSeq(parts(n)) /\ AppsOf(log, n + 1) = FlattenSeq(parts(n + 1))
  BY <1>4
<1>11. \A q \in Seq(Nat) : q \o << >> = q /\ q \o <<n + 1>> = Append(q, n + 1)
  OBVIOUS
<1> QED BY <1>7, <1>8, <1>9, <1>10, <1>11, <1>h DEF P

(* They depend on the part of the log that they are taken from.            *)
LEMMA AppsOfSame ==
    ASSUME NEW log, NEW more, NEW n \in Nat, \A i \in 1..n : more[i] = log[i]
    PROVE  AppsOf(more, n) = AppsOf(log, n)
<1>1. [i \in 1 .. n |-> IF more[i] = "App" THEN <<i>> ELSE << >>] =
      [i \in 1 .. n |-> IF log[i] = "App" THEN <<i>> ELSE << >>]
  OBVIOUS
<1> QED BY <1>1 DEF AppsOf

(* A stretch without application messages adds none.                       *)
LEMMA AppsOfGap ==
    ASSUME NEW log, NEW n \in Nat, NEW k \in Nat, n <= k,
           \A i \in n + 1 .. k : log[i] # "App"
    PROVE  AppsOf(log, k) = AppsOf(log, n)
<1> DEFINE Bad == {j \in Nat : n <= j /\ j <= k /\ AppsOf(log, j) # AppsOf(log, n)}
<1> SUFFICES ASSUME Bad # {} PROVE FALSE
  OBVIOUS
<1>1. PICK j \in Bad : \A i \in Bad : j <= i
  BY LeastElement
<1>2. j \in Nat /\ n <= j /\ j <= k /\ j # n /\ AppsOf(log, j) # AppsOf(log, n)
  BY <1>1
<1>3. j - 1 \in Nat /\ n <= j - 1 /\ j - 1 <= k /\ j - 1 \notin Bad
  BY <1>1, <1>2
<1>4. AppsOf(log, j - 1) = AppsOf(log, n)
  BY <1>3
<1>5. log[j] # "App" /\ (j - 1) + 1 = j
  BY <1>2
<1>6. AppsOf(log, (j - 1) + 1) = AppsOf(log, j - 1)
  BY <1>3, <1>5, AppsOfStep
<1> QED BY <1>2, <1>4, <1>5, <1>6

-----------------------------------------------------------------------------
(* A session that is logged on, against what the counterparty has sent.    *)

PeerSaid == {"Logon", "Logout", "Heartbeat", "ResendRequest"} \cup PeerKinds

(* What the counterparty has sent on a connection begins with its Logon.   *)
PeerLog(log) ==
    /\ log \in Seq(PeerSaid)
    /\ log # << >> => log[1] = "Logon"
    /\ \A n \in 2 .. Len(log) : log[n] # "Logon"

(* What it says on it: a message it has sent, or a gap fill over messages  *)
(* that are no application messages.                                       *)
Told(m, log) ==
    IF m.kind = "GapFill"
    THEN /\ m.seq # 1 /\ m.arg <= Len(log) + 1
         /\ \A n \in m.seq .. m.arg - 1 : log[n] # "App"
    ELSE /\ m.seq \in 1 .. Len(log) /\ log[m.seq] = m.kind
         /\ m.kind = "Logon" => m.arg = 1 /\ m.poss = FALSE

Numbered == {"App", "Heartbeat", "TestRequest", "GapFill"}

(* What was handed over is what was sent below the expected number.        *)
Follows(st, log) ==
    /\ st.target # 1 /\ st.target <= Len(log) + 1
    /\ st.delivered = AppsOf(log, st.target - 1)
    /\ \A q \in st.queue : Told(q, log) /\ q.kind \in Numbered

On(st, log) ==
    /\ Sound(st) /\ st.aborted = FALSE /\ st.responder = TRUE
    /\ st.sentLogon = TRUE /\ st.receivedLogon = TRUE
    /\ st.sentReset = FALSE /\ st.receivedReset = FALSE
    /\ st.sentLogout = TRUE => st.enabled = FALSE
    /\ Follows(st, log)

(* The kinds of what the counterparty says, and the number of a Logon.     *)
LEMMA ToldKinds ==
    ASSUME NEW m \in Proper, NEW log, PeerLog(log), Told(m, log)
    PROVE  /\ m.kind \in {"Logon", "Logout", "Heartbeat", "ResendRequest", "App",
                          "Bad", "TestRequest", "GapFill"}
           /\ m.kind = "Logon" <=> m.seq = 1
           /\ m.kind = "Logon" => m.arg = 1 /\ m.poss = FALSE
<1>1. m.kind # "GapFill" =>
         /\ m.seq \in 1 .. Len(log) /\ log[m.seq] = m.kind
         /\ m.kind = "Logon" => m.arg = 1 /\ m.poss = FALSE
  BY DEF Told
<1>2. m.kind = "GapFill" => m.seq # 1
  BY DEF Told
<1>3. \A n \in 1..Len(log) : log[n] \in PeerSaid
  BY DEF PeerLog
<1>4. \A n \in 1..Len(log) : log[n] = "Logon" <=> n = 1
  BY DEF PeerLog
<1>5. m.kind # "GapFill" => m.kind \in PeerSaid
  BY <1>1, <1>3
<1>6. m.kind \in {"Logon", "Logout", "Heartbeat", "ResendRequest", "App",
                  "Bad", "TestRequest", "GapFill"}
  BY <1>5, PeerAssumption DEF PeerSaid
<1> QED BY <1>1, <1>2, <1>4, <1>6

(* A session that moves stays logged on and follows the counterparty.      *)
LEMMA MovesOn ==
    ASSUME NEW st, NEW r, NEW log, On(st, log), PeerLog(log),
           NEW m \in Proper, Told(m, log), Sound(r), Moves(st, r, m)
    PROVE  On(r, log)
<1>1. Frame(st, r, Moved)
  BY DEF Moves
<1>2. /\ r.aborted = st.aborted /\ r.responder = st.responder
      /\ r.sentLogon = st.sentLogon /\ r.receivedLogon = st.receivedLogon
      /\ r.sentReset = st.sentReset /\ r.receivedReset = st.receivedReset
      /\ r.sentLogout = st.sentLogout /\ r.enabled = st.enabled
  BY <1>1 DEF Frame, Fields, Switches, Moved, Sent
<1>3. /\ st.target # 1 /\ st.target <= Len(log) + 1 /\ st.target \in Nat \ {0}
      /\ st.delivered = AppsOf(log, st.target - 1)
      /\ \A q \in st.queue : Told(q, log) /\ q.kind \in Numbered
  BY DEF On, Follows, Sound, Typed
<1>4. m.seq \in Nat \ {0} /\ m.arg \in Nat /\ Len(log) \in Nat
  BY ProperType DEF PeerLog
<1>5. Follows(r, log)
  <2>1. CASE r.target = st.target /\ r.delivered = st.delivered /\ r.queue = st.queue
    BY <1>3, <2>1 DEF Follows
  <2>2. CASE /\ r.target = st.target /\ r.delivered = st.delivered
             /\ m.kind \in {"App", "Heartbeat", "TestRequest", "GapFill"}
             /\ r.queue = {q \in st.queue : q.seq # m.seq} \cup {m}
    <3>1. \A q \in r.queue : Told(q, log) /\ q.kind \in Numbered
      BY <1>3, <2>2 DEF Numbered
    <3> QED BY <1>3, <2>2, <3>1 DEF Follows
  <2>3. CASE /\ m.seq = st.target /\ m.kind \notin {"Logon", "GapFill"}
             /\ r.target = st.target + 1 /\ r.queue = st.queue
             /\ IF m.kind = "App"
                THEN r.delivered = Append(st.delivered, m.seq) /\ r.received = 0
                ELSE r.delivered = st.delivered
    <3>1. st.target <= Len(log) /\ log[st.target] = m.kind
      BY <1>4, <2>3 DEF Told
    <3>2. st.target - 1 \in Nat /\ (st.target - 1) + 1 = st.target
      BY <1>3
    <3>3. AppsOf(log, (st.target - 1) + 1) =
             IF log[(st.target - 1) + 1] = "App"
             THEN Append(AppsOf(log, st.target - 1), (st.target - 1) + 1)
             ELSE AppsOf(log, st.target - 1)
      BY <3>2, AppsOfStep
    <3>4. r.delivered = AppsOf(log, st.target)
      <4>1. CASE m.kind = "App"
        BY <1>3, <2>3, <3>1, <3>2, <3>3, <4>1
      <4>2. CASE m.kind # "App"
        BY <1>3, <2>3, <3>1, <3>2, <3>3, <4>2
      <4> QED BY <4>1, <4>2
    <3>5. r.target - 1 = st.target /\ r.target # 1 /\ r.target <= Len(log) + 1
      BY <1>3, <1>4, <2>3, <3>1
    <3> QED BY <1>3, <2>3, <3>4, <3>5 DEF Follows
  <2>4. CASE /\ m.seq = st.target /\ m.kind = "GapFill" /\ m.arg > st.target
             /\ r.target = m.arg /\ r.delivered = st.delivered /\ r.queue = st.queue
    <3>1. /\ m.arg <= Len(log) + 1
          /\ \A n \in m.seq .. m.arg - 1 : log[n] # "App"
      BY <2>4 DEF Told
    <3>2. /\ st.target - 1 \in Nat /\ m.arg - 1 \in Nat /\ st.target - 1 <= m.arg - 1
          /\ (st.target - 1) + 1 = m.seq
      BY <1>3, <1>4, <2>4
    <3>3. \A n \in (st.target - 1) + 1 .. m.arg - 1 : log[n] # "App"
      BY <3>1, <3>2
    <3>4. AppsOf(log, m.arg - 1) = AppsOf(log, st.target - 1)
      BY <3>2, <3>3, AppsOfGap
    <3>5. r.target # 1
      BY <1>3, <1>4, <2>4
    <3> QED BY <1>3, <2>4, <3>1, <3>4, <3>5 DEF Follows
  <2> QED BY <2>1, <2>2, <2>3, <2>4 DEF Moves
<1> QED BY <1>2, <1>5 DEF On

(* A session that has been logged on follows from the Logon on.            *)
LEMMA LoggedOnOn ==
    ASSUME NEW st, NEW r, NEW m, NEW log, PeerLog(log), log # << >>,
           Sound(st), Sound(r), LoggedOn(st, r, m),
           st.delivered = << >>, st.queue = {}, st.responder = TRUE,
           st.sentLogout = TRUE => st.enabled = FALSE
    PROVE  On(r, log) /\ r.delivered = << >> /\ r.queue = {} /\ r.received = 0
<1>1. /\ r.sentLogout = st.sentLogout /\ r.enabled = st.enabled
      /\ r.queue = st.queue /\ r.responder = st.responder
  BY DEF LoggedOn, Frame, Fields, Switches, Sent, Numbers
<1>2. /\ r.target = 2 /\ r.delivered = << >> /\ r.received = 0
      /\ r.sentLogon = TRUE /\ r.receivedLogon = TRUE
      /\ r.sentReset = FALSE /\ r.receivedReset = FALSE /\ r.aborted = FALSE
  BY DEF LoggedOn
<1>3. AppsOf(log, 1) = << >>
  <2>1. log[0 + 1] # "App"
    BY DEF PeerLog
  <2>2. /\ AppsOf(log, 0) = << >>
        /\ AppsOf(log, 0 + 1) = IF log[0 + 1] = "App"
                                THEN Append(AppsOf(log, 0), 0 + 1)
                                ELSE AppsOf(log, 0)
    BY AppsOfStep
  <2> QED BY <2>1, <2>2
<1>4. Len(log) \in Nat /\ Len(log) >= 1
  <2>1. log \in Seq(PeerSaid)
    BY DEF PeerLog
  <2> QED BY <2>1, EmptySeq
<1>5. Follows(r, log)
  <2>1. r.target - 1 = 1 /\ r.target # 1 /\ r.target <= Len(log) + 1
    BY <1>2, <1>4
  <2> QED BY <1>1, <1>2, <1>3, <2>1 DEF Follows
<1> QED BY <1>1, <1>2, <1>5 DEF On

-----------------------------------------------------------------------------
(* The session on a connection.                                            *)

(* Where the socket thread is, by the state of the session.                *)
Placed(st) ==
    /\ st.responder = TRUE => st.reading = "wait"
    /\ st.reading = "stream" => st.sentLogon = FALSE
    /\ st.receivedLogon = FALSE /\ st.reading # "stream" =>
          st.draining = FALSE /\ st.last = << >>

(* A Logon that was handled last has just begun the session, or found it   *)
(* disabled.                                                               *)
Fresh(st) ==
    st.last # << >> /\ st.last[1].kind = "Logon" =>
        IF st.receivedLogon THEN st.received = 0 /\ st.delivered = << >> /\ st.queue = {}
        ELSE st.enabled = FALSE

Obeys(st) == st.enabled = FALSE => st.shuttingDown = TRUE

(* A session that has not aborted, on a connection with this log.          *)
Linked(st, log) ==
    /\ Off(st) \/ On(st, log)
    /\ Obeys(st) /\ Placed(st) /\ Fresh(st)
    /\ \A i \in 1..Len(st.last) : Told(st.last[i], log)
    /\ st.draining = FALSE => Queued(st) = {}

(* What a step hands over: nothing, the next application message, or       *)
(* nothing more when the connection ends.                                  *)
Hands(st, r, log) ==
    \/ r.delivered = st.delivered /\ r.responder = st.responder
    \/ r.responder = FALSE /\ r.delivered \in {st.delivered, << >>}
    \/ /\ r.delivered = Append(st.delivered, st.target)
       /\ r.responder = st.responder /\ st.responder = TRUE
       /\ st.target \in 1..Len(log) /\ log[st.target] = "App"

(* What a message comes to, before the socket thread goes on.              *)
Outcome(st, p, m, log) ==
    /\ Sound(p) /\ Frame(st, p, Fields \ (Aside \ {"greeting"}))
    /\ \/ p.aborted = TRUE /\ p.responder = FALSE /\ p.sentLogon = FALSE
       \/ /\ Off(p) /\ p.responder = FALSE /\ p.sentLogon = FALSE
          /\ m.kind = "App" => p.queue = {}
          /\ m.kind = "Logon" => p.enabled = FALSE
       \/ /\ On(p, log)
          /\ m.kind = "Logon" =>
                p.received = 0 /\ p.delivered = << >> /\ p.queue = {}
          /\ m.kind = "App" /\ Queued(st) = {} /\ p.target # st.target + 1 =>
                Queued(p) = {}
    /\ Modest(st.out) /\ st.receivedLogon = TRUE => Modest(p.out)
    /\ Modest(st.out) /\ m.kind = "Logon" => Modest(p.out)
    /\ st.responder = FALSE => p.out = st.out
    /\ Hands(st, p, log)

(* A session that has left.                                                *)
LEMMA LeftOutcome ==
    ASSUME NEW st, NEW p, NEW m, NEW log, Sound(p), Left(st, p),
           st.responder = TRUE, st.aborted = FALSE, Sound(st),
           m.kind = "Logon" => st.enabled = FALSE
    PROVE  Outcome(st, p, m, log)
<1>1. Frame(st, p, Fields \ (Aside \ {"greeting"})) /\ p.enabled = st.enabled
  BY DEF Left, Frame, Fields, Switches, Aside
<1>2. /\ p.responder = FALSE /\ p.sentLogon = FALSE
      /\ Modest(st.out) => Modest(p.out)
      /\ p.delivered \in {st.delivered, << >>}
      /\ p.aborted = TRUE \/ p.aborted = FALSE
  BY DEF Left
<1>3. p.aborted = FALSE => Off(p) /\ p.queue = {}
  BY LeftIsOff
<1>4. Hands(st, p, log)
  BY <1>2 DEF Hands
<1> QED BY <1>1, <1>2, <1>3, <1>4 DEF Outcome

(* A message, no Logon, on a session that is logged on.                    *)
LEMMA OutcomeOn ==
    ASSUME NEW st, NEW log, On(st, log), PeerLog(log),
           NEW m \in Proper, Told(m, log), m.kind # "Logon"
    PROVE  /\ Outcome(st, nextMessage(st, m), m, log)
           /\ Handled(st, nextMessage(st, m), m)
<1> DEFINE p == nextMessage(st, m)
<1>1. /\ Sound(st) /\ st.aborted = FALSE /\ st.responder = TRUE
      /\ st.receivedLogon = TRUE
      /\ st.target # 1
  BY DEF On, Follows
<1>2. m.kind \in {"App", "Heartbeat", "TestRequest", "GapFill",
                  "ResendRequest", "Logout", "Bad"}
  BY ToldKinds
<1>3. Handled(st, p, m)
  BY <1>1, <1>2, MessageHandled DEF Hears
<1> HIDE DEF p
<1>4. CASE Left(st, p)
  BY <1>1, <1>3, <1>4, LeftOutcome DEF Handled, p
<1>5. CASE Moves(st, p, m)
  <2>1. Sound(p) /\ On(p, log)
    BY <1>3, <1>5, MovesOn DEF Handled
  <2>2. Frame(st, p, Moved)
    BY <1>5 DEF Moves
  <2>3. Frame(st, p, Fields \ (Aside \ {"greeting"})) /\ p.responder = st.responder
    BY <2>2 DEF Frame, Fields, Switches, Aside, Moved, Sent
  <2>4. m.kind = "App" /\ Queued(st) = {} /\ p.target # st.target + 1 => Queued(p) = {}
    <3> SUFFICES ASSUME m.kind = "App", Queued(st) = {}, p.target # st.target + 1
                 PROVE  Queued(p) = {}
      OBVIOUS
    <3>0. m.seq \in Nat /\ st.target \in Nat
      BY <1>1, ProperType DEF Sound, Typed
    <3>1. p.target = st.target /\ \A q \in p.queue : q \in st.queue \/ (q = m /\ m.seq > st.target)
      BY <1>5 DEF Moves
    <3>2. \A q \in p.queue : q.seq # p.target
      BY <3>0, <3>1 DEF Queued
    <3> QED BY <3>2 DEF Queued
  <2>5. Modest(st.out) => Modest(p.out)
    BY <1>1, <1>5 DEF Moves
  <2>6. Hands(st, p, log)
    <3>1. m.kind = "App" => m.seq \in 1..Len(log) /\ log[m.seq] = "App"
      BY DEF Told
    <3>2. \/ p.delivered = st.delivered
          \/ m.kind = "App" /\ m.seq = st.target /\ p.delivered = Append(st.delivered, m.seq)
      BY <1>5 DEF Moves
    <3> QED BY <1>1, <2>3, <3>1, <3>2 DEF Hands
  <2>7. Outcome(st, p, m, log)
    BY <1>1, <2>1, <2>3, <2>4, <2>5, <2>6 DEF Outcome
  <2> QED BY <1>3, <2>7 DEF p
<1> QED BY <1>3, <1>4, <1>5 DEF Handled

(* A message in the buffer of a session that is off.                       *)
LEMMA OutcomeOff ==
    ASSUME NEW st, NEW log, Off(st), st.responder = FALSE, st.sentLogon = FALSE,
           PeerLog(log), NEW m \in Proper, Told(m, log),
           m.kind = "Logon" => st.enabled = FALSE
    PROVE  Outcome(st, nextMessage(st, m), m, log)
<1> DEFINE p == nextMessage(st, m)
<1>1. /\ m.kind \in {"Logon", "Logout", "Heartbeat", "ResendRequest", "App",
                     "Bad", "TestRequest", "GapFill"}
      /\ m.kind = "Logon" <=> m.seq = 1
  BY ToldKinds
<1>2. OffHandled(st, p, m)
  <2>1. CASE m.kind = "GapFill"
    BY <1>1, <2>1, OffGapFill
  <2>2. CASE m.kind = "Bad"
    BY <1>1, <2>2, OffBad
  <2>3. CASE m.kind \notin {"GapFill", "Bad"}
    BY <1>1, <2>3, OffOther
  <2> QED BY <2>1, <2>2, <2>3
<1> HIDE DEF p
<1>3. /\ Off(p) /\ p.responder = FALSE /\ p.sentLogon = FALSE /\ p.out = st.out
      /\ m.kind = "App" => p.queue = {}
      /\ Frame(st, p, Fields \ Aside)
  BY <1>2 DEF OffHandled
<1>4. Frame(st, p, Fields \ (Aside \ {"greeting"})) /\ p.enabled = st.enabled
  BY <1>3 DEF Frame, Fields, Switches, Aside
<1>5. p.delivered = << >> /\ st.delivered = << >> /\ Sound(p)
  BY <1>3 DEF Off, Quiet
<1>6. Hands(st, p, log)
  BY <1>3, <1>5 DEF Hands
<1> QED BY <1>3, <1>4, <1>5, <1>6 DEF Outcome, p

(* A Logon on an open connection.                                          *)
LEMMA OutcomeLogon ==
    ASSUME NEW st, NEW log, Off(st) \/ On(st, log), st.responder = TRUE,
           st.sentLogon = TRUE, st.delivered = << >>, st.queue = {},
           PeerLog(log), log # << >>, NEW m \in Proper, Told(m, log), m.kind = "Logon"
    PROVE  Outcome(st, nextMessage(st, m), m, log)
<1> DEFINE p == nextMessage(st, m)
<1>1. m.seq = 1 /\ m.arg = 1 /\ m.poss = FALSE
  BY ToldKinds
<1>2. /\ Sound(st) /\ st.aborted = FALSE
      /\ st.sentReset = TRUE => st.target = 1
      /\ st.sentLogout = TRUE => st.enabled = FALSE
  BY DEF Off, On, Quiet
<1>3. st.enabled \in BOOLEAN /\ st.sentReset \in BOOLEAN
  BY <1>2 DEF Sound, Typed, Switches
<1>4. p = nextLogon(st, m)
  BY DEF nextMessage
<1>5. CASE st.enabled = TRUE
  <2>1. Sound(p) /\ LoggedOn(st, p, m)
    BY <1>1, <1>2, <1>3, <1>4, <1>5, LogonSound
  <2> HIDE DEF p
  <2>2. On(p, log) /\ p.delivered = << >> /\ p.queue = {} /\ p.received = 0
    BY <1>2, <2>1, LoggedOnOn
  <2>3. /\ Frame(st, p, Fields \ (Aside \ {"greeting"})) /\ p.responder = st.responder
    BY <2>1 DEF LoggedOn, Frame, Fields, Switches, Aside, Sent, Numbers
  <2>4. Hands(st, p, log)
    BY <2>2, <2>3 DEF Hands
  <2>5. Modest(st.out) => Modest(p.out)
    BY <2>1 DEF LoggedOn
  <2> QED BY <2>1, <2>2, <2>3, <2>4, <2>5 DEF Outcome, p
<1>6. CASE st.enabled = FALSE
  <2>1. p = disconnect(st)
    BY <1>4, <1>6 DEF nextLogon
  <2>2. Sound(p) /\ Left(st, p)
    BY <1>2, <2>1, LeftNow
  <2> QED BY <1>2, <1>6, <2>2, LeftOutcome
<1> QED BY <1>3, <1>5, <1>6

-----------------------------------------------------------------------------
(* The inductive invariant.                                                *)

(* What is on its way from the counterparty: a Logon is the first message  *)
(* and finds the session waiting for it.                                   *)
Inbox(st, box, log) ==
    /\ \A i \in 1..Len(box) : Told(box[i], log)
    /\ \A i \in 1..Len(box) : box[i].kind = "Logon" =>
          i = 1 /\ st.reading = "wait" /\ st.receivedLogon = FALSE
    /\ log = << >> => box = << >>
    /\ log # << >> /\ st.receivedLogon = FALSE /\ st.responder = TRUE =>
          /\ st.queue = {} /\ st.sentLogon = TRUE
          /\ box # << >> /\ box[1].kind = "Logon"

(* What is on its way to the counterparty.                                 *)
Outbox(st, log) ==
    IF log = << >>
    THEN \A i \in 1..Len(st.out) :
            /\ st.out[i].kind = "Logon"
            /\ st.responder = TRUE /\ st.sentLogon = TRUE
            /\ st.out[i].seq = 1 => st.queue = {}
    ELSE Modest(st.out)

LinkInv ==
    /\ Sound(s)
    /\ isLoggedOn(s) => s.responder = TRUE
    /\ inbox \in Seq(Proper)
    /\ DOMAIN peer = {"on", "log", "expected", "accepted"}
    /\ PeerLog(peer.log)
    /\ peer.expected \in Nat \ {0}
    /\ peer.on /\ peer.log = << >> => ~(0 < MaxPeer)
    /\ s.aborted = FALSE =>
          /\ Linked(s, peer.log)
          /\ Inbox(s, inbox, peer.log)
          /\ Outbox(s, peer.log)

(* What no step of the socket thread itself changes but the members here.  *)
Place == {"reading", "last", "draining", "greeting"}

Placeable(r) ==
    /\ r.reading \in {"wait", "stream", "ended"}
    /\ r.last \in Seq(Proper) /\ Len(r.last) <= 1
    /\ r.draining \in BOOLEAN /\ r.greeting \in BOOLEAN

(* The session is off or logged on, as it was before.                      *)
Alike(st, r) ==
    /\ Sound(r)
    /\ Off(st) => Off(r)
    /\ \A log : On(st, log) => On(r, log)
    /\ Queued(r) = Queued(st)

(* The place of the socket thread does not matter to the session.          *)
LEMMA PlaceSound ==
    ASSUME NEW st, NEW r, Sound(st), Frame(st, r, Place), Placeable(r)
    PROVE  Alike(st, r)
<1> USE DEF Placeable
<1>1. /\ r.sentLogon = st.sentLogon /\ r.receivedLogon = st.receivedLogon
      /\ r.aborted = st.aborted /\ r.receivedReset = st.receivedReset
      /\ r.sentLogout = st.sentLogout /\ r.sentReset = st.sentReset
      /\ r.target = st.target /\ r.delivered = st.delivered /\ r.queue = st.queue
      /\ r.range = st.range /\ r.sender = st.sender /\ r.responder = st.responder
      /\ r.enabled = st.enabled /\ r.out = st.out /\ r.transmitted = st.transmitted
      /\ r.market = st.market /\ r.shuttingDown = st.shuttingDown
      /\ r.apps = st.apps /\ r.testRequest = st.testRequest
      /\ r.received = st.received /\ r.sent = st.sent
      BY DEF Frame, Fields, Switches, Place
<1>2. DOMAIN r = Fields
      BY DEF Frame
<1>3. \A f \in Switches : r[f] \in BOOLEAN
  <2>1. \A f \in Switches : f \in Place => f \in {"draining", "greeting"}
        BY DEF Switches, Place
  <2>2. \A f \in Switches \ Place : r[f] = st[f]
        BY DEF Frame, Fields
  <2> QED
        BY <2>1, <2>2 DEF Sound, Typed
<1>4. Typed(r) /\ Carried(r) /\ Unique(r)
      BY <1>1, <1>3 DEF Sound, Typed, Carried, Unique
<1>5. Sound(r)
      BY <1>2, <1>4 DEF Sound
<1>6. Off(st) => Off(r)
      BY <1>1, <1>5 DEF Off, Quiet
<1>7. \A log : On(st, log) => On(r, log)
      BY <1>1, <1>5 DEF On, Follows
<1> QED
      BY <1>1, <1>5, <1>6, <1>7 DEF Alike, Queued

(* A step of the session that its counterparty does not see.               *)
Keeps(st, r, log) ==
    /\ Sound(r)
    /\ isLoggedOn(r) => r.responder = TRUE
    /\ r.aborted = FALSE => Linked(r, log) /\ Outbox(r, log)
    /\ Hands(st, r, log)

(* A step that takes something from the inbox.                             *)
Consumes(st, r, log) ==
    /\ Keeps(st, r, log)
    /\ r.aborted = FALSE /\ r.receivedLogon = FALSE => r.responder = FALSE

(* A step that takes nothing from it.                                      *)
Spares(st, r, log) ==
    /\ Keeps(st, r, log)
    /\ r.aborted = FALSE =>
          /\ r.receivedLogon = FALSE /\ r.responder = TRUE =>
                /\ st.receivedLogon = FALSE /\ st.responder = TRUE
                /\ r.queue = st.queue
                /\ st.sentLogon = TRUE => r.sentLogon = TRUE
          /\ st.receivedLogon = FALSE /\ st.reading = "wait" =>
                r.receivedLogon = FALSE /\ r.reading = "wait"

(* A session that may be handed m.                                         *)
MayHear(st, m, log) ==
    /\ Linked(st, log) /\ st.aborted = FALSE /\ st.draining = FALSE
    /\ st.out = << >>
    /\ st.reading = "stream" \/ (st.reading = "wait" /\ st.responder = TRUE)
    /\ PeerLog(log) /\ m \in Proper /\ Told(m, log)
    /\ st.receivedLogon = FALSE /\ st.responder = TRUE =>
          m.kind = "Logon" /\ st.sentLogon = TRUE /\ st.queue = {}
    /\ m.kind = "Logon" =>
          IF st.responder THEN st.delivered = << >> /\ st.queue = {}
          ELSE st.enabled = FALSE

(* What the handler makes of the message.                                  *)
LEMMA HeardOutcome ==
    ASSUME NEW st, NEW m, NEW log, MayHear(st, m, log)
    PROVE  /\ Outcome(st, nextMessage(st, m), m, log)
           /\ log = << >> => st.responder = FALSE
           /\ st.responder = TRUE /\ st.receivedLogon = FALSE => m.kind = "Logon"
<1>1. /\ Off(st) \/ On(st, log)
      /\ Placed(st)
      /\ PeerLog(log) /\ m \in Proper /\ Told(m, log)
      BY DEF MayHear, Linked
<1>2. st.responder \in BOOLEAN /\ Sound(st) /\ st.receivedLogon \in BOOLEAN
      BY <1>1 DEF Off, On, Sound, Typed, Switches
<1>3. CASE On(st, log)
  <2>1. st.responder = TRUE /\ st.receivedLogon = TRUE /\ st.sentLogon = TRUE
        BY <1>3 DEF On
  <2>2. log # << >>
    <3>1. st.target # 1 /\ st.target <= Len(log) + 1 /\ st.target \in Nat \ {0}
          BY <1>3 DEF On, Follows, Sound, Typed
    <3> QED
          BY <3>1
  <2>3. m.kind # "Logon" => Outcome(st, nextMessage(st, m), m, log)
        BY <1>1, <1>3, OutcomeOn
  <2>4. m.kind = "Logon" => Outcome(st, nextMessage(st, m), m, log)
        BY <1>1, <1>3, <2>1, <2>2, OutcomeLogon DEF MayHear
  <2> QED
        BY <2>1, <2>2, <2>3, <2>4
<1>4. CASE Off(st) /\ st.responder = TRUE
  <2>1. m.kind = "Logon" /\ st.sentLogon = TRUE /\ st.queue = {} /\ st.delivered = << >>
        BY <1>4 DEF MayHear, Off, Quiet
  <2>2. log # << >>
        BY <1>1, <2>1 DEF Told
  <2> QED
        BY <1>1, <1>4, <2>1, <2>2, OutcomeLogon
<1>5. CASE Off(st) /\ st.responder = FALSE
  <2>1. st.sentLogon = FALSE
        BY <1>5 DEF MayHear, Placed, Linked
  <2>2. m.kind = "Logon" => st.enabled = FALSE
        BY <1>5 DEF MayHear
  <2> QED
        BY <1>1, <1>5, <2>1, <2>2, OutcomeOff
<1> QED
      BY <1>1, <1>2, <1>3, <1>4, <1>5

(* The place of the socket thread after a message.                         *)
LEMMA AfterPlace ==
    ASSUME NEW p, Sound(p)
    PROVE  /\ Frame(p, After(p), {"reading"})
           /\ After(p).reading = (IF p.responder THEN p.reading ELSE "stream")
BY DEF After, Frame, Sound, Fields, Switches

(* Receive, on a session that may be handed the message.                   *)
LEMMA ReceiveConsumes ==
    ASSUME NEW st, NEW m, NEW log, MayHear(st, m, log), NEW p, NEW r,
           p = nextMessage(st, m),
           r = [After(p) EXCEPT
                   !.last = <<m>>,
                   !.draining = m.kind # "App" \/ p.target = st.target + 1]
    PROVE  Consumes(st, r, log)
<1>1. /\ Outcome(st, p, m, log)
      /\ log = << >> => st.responder = FALSE
      /\ st.responder = TRUE /\ st.receivedLogon = FALSE => m.kind = "Logon"
      BY HeardOutcome
<1>2. r = [After(p) EXCEPT !.last = <<m>>,
                           !.draining = m.kind # "App" \/ p.target = st.target + 1]
      OBVIOUS
<1>3. Sound(p) /\ DOMAIN p = Fields /\ Hands(st, p, log)
      BY <1>1 DEF Outcome, Sound
<1>4. /\ Frame(p, r, Place)
      /\ r.reading = (IF p.responder THEN p.reading ELSE "stream")
      /\ r.last = <<m>> /\ r.greeting = p.greeting
      /\ r.draining = (m.kind # "App" \/ p.target = st.target + 1)
  <2>1. /\ Frame(p, After(p), {"reading"})
        /\ After(p).reading = (IF p.responder THEN p.reading ELSE "stream")
        BY <1>3, AfterPlace
  <2>2. DOMAIN After(p) = Fields
        BY <2>1 DEF Frame
  <2>3. Frame(After(p), r, {"last", "draining"})
        BY <1>2, <2>2 DEF Frame, Fields, Switches
  <2>4. Frame(p, r, {"reading"} \cup {"last", "draining"})
        BY <2>1, <2>3, FrameTwice
  <2>5. Frame(p, r, Place)
        BY <2>4, FrameMore DEF Place
  <2>6. r.reading = After(p).reading /\ r.greeting = p.greeting
        BY <2>1, <2>3 DEF Frame, Fields, Switches
  <2>7. /\ r.last = <<m>>
        /\ r.draining = (m.kind # "App" \/ p.target = st.target + 1)
        BY <1>2, <2>2 DEF Fields, Switches
  <2> QED
        BY <2>1, <2>5, <2>6, <2>7
<1>5. /\ m \in Proper /\ Told(m, log) /\ Linked(st, log) /\ st.draining = FALSE
      /\ st.out = << >> /\ Sound(st)
      BY DEF MayHear, Linked, Off, On
<1>6. /\ p.enabled = st.enabled /\ p.shuttingDown = st.shuttingDown
      /\ p.reading = st.reading
      BY <1>1 DEF Outcome, Frame, Fields, Switches, Aside
<1>7. /\ r.last \in Seq(Proper) /\ Len(r.last) = 1 /\ r.last[1] = m
      BY <1>4, <1>5
<1>8. r.reading \in {"wait", "stream", "ended"} /\ r.draining \in BOOLEAN
      /\ r.greeting \in BOOLEAN /\ p.responder \in BOOLEAN
      BY <1>3, <1>4 DEF Sound, Typed, Switches
<1>9. /\ Sound(r)
      /\ Off(p) => Off(r)
      /\ On(p, log) => On(r, log)
      /\ Queued(r) = Queued(p)
  <2>1. Placeable(r)
        BY <1>7, <1>8 DEF Placeable
  <2>2. Alike(p, r)
        BY <1>3, <1>4, <2>1, PlaceSound
  <2> QED
        BY <2>2 DEF Alike
<1>10. /\ r.responder = p.responder /\ r.sentLogon = p.sentLogon
       /\ r.receivedLogon = p.receivedLogon /\ r.aborted = p.aborted
       /\ r.delivered = p.delivered /\ r.out = p.out /\ r.queue = p.queue
       /\ r.enabled = p.enabled /\ r.shuttingDown = p.shuttingDown
       /\ r.received = p.received
       BY <1>4 DEF Frame, Fields, Switches, Place
<1>11. Hands(st, r, log)
       BY <1>3, <1>10 DEF Hands
<1>12. Obeys(r) /\ \A i \in 1..Len(r.last) : Told(r.last[i], log)
  <2>1. Obeys(r)
        BY <1>5, <1>6, <1>10 DEF Linked, Obeys
  <2> QED
        BY <2>1, <1>5, <1>7
<1>13. Outbox(r, log)
  <2>1. st.responder \in BOOLEAN /\ st.receivedLogon \in BOOLEAN
        BY <1>5 DEF Sound, Typed, Switches
  <2>2. Modest(st.out) /\ Len(st.out) = 0
        BY <1>5 DEF Modest
  <2>3. st.responder = FALSE => p.out = st.out
        BY <1>1 DEF Outcome
  <2>4. st.responder = TRUE => Modest(p.out)
        BY <1>1, <2>1, <2>2 DEF Outcome
  <2>5. CASE log = << >>
        BY <1>1, <1>10, <2>2, <2>3, <2>5 DEF Outbox
  <2>6. CASE log # << >>
        BY <1>10, <2>1, <2>2, <2>3, <2>4, <2>6 DEF Outbox
  <2> QED
        BY <2>5, <2>6
<1>14. CASE p.aborted = TRUE /\ p.responder = FALSE /\ p.sentLogon = FALSE
       BY <1>9, <1>10, <1>11, <1>14 DEF Consumes, Keeps, isLoggedOn
<1>15. CASE /\ Off(p) /\ p.responder = FALSE /\ p.sentLogon = FALSE
            /\ m.kind = "App" => p.queue = {}
            /\ m.kind = "Logon" => p.enabled = FALSE
  <2>1. Off(r) /\ r.responder = FALSE /\ r.sentLogon = FALSE /\ r.receivedLogon = FALSE
        BY <1>9, <1>10, <1>15 DEF Off
  <2>2. r.reading = "stream"
        BY <1>4, <1>15
  <2>3. Placed(r)
        BY <2>1, <2>2 DEF Placed
  <2>4. Fresh(r)
        BY <1>7, <1>10, <1>15, <2>1 DEF Fresh
  <2>5. r.draining = FALSE => Queued(r) = {}
        BY <1>4, <1>10, <1>15 DEF Queued
  <2>6. Linked(r, log)
        BY <1>12, <2>1, <2>3, <2>4, <2>5 DEF Linked
  <2> QED
        BY <1>9, <1>11, <1>13, <2>1, <2>6 DEF Consumes, Keeps, isLoggedOn
<1>16. CASE /\ On(p, log)
            /\ m.kind = "Logon" =>
                  p.received = 0 /\ p.delivered = << >> /\ p.queue = {}
            /\ m.kind = "App" /\ Queued(st) = {} /\ p.target # st.target + 1 =>
                  Queued(p) = {}
  <2>1. /\ On(r, log) /\ r.responder = TRUE /\ r.sentLogon = TRUE
        /\ r.receivedLogon = TRUE
        BY <1>9, <1>16 DEF On
  <2>2. st.responder = TRUE
        BY <1>3, <1>10, <2>1 DEF Hands
  <2>3. r.reading = "wait"
        BY <1>4, <1>5, <1>6, <1>10, <2>1, <2>2 DEF Linked, Placed
  <2>4. Placed(r)
        BY <2>1, <2>3 DEF Placed
  <2>5. Fresh(r)
        BY <1>7, <1>10, <1>16, <2>1 DEF Fresh
  <2>6. r.draining = FALSE => Queued(r) = {}
        BY <1>4, <1>5, <1>9, <1>16 DEF Linked
  <2>7. Linked(r, log)
        BY <1>12, <2>1, <2>4, <2>5, <2>6 DEF Linked
  <2> QED
        BY <1>9, <1>11, <1>13, <2>1, <2>7 DEF Consumes, Keeps, isLoggedOn
<1> QED
      BY <1>1, <1>14, <1>15, <1>16 DEF Outcome

(* A session that is logged on: what there is to know about it.            *)
LEMMA OnFacts ==
    ASSUME NEW st, NEW log, On(st, log)
    PROVE  /\ Sound(st) /\ st.aborted = FALSE /\ st.responder = TRUE
           /\ st.sentLogon = TRUE /\ st.receivedLogon = TRUE
           /\ log # << >>
<1>1. st.target # 1 /\ st.target <= Len(log) + 1 /\ st.target \in Nat \ {0}
      BY DEF On, Follows, Sound, Typed
<1>2. log # << >>
      BY <1>1
<1> QED
      BY <1>2 DEF On

(* What the last lines of a step see to: r is p, apart from the place of   *)
(* the socket thread.                                                      *)
Settles(st, p, r, log) ==
    /\ Sound(p) /\ Frame(p, r, Place) /\ Placeable(r)
    /\ p.enabled = st.enabled /\ p.shuttingDown = st.shuttingDown
    /\ r.last \in {st.last, << >>}
    /\ Modest(p.out)
    /\ Fresh(r)

(* A session that was logged on and has left its connection.               *)
LEMMA SettledOff ==
    ASSUME NEW st, NEW p, NEW r, NEW log, On(st, log), Linked(st, log),
           Settles(st, p, r, log),
           p.responder = FALSE, p.sentLogon = FALSE, p.receivedLogon = FALSE,
           p.aborted = TRUE \/ Off(p),
           p.delivered \in {st.delivered, << >>},
           r.draining = FALSE => p.aborted = TRUE \/ p.queue = {},
           r.reading = "stream" \/ (r.last = << >> /\ r.draining = FALSE)
    PROVE  Spares(st, r, log)
<1>1. Sound(p) /\ Frame(p, r, Place) /\ Placeable(r)
      BY DEF Settles
<1>2. Alike(p, r)
      BY <1>1, PlaceSound
<1>3. /\ r.responder = FALSE /\ r.sentLogon = FALSE /\ r.receivedLogon = FALSE
      /\ r.aborted = p.aborted /\ r.delivered = p.delivered /\ r.out = p.out
      /\ r.queue = p.queue /\ r.enabled = p.enabled /\ r.shuttingDown = p.shuttingDown
      BY <1>1 DEF Frame, Fields, Switches, Place
<1>4. /\ Sound(st) /\ st.aborted = FALSE /\ st.responder = TRUE
      /\ st.sentLogon = TRUE /\ st.receivedLogon = TRUE /\ log # << >>
      BY OnFacts
<1>5. Hands(st, r, log)
      BY <1>3 DEF Hands
<1>6. ASSUME r.aborted = FALSE PROVE Linked(r, log) /\ Outbox(r, log)
  <2>1. Off(r) /\ Queued(r) = Queued(p)
        BY <1>2, <1>3, <1>6 DEF Alike
  <2>2. Obeys(r)
        BY <1>3 DEF Obeys, Settles, Linked
  <2>3. Placed(r)
        BY <1>3 DEF Placed
  <2>4. \A i \in 1..Len(r.last) : Told(r.last[i], log)
        BY DEF Settles, Linked
  <2>5. r.draining = FALSE => Queued(r) = {}
        BY <1>3, <1>6 DEF Queued
  <2>6. Outbox(r, log)
        BY <1>3, <1>4 DEF Outbox, Settles
  <2> QED
        BY <2>1, <2>2, <2>3, <2>4, <2>5, <2>6 DEF Linked, Settles
<1> QED
      BY <1>2, <1>3, <1>4, <1>5, <1>6 DEF Spares, Keeps, Alike, isLoggedOn

(* A session that was logged on and is so still.                           *)
LEMMA SettledOn ==
    ASSUME NEW st, NEW p, NEW r, NEW log, On(st, log), Linked(st, log),
           Settles(st, p, r, log),
           On(p, log), Hands(st, p, log), r.reading = st.reading,
           r.draining = FALSE => Queued(p) = {}
    PROVE  Spares(st, r, log)
<1>1. Sound(p) /\ Frame(p, r, Place) /\ Placeable(r)
      BY DEF Settles
<1>2. Alike(p, r)
      BY <1>1, PlaceSound
<1>3. /\ r.responder = TRUE /\ r.sentLogon = TRUE /\ r.receivedLogon = TRUE
      /\ r.aborted = p.aborted /\ r.delivered = p.delivered /\ r.out = p.out
      /\ r.queue = p.queue /\ r.enabled = p.enabled /\ r.shuttingDown = p.shuttingDown
      /\ r.responder = p.responder
      BY <1>1 DEF Frame, Fields, Switches, Place, On
<1>4. /\ Sound(st) /\ st.aborted = FALSE /\ st.responder = TRUE
      /\ st.sentLogon = TRUE /\ st.receivedLogon = TRUE /\ log # << >>
      BY OnFacts
<1>5. Hands(st, r, log)
      BY <1>3 DEF Hands
<1>6. Linked(r, log) /\ Outbox(r, log)
  <2>1. On(r, log) /\ Queued(r) = Queued(p)
        BY <1>2, <1>3 DEF Alike
  <2>2. Obeys(r)
        BY <1>3 DEF Obeys, Settles, Linked
  <2>3. st.reading = "wait"
        BY <1>4 DEF Linked, Placed
  <2>4. Placed(r)
        BY <1>3, <2>3 DEF Placed
  <2>5. \A i \in 1..Len(r.last) : Told(r.last[i], log)
        BY DEF Settles, Linked
  <2>6. r.draining = FALSE => Queued(r) = {}
        BY <2>1
  <2>7. Outbox(r, log)
        BY <1>3, <1>4 DEF Outbox, Settles
  <2> QED
        BY <2>1, <2>2, <2>4, <2>5, <2>6, <2>7 DEF Linked, Settles
<1> QED
      BY <1>2, <1>3, <1>4, <1>5, <1>6 DEF Spares, Keeps, Alike, isLoggedOn

(* A session that stands still is logged on still.                         *)
LEMMA StillOn ==
    ASSUME NEW st, NEW r, NEW log, On(st, log), Sound(r), Still(st, r)
    PROVE  /\ On(r, log) /\ r.delivered = st.delivered /\ r.queue = st.queue
           /\ r.enabled = st.enabled /\ r.shuttingDown = st.shuttingDown
           /\ r.reading = st.reading /\ r.last = st.last
           /\ r.draining = st.draining /\ r.greeting = st.greeting
           /\ r.target = st.target /\ r.received = st.received
<1>1. /\ r.aborted = st.aborted /\ r.responder = st.responder
      /\ r.sentLogon = st.sentLogon /\ r.receivedLogon = st.receivedLogon
      /\ r.sentReset = st.sentReset /\ r.receivedReset = st.receivedReset
      /\ r.enabled = st.enabled /\ r.shuttingDown = st.shuttingDown
      /\ r.reading = st.reading /\ r.last = st.last
      /\ r.draining = st.draining /\ r.greeting = st.greeting
      /\ r.target = st.target /\ r.delivered = st.delivered /\ r.queue = st.queue
      /\ r.received = st.received
      BY DEF Still, Frame, Fields, Switches, Sent
<1>2. r.sentLogout = TRUE => r.enabled = FALSE
      BY <1>1 DEF Still, On
<1>3. On(r, log)
      BY <1>1, <1>2 DEF On, Follows
<1> QED
      BY <1>1, <1>3

(* A session that has left, as SettledOff needs it.                        *)
Gone(st, p) ==
    /\ p.responder = FALSE /\ p.sentLogon = FALSE /\ p.receivedLogon = FALSE
    /\ \/ p.aborted = TRUE /\ st.shuttingDown = FALSE
       \/ Off(p) /\ p.queue = {} /\ p.delivered = << >>
    /\ p.delivered \in {st.delivered, << >>}
    /\ p.enabled = st.enabled /\ p.shuttingDown = st.shuttingDown
    /\ p.reading = st.reading /\ p.last = st.last
    /\ p.draining = st.draining /\ p.greeting = st.greeting
    /\ Modest(st.out) => Modest(p.out)

(* This is what leaving comes to.                                          *)
LEMMA LeftFacts ==
    ASSUME NEW st, NEW p, Sound(p), Left(st, p), st.aborted = FALSE
    PROVE  Gone(st, p)
<1>1. /\ p.enabled = st.enabled /\ p.shuttingDown = st.shuttingDown
      /\ p.reading = st.reading /\ p.last = st.last
      /\ p.draining = st.draining /\ p.greeting = st.greeting
      BY DEF Left, Frame, Fields, Switches, Aside
<1>2. p.aborted = FALSE => Off(p) /\ p.queue = {}
      BY LeftIsOff
<1>3. p.delivered \in {st.delivered, << >>}
      BY DEF Left
<1> QED
      BY <1>1, <1>2, <1>3 DEF Gone, Left

(* next(now) after a step by which the session is still logged on.  If it  *)
(* leaves, nothing was handed over just before, and no Logon either.       *)
NowOnAfter(st, p, log) ==
    /\ On(st, log) /\ On(p, log) /\ Obeys(p)
    /\ p.delivered # st.delivered => p.received = 0

(* next(now) leaves such a session logged on, or it leaves properly.       *)
LEMMA NowOnFacts ==
    ASSUME NEW st, NEW p, NEW log, NowOnAfter(st, p, log)
    PROVE  LET r == nextNow(p)
           IN  /\ Sound(r)
               /\ \/ Still(p, r)
                  \/ /\ Left(p, r) /\ (p.received = 0 => p.enabled = FALSE)
                     /\ r.delivered \in {st.delivered, << >>}
<1> DEFINE r == nextNow(p)
<1>1. /\ Sound(p) /\ p.aborted = FALSE /\ p.sentLogon = TRUE /\ p.receivedLogon = TRUE
      /\ p.sentLogout = TRUE => p.enabled = FALSE
      /\ p.enabled = FALSE => p.shuttingDown = TRUE
      BY DEF NowOnAfter, On, Obeys
<1>2. p.enabled \in BOOLEAN /\ p.sentLogout \in BOOLEAN
      BY <1>1 DEF Sound, Typed, Switches
<1>3. /\ Sound(r) /\ (Left(p, r) \/ Still(p, r))
      /\ (p.enabled = TRUE /\ p.sentLogout = FALSE /\ p.received = 0) => Still(p, r)
      BY <1>1, NowOn
<1> HIDE DEF r
<1>4. ASSUME ~Still(p, r)
      PROVE  /\ Left(p, r) /\ (p.received = 0 => p.enabled = FALSE)
             /\ r.delivered \in {st.delivered, << >>}
  <2>1. Left(p, r) /\ (p.received = 0 => p.enabled = FALSE)
        BY <1>1, <1>2, <1>3, <1>4
  <2>2. \/ r.aborted = TRUE /\ p.shuttingDown = FALSE
        \/ r.delivered = << >>
        BY <1>1, <1>3, <2>1, LeftFacts DEF Gone
  <2>3. r.delivered \in {p.delivered, << >>}
        BY <2>1 DEF Left
  <2>4. p.shuttingDown = FALSE => p.delivered = st.delivered
        BY <1>1, <2>1 DEF NowOnAfter
  <2> QED
        BY <2>1, <2>2, <2>3, <2>4
<1>5. Still(p, r) \/ ~Still(p, r)
      OBVIOUS
<1> QED
      BY <1>3, <1>4, <1>5 DEF r

(* Removing a message from the queue of a session that is logged on.       *)
LEMMA Unqueued ==
    ASSUME NEW st, NEW log, On(st, log), NEW q, NEW r,
           r = [st EXCEPT !.queue = @ \ {q}]
    PROVE  /\ On(r, log) /\ Frame(st, r, {"queue"})
           /\ r.queue = st.queue \ {q}
<1>1. Sound(st) /\ DOMAIN st = Fields
      BY DEF On, Sound
<1>2. Frame(st, r, {"queue"}) /\ r.queue = st.queue \ {q}
      BY <1>1 DEF Frame, Fields, Switches
<1>3. \A f \in Switches : r[f] = st[f]
      BY <1>2 DEF Frame, Fields, Switches
<1>4. /\ r.reading = st.reading /\ r.last = st.last /\ r.sender = st.sender
      /\ r.target = st.target /\ r.apps = st.apps /\ r.range = st.range
      /\ r.testRequest = st.testRequest /\ r.received = st.received
      /\ r.sent = st.sent /\ r.out = st.out /\ r.delivered = st.delivered
      /\ r.transmitted = st.transmitted
      BY <1>2 DEF Frame, Fields, Switches
<1>5. Typed(r)
      BY <1>1, <1>3, <1>4 DEF Sound, Typed
<1>6. Carried(r) /\ Unique(r)
      BY <1>1, <1>2, <1>4 DEF Sound, Carried, Unique
<1>7. Sound(r)
      BY <1>2, <1>5, <1>6 DEF Sound, Frame
<1>8. Follows(r, log)
      BY <1>2, <1>4 DEF On, Follows
<1>9. /\ r.aborted = st.aborted /\ r.responder = st.responder
      /\ r.sentLogon = st.sentLogon /\ r.receivedLogon = st.receivedLogon
      /\ r.sentReset = st.sentReset /\ r.receivedReset = st.receivedReset
      /\ r.sentLogout = st.sentLogout /\ r.enabled = st.enabled
      BY <1>2 DEF Frame, Fields, Switches
<1> QED
      BY <1>2, <1>7, <1>8, <1>9 DEF On

(* nextQueued: the message whose turn has come.                            *)
LEMMA QueuedSpares ==
    ASSUME NEW st, NEW log, Linked(st, log), PeerLog(log), st.aborted = FALSE,
           st.draining = TRUE, st.out = << >>, NEW q \in Queued(st),
           NEW st1, st1 = [st EXCEPT !.queue = @ \ {q}],
           NEW st2, st2 = nextMessage(st1, q),
           NEW st3, st3 = IF q.kind \in {"Logon", "ResendRequest"} THEN Advance(st1)
                          ELSE IF ~st2.aborted /\ isLoggedOn(st2) THEN nextNow(st2)
                          ELSE st2,
           NEW r, r = After(st3)
    PROVE  Spares(st, r, log)
<1>1. On(st, log)
  <2>1. Off(st) => Queued(st) = {}
        BY DEF Off, Quiet, Queued
  <2> QED
        BY <2>1 DEF Linked
<1>2. /\ q \in Proper /\ Told(q, log) /\ q.kind \in Numbered
      /\ q \in st.queue /\ q.seq = st.target
      BY <1>1 DEF On, Follows, Queued, Sound, Carried
<1>3. /\ On(st1, log) /\ st1.target = st.target /\ st1.delivered = st.delivered
      /\ st1.responder = st.responder /\ st1.out = << >> /\ st1.last = st.last
      /\ st1.reading = st.reading /\ st1.draining = TRUE /\ st1.enabled = st.enabled
      /\ st1.shuttingDown = st.shuttingDown /\ st1.aborted = FALSE
      /\ st1.receivedLogon = TRUE /\ Sound(st1) /\ st1.received = st.received
  <2>1. On(st1, log) /\ Frame(st, st1, {"queue"})
        BY <1>1, Unqueued
  <2>2. /\ st1.target = st.target /\ st1.delivered = st.delivered
        /\ st1.responder = st.responder /\ st1.out = << >> /\ st1.last = st.last
        /\ st1.reading = st.reading /\ st1.draining = TRUE /\ st1.enabled = st.enabled
        /\ st1.shuttingDown = st.shuttingDown /\ st1.aborted = FALSE
        /\ st1.received = st.received
        BY <2>1 DEF Frame, Fields, Switches
  <2> QED
        BY <2>1, <2>2, OnFacts
<1>4. /\ Outcome(st1, st2, q, log) /\ Sound(st2)
      /\ Left(st1, st2) \/ Moves(st1, st2, q)
  <2>1. q.kind # "Logon"
        BY <1>2 DEF Numbered
  <2> QED
        BY <1>2, <1>3, <2>1, OutcomeOn DEF Handled
<1>5. Modest(st2.out)
  <2>1. Modest(st1.out)
        BY <1>3 DEF Modest
  <2> QED
        BY <1>3, <1>4, <2>1 DEF Outcome
<1>6. st.last = << >> \/ st.last[1].kind # "Logon"
      BY <1>1, <1>2 DEF Linked, Fresh, On
<1>7. Obeys(st) /\ st.last \in Seq(Proper) /\ Len(st.last) <= 1 /\ Sound(st)
      BY <1>1 DEF Linked, On, Sound, Carried
<1>8. CASE Left(st1, st2)
  <2>1. /\ st2.responder = FALSE /\ st2.sentLogon = FALSE /\ st2.receivedLogon = FALSE
        /\ st2.aborted = TRUE \/ Off(st2)
        /\ st2.delivered \in {st.delivered, << >>}
        /\ st2.enabled = st.enabled /\ st2.shuttingDown = st.shuttingDown
        /\ st2.last = st.last /\ st2.draining = TRUE
    <3>1. Gone(st1, st2)
          BY <1>3, <1>4, <1>8, LeftFacts
    <3> QED
          BY <1>3, <3>1 DEF Gone
  <2>2. st3 = st2
        BY <1>2, <2>1 DEF Numbered, isLoggedOn
  <2>3. /\ Frame(st2, r, {"reading"}) /\ r.reading = "stream"
        BY <1>4, <2>1, <2>2, AfterPlace
  <2>4. /\ r.last = st.last /\ r.draining = TRUE /\ r.greeting = st2.greeting
        BY <2>1, <2>3 DEF Frame, Fields, Switches
  <2>5. Frame(st2, r, Place)
        BY <2>3, FrameMore DEF Place
  <2>6. Placeable(r)
        BY <1>4, <1>7, <2>3, <2>4 DEF Placeable, Sound, Typed, Switches
  <2>7. Fresh(r)
        BY <1>6, <2>4 DEF Fresh
  <2>8. Settles(st, st2, r, log)
        BY <1>4, <1>5, <2>1, <2>4, <2>5, <2>6, <2>7 DEF Settles
  <2> QED
        BY <1>1, <2>1, <2>3, <2>4, <2>8, SettledOff
<1>9. CASE ~Left(st1, st2)
  <2>1. Moves(st1, st2, q) /\ On(st2, log)
        BY <1>2, <1>3, <1>4, <1>9, MovesOn
  <2>2. /\ st2.enabled = st.enabled /\ st2.shuttingDown = st.shuttingDown
        /\ st2.last = st.last /\ st2.draining = TRUE /\ st2.reading = st.reading
    <3>1. /\ st2.enabled = st1.enabled /\ st2.shuttingDown = st1.shuttingDown
          /\ st2.last = st1.last /\ st2.draining = st1.draining
          /\ st2.reading = st1.reading
      <4>1. Frame(st1, st2, Moved)
            BY <2>1 DEF Moves
      <4> QED
            BY <4>1 DEF Frame, Fields, Switches, Moved, Sent
    <3> QED
          BY <1>3, <3>1
  <2>3. st2.delivered # st.delivered => st2.received = 0
        BY <1>3, <2>1 DEF Moves
  <2>4. NowOnAfter(st, st2, log)
        BY <1>1, <1>7, <2>1, <2>2, <2>3 DEF NowOnAfter, Obeys
  <2>5. st3 = nextNow(st2)
    <3>1. st2.aborted = FALSE /\ st2.sentLogon = TRUE /\ st2.receivedLogon = TRUE
          BY <2>1 DEF On
    <3> QED
          BY <1>2, <3>1 DEF Numbered, isLoggedOn
  <2>6. /\ Sound(st3)
        /\ \/ Still(st2, st3)
           \/ Left(st2, st3) /\ st3.delivered \in {st.delivered, << >>}
        BY <2>4, <2>5, NowOnFacts
  <2>7. /\ Frame(st3, r, {"reading"})
        /\ r.reading = (IF st3.responder THEN st3.reading ELSE "stream")
        BY <2>6, AfterPlace
  <2>8. /\ r.last = st3.last /\ r.draining = st3.draining /\ r.greeting = st3.greeting
        BY <2>7 DEF Frame, Fields, Switches
  <2>9. Frame(st3, r, Place)
        BY <2>7, FrameMore DEF Place
  <2>10. Placeable(r)
    <3>1. st3.reading \in {"wait", "stream", "ended"}
          BY <2>6 DEF Sound, Typed
    <3> QED
          BY <2>6, <2>7, <2>8, <3>1 DEF Placeable, Sound, Typed, Carried, Switches
  <2>11. CASE Still(st2, st3)
    <3>1. /\ On(st3, log) /\ st3.delivered = st2.delivered
          /\ st3.enabled = st.enabled /\ st3.shuttingDown = st.shuttingDown
          /\ st3.reading = st.reading /\ st3.last = st.last /\ st3.draining = TRUE
          BY <2>1, <2>2, <2>6, <2>11, StillOn
    <3>2. Fresh(r)
          BY <1>6, <2>8, <3>1 DEF Fresh
    <3>3. st3.responder = TRUE /\ st2.responder = TRUE
          BY <2>1, <3>1 DEF On
    <3>4. Settles(st, st3, r, log)
          BY <1>5, <2>6, <2>8, <2>9, <2>10, <2>11, <3>1, <3>2 DEF Settles, Still
    <3>5. Hands(st, st3, log)
          BY <1>3, <1>4, <3>1, <3>3 DEF Outcome, Hands
    <3>6. r.reading = st.reading /\ r.draining = TRUE
          BY <2>7, <2>8, <3>1, <3>3
    <3> QED
          BY <1>1, <3>1, <3>4, <3>5, <3>6, SettledOn
  <2>12. CASE Left(st2, st3) /\ st3.delivered \in {st.delivered, << >>}
    <3>1. /\ st3.responder = FALSE /\ st3.sentLogon = FALSE /\ st3.receivedLogon = FALSE
          /\ st3.aborted = TRUE \/ Off(st3)
          /\ st3.enabled = st.enabled /\ st3.shuttingDown = st.shuttingDown
          /\ st3.last = st.last /\ st3.draining = TRUE
          /\ Modest(st3.out)
      <4>1. st2.aborted = FALSE
            BY <2>1 DEF On
      <4>2. Gone(st2, st3)
            BY <2>6, <2>12, <4>1, LeftFacts
      <4> QED
            BY <1>5, <2>2, <4>2 DEF Gone
    <3>2. Fresh(r)
          BY <1>6, <2>8, <3>1 DEF Fresh
    <3>3. Settles(st, st3, r, log)
          BY <2>6, <2>8, <2>9, <2>10, <3>1, <3>2 DEF Settles
    <3>4. r.reading = "stream" /\ r.draining = TRUE
          BY <2>7, <2>8, <3>1
    <3> QED
          BY <1>1, <2>12, <3>1, <3>3, <3>4, SettledOff
  <2> QED
        BY <2>6, <2>11, <2>12
<1> QED
      BY <1>8, <1>9

(* A session that was off and is so still.                                 *)
LEMMA SettledQuiet ==
    ASSUME NEW st, NEW p, NEW r, NEW log, Off(st), Linked(st, log),
           Off(p), Frame(p, r, Place), Placeable(r),
           Obeys(p), Placed(r), Fresh(r), r.last \in {st.last, << >>},
           Outbox(p, log), p.responder \in {st.responder, FALSE},
           p.responder = TRUE =>
              p.queue = st.queue /\ (st.sentLogon = TRUE => p.sentLogon = TRUE),
           st.reading = "wait" => r.reading = "wait"
    PROVE  Spares(st, r, log)
<1>1. Alike(p, r)
      BY PlaceSound DEF Off
<1>2. /\ r.responder = p.responder /\ r.sentLogon = p.sentLogon
      /\ r.receivedLogon = FALSE /\ r.aborted = FALSE
      /\ r.delivered = << >> /\ r.out = p.out /\ r.target = 1
      /\ r.queue = p.queue /\ r.enabled = p.enabled /\ r.shuttingDown = p.shuttingDown
  <2>1. /\ r.responder = p.responder /\ r.sentLogon = p.sentLogon
        /\ r.receivedLogon = p.receivedLogon /\ r.aborted = p.aborted
        /\ r.delivered = p.delivered /\ r.out = p.out /\ r.target = p.target
        /\ r.queue = p.queue /\ r.enabled = p.enabled
        /\ r.shuttingDown = p.shuttingDown
        BY DEF Frame, Fields, Switches, Place
  <2> QED
        BY <2>1 DEF Off, Quiet
<1>3. Off(r) /\ Sound(r)
      BY <1>1 DEF Alike
<1>4. /\ st.delivered = << >> /\ st.receivedLogon = FALSE
      /\ st.responder \in BOOLEAN
      BY DEF Off, Quiet, Sound, Typed, Switches
<1>5. Hands(st, r, log)
      BY <1>2, <1>4 DEF Hands
<1>6. Linked(r, log)
  <2>1. Obeys(r)
        BY <1>2 DEF Obeys
  <2>2. \A i \in 1..Len(r.last) : Told(r.last[i], log)
        BY DEF Linked
  <2>3. Queued(r) = {}
        BY <1>3 DEF Off, Quiet, Queued
  <2> QED
        BY <1>3, <2>1, <2>2, <2>3 DEF Linked
<1>7. Outbox(r, log)
      BY <1>2 DEF Outbox
<1>8. ~isLoggedOn(r)
      BY <1>2 DEF isLoggedOn
<1>9. Keeps(st, r, log)
      BY <1>3, <1>5, <1>6, <1>7, <1>8 DEF Keeps
<1> QED
      BY <1>2, <1>4, <1>9 DEF Spares

(* Nothing written is in order.                                            *)
LEMMA NothingOut ==
    ASSUME NEW st, NEW log, st.out = << >>
    PROVE  Outbox(st, log) /\ Modest(st.out)
BY DEF Outbox, Modest

(* Drained on a session that is off.                                       *)
LEMMA DrainedOff ==
    ASSUME NEW st, NEW log, Linked(st, log), Off(st),
           st.draining = TRUE, st.out = << >>,
           NEW r, r = [After(st) EXCEPT !.draining = FALSE, !.greeting = FALSE]
    PROVE  Spares(st, r, log)
<1>1. /\ Placed(st) /\ Obeys(st) /\ Fresh(st) /\ Sound(st) /\ DOMAIN st = Fields
      /\ st.receivedLogon = FALSE /\ st.responder \in BOOLEAN
      BY DEF Linked, Off, Sound, Typed, Switches
<1>2. st.reading = "stream" /\ st.responder = FALSE /\ st.sentLogon = FALSE
      BY <1>1 DEF Placed
<1>3. /\ Frame(st, r, Place) /\ r.reading = "stream" /\ r.last = st.last
      /\ r.draining = FALSE /\ r.greeting = FALSE
  <2>1. Frame(st, After(st), {"reading"}) /\ After(st).reading = "stream"
        BY <1>1, <1>2, AfterPlace
  <2>2. DOMAIN After(st) = Fields
        BY <2>1 DEF Frame
  <2>3. /\ Frame(After(st), r, {"draining", "greeting"})
        /\ r.draining = FALSE /\ r.greeting = FALSE
        BY <2>2 DEF Frame, Fields, Switches
  <2>4. Frame(st, r, {"reading"} \cup {"draining", "greeting"})
        BY <2>1, <2>3, FrameTwice
  <2>5. Frame(st, r, Place)
        BY <2>4, FrameMore DEF Place
  <2>6. r.reading = After(st).reading /\ r.last = st.last
    <3>1. r.reading = After(st).reading /\ r.last = After(st).last
          BY <2>3 DEF Frame, Fields, Switches
    <3>2. After(st).last = st.last
          BY <2>1 DEF Frame, Fields, Switches
    <3> QED
          BY <3>1, <3>2
  <2> QED
        BY <2>1, <2>3, <2>5, <2>6
<1>4. Placeable(r)
      BY <1>1, <1>3 DEF Placeable, Sound, Carried
<1>5. /\ r.receivedLogon = FALSE /\ r.responder = FALSE /\ r.sentLogon = FALSE
      /\ r.enabled = st.enabled
      BY <1>1, <1>2, <1>3 DEF Frame, Fields, Switches, Place
<1>6. Placed(r)
      BY <1>3, <1>5 DEF Placed
<1>7. Fresh(r)
      BY <1>1, <1>3, <1>5 DEF Fresh
<1>8. Outbox(st, log)
      BY NothingOut
<1>9. st.responder \in {st.responder, FALSE} /\ r.last \in {st.last, << >>}
      BY <1>3
<1>10. st.reading = "wait" => r.reading = "wait"
       BY <1>2
<1> QED
      BY <1>1, <1>2, <1>3, <1>4, <1>6, <1>7, <1>8, <1>9, <1>10, SettledQuiet

(* next(now) at the end of a step of a session that is logged on.          *)
LEMMA NowSpares ==
    ASSUME NEW st, NEW log, On(st, log), Linked(st, log), st.out = << >>,
           Queued(st) = {}, NEW p, Sound(p), Still(st, p),
           NEW t, t = nextNow(p), NEW r, Frame(t, r, Place), Placeable(r),
           r.last \in {st.last, << >>}, r.draining = FALSE,
           \/ r.reading = IF t.responder THEN t.reading ELSE "stream"
           \/ r.last = << >> /\ r.reading = t.reading
    PROVE  Spares(st, r, log)
<1>1. /\ On(p, log) /\ p.delivered = st.delivered /\ p.queue = st.queue
      /\ p.enabled = st.enabled /\ p.shuttingDown = st.shuttingDown
      /\ p.reading = st.reading /\ p.target = st.target /\ p.received = st.received
      BY StillOn
<1>2. Modest(p.out)
      BY NothingOut DEF Still
<1>3. Obeys(st) /\ Fresh(st) /\ st.receivedLogon = TRUE
      BY DEF Linked, On
<1>4. NowOnAfter(st, p, log)
      BY <1>1, <1>3 DEF NowOnAfter, Obeys
<1>5. /\ Sound(t)
      /\ \/ Still(p, t)
         \/ /\ Left(p, t) /\ (p.received = 0 => p.enabled = FALSE)
            /\ t.delivered \in {st.delivered, << >>}
      BY <1>4, NowOnFacts
<1>6. /\ r.received = t.received /\ r.delivered = t.delivered /\ r.queue = t.queue
      /\ r.receivedLogon = t.receivedLogon /\ r.enabled = t.enabled
      BY DEF Frame, Fields, Switches, Place
<1>7. CASE Still(p, t)
  <2>1. /\ On(t, log) /\ t.delivered = st.delivered /\ t.queue = st.queue
        /\ t.enabled = st.enabled /\ t.shuttingDown = st.shuttingDown
        /\ t.reading = st.reading /\ t.target = st.target /\ t.received = st.received
        BY <1>1, <1>5, <1>7, StillOn
  <2>2. Modest(t.out)
        BY <1>2, <1>7 DEF Still
  <2>3. t.receivedLogon = TRUE /\ t.responder = TRUE /\ st.responder = TRUE
        BY <2>1 DEF On
  <2>4. Fresh(r)
        BY <1>3, <1>6, <2>1, <2>3 DEF Fresh
  <2>5. Settles(st, t, r, log)
        BY <1>5, <2>1, <2>2, <2>4 DEF Settles
  <2>6. Hands(st, t, log)
        BY <2>1, <2>3 DEF Hands
  <2>7. r.reading = st.reading /\ Queued(t) = {}
        BY <2>1, <2>3 DEF Queued
  <2> QED
        BY <2>1, <2>5, <2>6, <2>7, SettledOn
<1>8. CASE /\ Left(p, t) /\ (p.received = 0 => p.enabled = FALSE)
           /\ t.delivered \in {st.delivered, << >>}
  <2>1. Gone(p, t)
    <3>1. p.aborted = FALSE
          BY <1>1 DEF On
    <3> QED
          BY <1>5, <1>8, <3>1, LeftFacts
  <2>2. /\ t.responder = FALSE /\ t.sentLogon = FALSE /\ t.receivedLogon = FALSE
        /\ t.aborted = TRUE \/ (Off(t) /\ t.queue = {})
        /\ t.enabled = st.enabled /\ t.shuttingDown = st.shuttingDown
        /\ Modest(t.out)
        BY <1>1, <1>2, <2>1 DEF Gone
  <2>3. Fresh(r)
        BY <1>1, <1>3, <1>6, <1>8, <2>2 DEF Fresh
  <2>4. Settles(st, t, r, log)
        BY <1>5, <2>2, <2>3 DEF Settles
  <2>5. r.reading = "stream" \/ (r.last = << >> /\ r.draining = FALSE)
        BY <2>2
  <2> QED
        BY <1>8, <2>2, <2>4, <2>5, SettledOff
<1> QED
      BY <1>5, <1>7, <1>8

(* Nothing done is standing still, and so is an order sent.                *)
LEMMA StillCases ==
    ASSUME NEW st, NEW log, On(st, log)
    PROVE  /\ Still(st, st)
           /\ Sound(send(st)) /\ Still(st, send(st))
<1>1. /\ Sound(st) /\ st.sentLogon = TRUE /\ st.receivedLogon = TRUE
      /\ DOMAIN st = Fields
      BY DEF On, Sound
<1>2. Still(st, st)
      BY <1>1 DEF Still, Frame
<1>3. /\ Sound(send(st)) /\ Frame(st, send(st), Sent)
      /\ (Modest(st.out) => Modest(send(st).out))
      BY <1>1, SendOn
<1>4. Frame(st, send(st), Sent \cup {"testRequest", "sentLogout"})
      BY <1>3, FrameMore
<1>5. send(st).sentLogout = st.sentLogout
      BY <1>3 DEF Frame, Fields, Switches, Sent
<1> QED
      BY <1>2, <1>3, <1>4, <1>5 DEF Still

(* Drained on a session that is logged on.                                 *)
LEMMA DrainedOn ==
    ASSUME NEW st, NEW log, Linked(st, log), On(st, log),
           st.out = << >>, Queued(st) = {},
           NEW p, p \in {st, send(st)}, NEW t, t = nextNow(p),
           NEW r, r = [After(t) EXCEPT !.draining = FALSE, !.greeting = FALSE]
    PROVE  Spares(st, r, log)
<1>1. Sound(p) /\ Still(st, p)
      BY StillCases DEF On
<1>2. On(p, log) /\ p.last = st.last /\ Sound(p) /\ p.aborted = FALSE
  <2>1. On(p, log) /\ p.last = st.last
        BY <1>1, StillOn
  <2> QED
        BY <2>1, OnFacts
<1>3. Sound(t) /\ (Left(p, t) \/ Still(p, t))
  <2>1. p.sentLogon = TRUE /\ p.receivedLogon = TRUE
        BY <1>2 DEF On
  <2> QED
        BY <1>2, <2>1, NowOn
<1>4. t.last = p.last
  <2>1. CASE Still(p, t)
        BY <1>2, <1>3, <2>1, StillOn
  <2>2. CASE Left(p, t)
    <3>1. Gone(p, t)
          BY <1>2, <1>3, <2>2, LeftFacts
    <3> QED
          BY <3>1 DEF Gone
  <2> QED
        BY <1>3, <2>1, <2>2
<1>5. /\ Frame(t, After(t), {"reading"})
      /\ After(t).reading = (IF t.responder THEN t.reading ELSE "stream")
      BY <1>3, AfterPlace
<1>6. DOMAIN After(t) = Fields
      BY <1>5 DEF Frame
<1>7. /\ Frame(After(t), r, {"draining", "greeting"})
      /\ r.draining = FALSE /\ r.greeting = FALSE
      BY <1>6 DEF Frame, Fields, Switches
<1>8. Frame(t, r, {"reading"} \cup {"draining", "greeting"})
      BY <1>5, <1>7, FrameTwice
<1>9. Frame(t, r, Place)
      BY <1>8, FrameMore DEF Place
<1>10. r.last = t.last
       BY <1>8 DEF Frame, Fields, Switches
<1>11. r.reading = IF t.responder THEN t.reading ELSE "stream"
       BY <1>5, <1>7 DEF Frame, Fields, Switches
<1>12. Placeable(r)
  <2>1. t.reading \in {"wait", "stream", "ended"}
        BY <1>3 DEF Sound, Typed
  <2> QED
        BY <1>3, <1>7, <1>10, <1>11, <2>1 DEF Placeable, Sound, Carried
<1>13. r.last \in {st.last, << >>}
       BY <1>2, <1>4, <1>10
<1> QED
      BY <1>1, <1>7, <1>9, <1>11, <1>12, <1>13, NowSpares

(* The members after one of the last message is forgotten.                 *)
LEMMA Forgets ==
    ASSUME NEW t, Sound(t), NEW r, r = [t EXCEPT !.last = << >>]
    PROVE  /\ Frame(t, r, {"last"}) /\ Frame(t, r, Place) /\ r.last = << >>
           /\ Placeable(r) /\ r.reading = t.reading /\ r.draining = t.draining
<1>1. DOMAIN t = Fields
      BY DEF Sound
<1>2. Frame(t, r, {"last"}) /\ r.last = << >>
      BY <1>1 DEF Frame, Fields, Switches
<1>3. Frame(t, r, Place)
      BY <1>2, FrameMore DEF Place
<1>4. /\ r.reading = t.reading /\ r.draining = t.draining
      /\ r.greeting = t.greeting
      BY <1>2 DEF Frame, Fields, Switches
<1>5. Placeable(r)
      BY <1>2, <1>4 DEF Placeable, Sound, Typed, Switches
<1> QED
      BY <1>2, <1>3, <1>4, <1>5

(* A session that is off and gives up, or dials, or waits.                 *)
NowQuiet(st, t) ==
    \/ t.aborted = TRUE
    \/ /\ Off(t) /\ (\A log : Outbox(t, log))
       /\ t.responder \in {st.responder, FALSE}
       /\ t.responder = TRUE =>
             t.queue = st.queue /\ (st.sentLogon = TRUE => t.sentLogon = TRUE)

NowQuietly(st, t) ==
    /\ Sound(t) /\ NowQuiet(st, t)
    /\ t.receivedLogon = FALSE
    /\ t.delivered = << >>
    /\ t.responder \in {st.responder, FALSE}
    /\ t.aborted = TRUE => t.responder = FALSE
    /\ t.enabled = st.enabled /\ t.shuttingDown = st.shuttingDown
    /\ t.reading = st.reading /\ t.last = st.last /\ t.draining = st.draining

(* next(now) on a session that is off.                                     *)
LEMMA NowOffFacts ==
    ASSUME NEW st, Off(st), st.out = << >>
    PROVE  NowQuietly(st, nextNow(st))
<1> DEFINE t == nextNow(st)
<1>1. \/ t = st
      \/ Dials(st, t)
      \/ /\ st.sentLogon = TRUE /\ t = disconnect(st)
         /\ Sound(t) /\ Left(st, t)
      BY NowOff
<1>2. /\ Sound(st) /\ st.aborted = FALSE /\ st.receivedLogon = FALSE
      /\ st.delivered = << >> /\ st.responder \in BOOLEAN
      BY DEF Off, Quiet, Sound, Typed, Switches
<1> HIDE DEF t
<1>3. CASE t = st
  <2>1. \A log : Outbox(t, log)
        BY <1>3, NothingOut
  <2> QED
        BY <1>2, <1>3, <2>1 DEF NowQuietly, NowQuiet, t
<1>4. CASE Dials(st, t)
  <2>1. /\ Off(t) /\ t.sentLogon = TRUE
        /\ Frame(st, t, Sent \cup {"received", "testRequest", "sentLogon", "sentReset"})
        BY <1>4 DEF Dials
  <2>2. /\ t.responder = st.responder /\ t.queue = st.queue
        /\ t.enabled = st.enabled /\ t.shuttingDown = st.shuttingDown
        /\ t.reading = st.reading /\ t.last = st.last /\ t.draining = st.draining
        BY <2>1 DEF Frame, Fields, Switches, Sent
  <2>3. Sound(t) /\ t.aborted = FALSE /\ t.receivedLogon = FALSE /\ t.delivered = << >>
        BY <2>1 DEF Off, Quiet
  <2>4. \A log : Outbox(t, log)
    <3>1. CASE st.responder = TRUE
      <4>1. PICK m \in Proper : /\ t.out = st.out \o <<m>> /\ m.kind = "Logon"
                                /\ m.seq = 1 => st.queue = {}
            BY <1>4, <3>1 DEF Dials
      <4>2. t.out = <<m>>
            BY <4>1
      <4> QED
            BY <2>1, <2>2, <3>1, <4>1, <4>2 DEF Outbox, Modest
    <3>2. CASE st.responder = FALSE
      <4>1. t.out = << >>
            BY <1>4, <3>2 DEF Dials
      <4> QED
            BY <4>1, NothingOut
    <3> QED
          BY <1>2, <3>1, <3>2
  <2> QED
        BY <2>1, <2>2, <2>3, <2>4 DEF NowQuietly, NowQuiet, t
<1>5. CASE t = disconnect(st) /\ Sound(t) /\ Left(st, t)
  <2>1. Gone(st, t)
        BY <1>2, <1>5, LeftFacts
  <2>2. t.out = << >>
    <3>1. Disconnects(st, t)
          BY <1>2, <1>5, LeaveSound
    <3> QED
          BY <3>1 DEF Disconnects, Frame, Fields, Switches, Links, Numbers
  <2>3. \A log : Outbox(t, log)
        BY <2>2, NothingOut
  <2> QED
        BY <1>2, <1>5, <2>1, <2>3 DEF NowQuietly, NowQuiet, Gone, t
<1> QED
      BY <1>1, <1>3, <1>4, <1>5

(* A session that is off has aborted.                                      *)
LEMMA AbortedSpares ==
    ASSUME NEW st, NEW r, NEW log, Sound(r), r.aborted = TRUE,
           r.responder = FALSE, r.receivedLogon = FALSE,
           r.delivered \in {st.delivered, << >>}
    PROVE  Spares(st, r, log) /\ Consumes(st, r, log)
BY DEF Spares, Consumes, Keeps, Hands, isLoggedOn

(* read() times out.                                                       *)
LEMMA TimeoutSpares ==
    ASSUME NEW st, NEW log, Linked(st, log), st.reading = "wait",
           st.draining = FALSE, st.out = << >>,
           NEW t, t = nextNow(st), NEW r, r = [t EXCEPT !.last = << >>]
    PROVE  Spares(st, r, log)
<1>1. CASE On(st, log)
  <2>1. /\ Sound(st) /\ st.aborted = FALSE /\ st.sentLogon = TRUE
        /\ st.receivedLogon = TRUE /\ Still(st, st) /\ Queued(st) = {}
        BY <1>1, OnFacts, StillCases DEF Linked
  <2>2. Sound(t) /\ (Left(st, t) \/ Still(st, t))
        BY <2>1, NowOn
  <2>3. t.draining = FALSE
    <3>1. CASE Still(st, t)
          BY <1>1, <2>2, <3>1, StillOn
    <3>2. CASE Left(st, t)
      <4>1. Gone(st, t)
            BY <2>1, <2>2, <3>2, LeftFacts
      <4> QED
            BY <4>1 DEF Gone
    <3> QED
          BY <2>2, <3>1, <3>2
  <2>4. /\ Frame(t, r, Place) /\ r.last = << >> /\ Placeable(r)
        /\ r.reading = t.reading /\ r.draining = FALSE
        BY <2>2, <2>3, Forgets
  <2> QED
        BY <1>1, <2>1, <2>4, NowSpares
<1>2. CASE Off(st)
  <2>1. NowQuietly(st, t)
        BY <1>2, NowOffFacts
  <2>2. /\ Sound(t) /\ NowQuiet(st, t) /\ t.receivedLogon = FALSE
        /\ t.delivered = << >> /\ t.responder \in {st.responder, FALSE}
        /\ t.aborted = TRUE => t.responder = FALSE
        /\ t.enabled = st.enabled /\ t.shuttingDown = st.shuttingDown
        /\ t.reading = "wait" /\ t.draining = FALSE
        BY <2>1 DEF NowQuietly
  <2>3. /\ Frame(t, r, Place) /\ r.last = << >> /\ Placeable(r)
        /\ r.reading = "wait" /\ r.draining = FALSE
        BY <2>2, Forgets
  <2>4. /\ r.responder = t.responder /\ r.receivedLogon = FALSE
        /\ r.aborted = t.aborted /\ r.delivered = << >>
        BY <2>2, <2>3 DEF Frame, Fields, Switches, Place
  <2>5. Sound(r)
        BY <2>2, <2>3, PlaceSound DEF Alike
  <2>6. CASE t.aborted = TRUE
        BY <2>2, <2>4, <2>5, <2>6, AbortedSpares
  <2>7. CASE t.aborted # TRUE
    <3>1. /\ Off(t) /\ Outbox(t, log)
          /\ t.responder = TRUE =>
                t.queue = st.queue /\ (st.sentLogon = TRUE => t.sentLogon = TRUE)
          BY <2>2, <2>7 DEF NowQuiet
    <3>2. Obeys(t)
          BY <2>2 DEF Obeys, Linked
    <3>3. Placed(r) /\ Fresh(r)
          BY <2>3, <2>4 DEF Placed, Fresh
    <3> QED
          BY <1>2, <2>2, <2>3, <3>1, <3>2, <3>3, SettledQuiet
  <2> QED
        BY <2>6, <2>7
<1> QED
      BY <1>1, <1>2 DEF Linked

(* The buffer of a session that has disconnected is used up.               *)
LEMMA StreamEndsSpares ==
    ASSUME NEW st, NEW log, Linked(st, log), st.reading = "stream",
           st.draining = FALSE, st.out = << >>,
           NEW r, r = [st EXCEPT !.reading = "ended", !.last = << >>]
    PROVE  Spares(st, r, log)
<1>1. Off(st) /\ Sound(st) /\ st.responder \in BOOLEAN
  <2>1. ~On(st, log)
        BY DEF Linked, Placed, On
  <2> QED
        BY <2>1 DEF Linked, Off, Sound, Typed, Switches
<1>2. st.responder = FALSE /\ Obeys(st) /\ Outbox(st, log)
      BY <1>1, NothingOut DEF Linked, Placed
<1>3. /\ Frame(st, r, {"reading", "last"}) /\ r.last = << >> /\ r.reading = "ended"
  <2>1. DOMAIN st = Fields
        BY <1>1 DEF Sound
  <2> QED
        BY <2>1 DEF Frame, Fields, Switches
<1>4. Frame(st, r, Place)
      BY <1>3, FrameMore DEF Place
<1>5. r.draining = FALSE /\ r.greeting = st.greeting /\ r.responder = FALSE
      BY <1>2, <1>3 DEF Frame, Fields, Switches
<1>6. Placeable(r)
      BY <1>1, <1>3, <1>5 DEF Placeable, Sound, Typed, Switches
<1>7. Placed(r) /\ Fresh(r)
      BY <1>3, <1>5 DEF Placed, Fresh
<1>8. r.last \in {st.last, << >>} /\ st.responder \in {st.responder, FALSE}
      BY <1>3
<1>9. /\ st.responder = TRUE =>
            st.queue = st.queue /\ (st.sentLogon = TRUE => st.sentLogon = TRUE)
      /\ st.reading = "wait" => r.reading = "wait"
      OBVIOUS
<1> QED
      BY <1>1, <1>2, <1>4, <1>6, <1>7, <1>8, <1>9, SettledQuiet

(* A session taken as it is: what SettledOn and SettledQuiet ask of it.    *)
LEMMA PlaceAsIs ==
    ASSUME NEW t, Sound(t)
    PROVE  Frame(t, t, Place) /\ Placeable(t)
BY DEF Frame, Placeable, Sound, Typed, Carried, Switches

(* An order is sent, wherever the socket thread is.                        *)
LEMMA OrderSpares ==
    ASSUME NEW st, NEW log, Linked(st, log), st.out = << >>, NEW r, r = send(st)
    PROVE  Spares(st, r, log)
<1>1. CASE On(st, log)
  <2>1. Sound(r) /\ Still(st, r)
        BY <1>1, StillCases
  <2>2. /\ On(r, log) /\ r.delivered = st.delivered /\ r.queue = st.queue
        /\ r.enabled = st.enabled /\ r.shuttingDown = st.shuttingDown
        /\ r.reading = st.reading /\ r.last = st.last
        /\ r.draining = st.draining /\ r.target = st.target
        /\ r.received = st.received
        BY <1>1, <2>1, StillOn
  <2>3. r.responder = TRUE /\ st.responder = TRUE
        /\ r.receivedLogon = TRUE /\ st.receivedLogon = TRUE
        BY <1>1, <2>2 DEF On
  <2>4. Fresh(r)
        BY <2>2, <2>3 DEF Fresh, Linked
  <2>5. Modest(r.out)
        BY <2>1, NothingOut DEF Still
  <2>6. Settles(st, r, r, log)
        BY <2>1, <2>2, <2>4, <2>5, PlaceAsIs DEF Settles
  <2>7. Hands(st, r, log)
        BY <2>2, <2>3 DEF Hands
  <2>8. r.draining = FALSE => Queued(r) = {}
        BY <2>2 DEF Linked, Queued
  <2> QED
        BY <1>1, <2>2, <2>6, <2>7, <2>8, SettledOn
<1>2. CASE Off(st)
  <2>1. Off(r) /\ Frame(st, r, Sent) /\ r.out = << >>
        BY <1>2, SendOff
  <2>2. /\ r.enabled = st.enabled /\ r.shuttingDown = st.shuttingDown
        /\ r.reading = st.reading /\ r.last = st.last
        /\ r.draining = st.draining /\ r.responder = st.responder
        /\ r.receivedLogon = st.receivedLogon /\ r.sentLogon = st.sentLogon
        /\ r.queue = st.queue
        BY <2>1 DEF Frame, Fields, Switches, Sent
  <2>3. st.receivedLogon = FALSE /\ Sound(r)
        BY <1>2, <2>1 DEF Off
  <2>4. Obeys(r) /\ Placed(r)
        BY <2>2 DEF Obeys, Placed, Linked
  <2>5. Fresh(r)
        BY <2>2, <2>3 DEF Fresh, Linked
  <2>6. Outbox(r, log) /\ Frame(r, r, Place) /\ Placeable(r)
        BY <2>1, <2>3, NothingOut, PlaceAsIs
  <2> QED
        BY <1>2, <2>1, <2>2, <2>4, <2>5, <2>6, SettledQuiet
<1> QED
      BY <1>1, <1>2 DEF Linked

(* The main thread sets a switch, or time passes.                          *)
LEMMA MinorSpares ==
    ASSUME NEW st, NEW log, Linked(st, log), st.out = << >>, NEW r,
           Frame(st, r, {"shuttingDown", "enabled", "received", "sent"}),
           r.shuttingDown \in BOOLEAN, r.enabled \in {st.enabled, FALSE},
           r.received \in 0 .. 3 * HeartBtInt, r.sent \in 0 .. HeartBtInt,
           Obeys(r), r.received # st.received /\ On(st, log) => st.last = << >>
    PROVE  Spares(st, r, log)
<1>1. Sound(st) /\ st.enabled \in BOOLEAN /\ st.receivedLogon \in BOOLEAN
      BY DEF Linked, Off, On, Sound, Typed, Switches
<1>2. /\ r.market = st.market /\ r.aborted = st.aborted /\ r.responder = st.responder
      /\ r.draining = st.draining /\ r.greeting = st.greeting
      /\ r.sentLogon = st.sentLogon /\ r.receivedLogon = st.receivedLogon
      /\ r.sentLogout = st.sentLogout /\ r.sentReset = st.sentReset
      /\ r.receivedReset = st.receivedReset
      /\ r.reading = st.reading /\ r.last = st.last /\ r.sender = st.sender
      /\ r.target = st.target /\ r.apps = st.apps /\ r.queue = st.queue
      /\ r.range = st.range /\ r.testRequest = st.testRequest /\ r.out = st.out
      /\ r.delivered = st.delivered /\ r.transmitted = st.transmitted
      BY DEF Frame, Fields, Switches
<1>3. Typed(r)
  <2>1. \A f \in Switches \ {"shuttingDown", "enabled"} : r[f] = st[f]
        BY DEF Frame, Fields, Switches
  <2>2. \A f \in Switches : r[f] \in BOOLEAN
        BY <1>1, <2>1 DEF Sound, Typed
  <2> QED
        BY <1>1, <1>2, <2>2 DEF Sound, Typed
<1>4. Sound(r)
      BY <1>1, <1>3, ChangeSound
<1>5. CASE On(st, log)
  <2>1. On(r, log)
        BY <1>1, <1>2, <1>4, <1>5 DEF On, Follows
  <2>2. st.receivedLogon = TRUE /\ st.responder = TRUE
        BY <1>5 DEF On
  <2>3. Fresh(r)
        BY <1>2, <1>5, <2>2 DEF Fresh, Linked
  <2>4. Outbox(r, log)
        BY <1>2, NothingOut
  <2>5. Placed(r) /\ Queued(r) = Queued(st) /\ Hands(st, r, log)
        BY <1>2 DEF Placed, Linked, Queued, Hands
  <2>6. Linked(r, log)
        BY <1>2, <2>1, <2>3, <2>5 DEF Linked
  <2> QED
        BY <1>2, <1>4, <2>2, <2>4, <2>5, <2>6 DEF Spares, Keeps
<1>6. CASE Off(st)
  <2>1. Off(r)
        BY <1>2, <1>4, <1>6 DEF Off, Quiet
  <2>2. st.receivedLogon = FALSE /\ st.responder \in BOOLEAN
        BY <1>1, <1>6 DEF Off, Sound, Typed, Switches
  <2>3. Fresh(r)
        BY <1>1, <1>2, <2>2 DEF Fresh, Linked
  <2>4. Outbox(r, log) /\ Frame(r, r, Place) /\ Placeable(r)
        BY <1>2, <1>4, NothingOut, PlaceAsIs
  <2>5. Placed(r)
        BY <1>2 DEF Placed, Linked
  <2> QED
        BY <1>2, <1>6, <2>1, <2>3, <2>4, <2>5, SettledQuiet
<1> QED
      BY <1>5, <1>6 DEF Linked

(* The connection is closed under a session that is off.                   *)
LEMMA ClosedConsumes ==
    ASSUME NEW st, NEW log, NEW p, Off(p), Obeys(p), p.out = << >>, p.draining = FALSE,
           NEW r, r = [p EXCEPT !.last = << >>, !.responder = FALSE,
                                !.reading = "ended"]
    PROVE  Consumes(st, r, log)
<1>1. Sound(p) /\ DOMAIN p = Fields
      BY DEF Off, Sound
<1>2. /\ Frame(p, r, {"last", "responder", "reading"})
      /\ r.last = << >> /\ r.responder = FALSE /\ r.reading = "ended"
      BY <1>1 DEF Frame, Fields, Switches
<1>3. /\ r.market = p.market /\ r.aborted = p.aborted /\ r.draining = p.draining
      /\ r.greeting = p.greeting /\ r.enabled = p.enabled
      /\ r.shuttingDown = p.shuttingDown
      /\ r.sentLogon = p.sentLogon /\ r.receivedLogon = p.receivedLogon
      /\ r.sentLogout = p.sentLogout /\ r.sentReset = p.sentReset
      /\ r.receivedReset = p.receivedReset
      /\ r.sender = p.sender /\ r.received = p.received /\ r.sent = p.sent
      /\ r.target = p.target /\ r.apps = p.apps /\ r.queue = p.queue
      /\ r.range = p.range /\ r.testRequest = p.testRequest /\ r.out = p.out
      /\ r.delivered = p.delivered /\ r.transmitted = p.transmitted
      BY <1>2 DEF Frame, Fields, Switches
<1>4. Sound(r)
  <2>1. \A f \in Switches \ {"responder"} : r[f] = p[f]
        BY <1>2 DEF Frame, Fields, Switches
  <2>2. \A f \in Switches : r[f] \in BOOLEAN
        BY <1>1, <1>2, <2>1 DEF Sound, Typed
  <2>3. Typed(r)
        BY <1>1, <1>2, <1>3, <2>2 DEF Sound, Typed
  <2>4. Carried(r)
    <3>1. r.last \in Seq(Proper) /\ Len(r.last) <= 1
          BY <1>2
    <3> QED
          BY <1>1, <1>3, <3>1 DEF Sound, Carried
  <2>5. Unique(r)
        BY <1>1, <1>2, FrameSound DEF Sound
  <2> QED
        BY <1>2, <2>3, <2>4, <2>5 DEF Sound, Frame
<1>5. Off(r)
      BY <1>3, <1>4 DEF Off, Quiet
<1>6. Obeys(r) /\ Placed(r) /\ Fresh(r)
      BY <1>2, <1>3 DEF Obeys, Placed, Fresh
<1>7. Queued(r) = {} /\ Len(r.last) = 0
      BY <1>2, <1>5 DEF Queued, Off, Quiet
<1>8. Linked(r, log) /\ Outbox(r, log)
  <2>1. Outbox(r, log)
        BY <1>3, NothingOut
  <2>2. \A i \in 1..Len(r.last) : Told(r.last[i], log)
        BY <1>7
  <2> QED
        BY <1>5, <1>6, <1>7, <2>1, <2>2 DEF Linked
<1>9. r.delivered = << >> /\ r.receivedLogon = FALSE /\ r.aborted = FALSE
      BY <1>5 DEF Off, Quiet
<1> QED
      BY <1>2, <1>4, <1>8, <1>9 DEF Consumes, Keeps, Hands, isLoggedOn

(* A message that cannot be parsed.                                        *)
LEMMA GarbledConsumes ==
    ASSUME NEW st, NEW log, Linked(st, log), st.draining = FALSE, st.out = << >>,
           NEW p, p \in {st, disconnect(st)}, NEW r,
           r = IF p.aborted \/ isLoggedOn(p) THEN [p EXCEPT !.last = << >>]
               ELSE [p EXCEPT !.last = << >>, !.responder = FALSE,
                              !.reading = "ended"]
    PROVE  Consumes(st, r, log)
<1>1. Sound(st) /\ st.aborted = FALSE /\ Obeys(st)
      BY DEF Linked, Off, On
<1>2. CASE p = st /\ On(st, log)
  <2>1. /\ st.receivedLogon = TRUE /\ isLoggedOn(st) /\ st.responder = TRUE
        BY <1>2 DEF On, isLoggedOn
  <2>2. r = [st EXCEPT !.last = << >>]
        BY <1>2, <2>1
  <2>3. /\ Frame(st, r, Place) /\ r.last = << >> /\ Placeable(r)
        /\ r.reading = st.reading /\ r.draining = FALSE
        BY <1>1, <2>2, Forgets
  <2>4. Fresh(r)
        BY <2>3 DEF Fresh
  <2>5. Settles(st, st, r, log)
        BY <1>1, <2>3, <2>4, NothingOut DEF Settles
  <2>6. Hands(st, st, log) /\ Queued(st) = {}
        BY DEF Hands, Linked
  <2>7. Spares(st, r, log)
        BY <1>2, <2>3, <2>5, <2>6, SettledOn
  <2>8. r.receivedLogon = TRUE
        BY <2>1, <2>3 DEF Frame, Fields, Switches, Place
  <2> QED
        BY <2>7, <2>8 DEF Consumes, Spares
<1>3. CASE p = st /\ Off(st)
  <2>1. p.aborted = FALSE /\ ~isLoggedOn(p)
        BY <1>3 DEF Off, isLoggedOn
  <2>2. r = [p EXCEPT !.last = << >>, !.responder = FALSE, !.reading = "ended"]
        BY <2>1
  <2> QED
        BY <1>1, <1>3, <2>2, ClosedConsumes
<1>4. CASE p = disconnect(st)
  <2>1. Sound(p) /\ Left(st, p) /\ Disconnects(st, p)
        BY <1>1, <1>4, LeftNow, LeaveSound
  <2>2. Gone(st, p)
        BY <1>1, <2>1, LeftFacts
  <2>3. /\ p.out = << >>
        BY <2>1 DEF Disconnects, Frame, Fields, Switches, Links, Numbers
  <2>4. CASE p.aborted = TRUE
    <3>1. r = [p EXCEPT !.last = << >>]
          BY <2>4
    <3>2. /\ Frame(p, r, Place) /\ Placeable(r)
          BY <2>1, <3>1, Forgets
    <3>3. Sound(r)
          BY <2>1, <3>2, PlaceSound DEF Alike
    <3>4. /\ r.aborted = p.aborted /\ r.responder = p.responder
          /\ r.receivedLogon = p.receivedLogon /\ r.delivered = p.delivered
          BY <3>2 DEF Frame, Fields, Switches, Place
    <3>5. /\ r.aborted = TRUE /\ r.responder = FALSE /\ r.receivedLogon = FALSE
          /\ r.delivered \in {st.delivered, << >>}
          BY <2>2, <2>4, <3>4 DEF Gone
    <3> QED
          BY <3>3, <3>5, AbortedSpares
  <2>5. CASE p.aborted # TRUE
    <3>1. Off(p) /\ p.draining = FALSE /\ Obeys(p)
          BY <1>1, <2>2, <2>5 DEF Gone, Obeys
    <3>2. p.aborted = FALSE /\ ~isLoggedOn(p)
          BY <3>1 DEF Off, isLoggedOn
    <3>3. r = [p EXCEPT !.last = << >>, !.responder = FALSE, !.reading = "ended"]
          BY <3>2
    <3> QED
          BY <2>3, <3>1, <3>3, ClosedConsumes
  <2> QED
        BY <2>4, <2>5
<1> QED
      BY <1>2, <1>3, <1>4 DEF Linked

(* A new connection.                                                       *)
Opens(r) ==
    /\ Sound(r) /\ r.receivedLogon = FALSE /\ r.delivered = << >>
    /\ r.aborted = FALSE => Linked(r, << >>) /\ Outbox(r, << >>)

(* A reconnect begins one, after the last has ended.                       *)
LEMMA ReconnectOpens ==
    ASSUME NEW st, NEW log, Linked(st, log), st.reading = "ended",
           NEW p, p = [st EXCEPT !.responder = TRUE, !.reading = "wait",
                                 !.out = << >>],
           NEW r, r = nextNow(p)
    PROVE  Opens(r) /\ st.responder = FALSE
<1>1. Off(st) /\ Sound(st) /\ st.responder \in BOOLEAN
  <2>1. ~On(st, log)
        BY DEF Linked, Placed, On
  <2> QED
        BY <2>1 DEF Linked, Off, Sound, Typed, Switches
<1>2. /\ st.responder = FALSE /\ Obeys(st) /\ st.draining = FALSE /\ st.last = << >>
      BY <1>1 DEF Linked, Placed, Off
<1>3. /\ Frame(st, p, {"responder", "reading", "out"})
      /\ p.responder = TRUE /\ p.reading = "wait" /\ p.out = << >>
  <2>1. DOMAIN st = Fields
        BY <1>1 DEF Sound
  <2> QED
        BY <2>1 DEF Frame, Fields, Switches
<1>4. /\ p.market = st.market /\ p.aborted = st.aborted /\ p.draining = st.draining
      /\ p.greeting = st.greeting /\ p.enabled = st.enabled
      /\ p.shuttingDown = st.shuttingDown /\ p.last = st.last
      /\ p.sentLogon = st.sentLogon /\ p.receivedLogon = st.receivedLogon
      /\ p.sentLogout = st.sentLogout /\ p.sentReset = st.sentReset
      /\ p.receivedReset = st.receivedReset
      /\ p.sender = st.sender /\ p.received = st.received /\ p.sent = st.sent
      /\ p.target = st.target /\ p.apps = st.apps /\ p.queue = st.queue
      /\ p.range = st.range /\ p.testRequest = st.testRequest
      /\ p.delivered = st.delivered /\ p.transmitted = st.transmitted
      BY <1>3 DEF Frame, Fields, Switches
<1>5. Sound(p)
  <2>1. \A f \in Switches \ {"responder"} : p[f] = st[f]
        BY <1>3 DEF Frame, Fields, Switches
  <2>2. \A f \in Switches : p[f] \in BOOLEAN
        BY <1>1, <1>3, <2>1 DEF Sound, Typed
  <2>3. Typed(p)
        BY <1>1, <1>3, <1>4, <2>2 DEF Sound, Typed
  <2>4. Carried(p) /\ Unique(p)
        BY <1>1, <1>3, <1>4 DEF Sound, Carried, Unique
  <2> QED
        BY <1>3, <2>3, <2>4 DEF Sound, Frame
<1>6. Off(p)
      BY <1>1, <1>4, <1>5 DEF Off, Quiet
<1>7. NowQuietly(p, r)
      BY <1>3, <1>6, NowOffFacts
<1>8. ASSUME r.aborted = FALSE PROVE Linked(r, << >>) /\ Outbox(r, << >>)
  <2>1. Off(r) /\ Outbox(r, << >>)
        BY <1>7, <1>8 DEF NowQuietly, NowQuiet
  <2>2. /\ r.reading = "wait" /\ r.draining = FALSE /\ r.last = << >>
        /\ r.enabled = st.enabled /\ r.shuttingDown = st.shuttingDown
        BY <1>2, <1>3, <1>4, <1>7 DEF NowQuietly
  <2>3. Obeys(r) /\ Placed(r) /\ Fresh(r)
        BY <1>2, <2>2 DEF Obeys, Placed, Fresh
  <2>4. Queued(r) = {} /\ Len(r.last) = 0
        BY <2>1, <2>2 DEF Queued, Off, Quiet
  <2> QED
        BY <2>1, <2>3, <2>4 DEF Linked
<1> QED
      BY <1>2, <1>7, <1>8 DEF Opens, NowQuietly

-----------------------------------------------------------------------------
(* What the counterparty does.                                             *)

(* A log that goes on.                                                     *)
Grows(log, more) ==
    /\ Len(log) <= Len(more)
    /\ \A i \in 1..Len(log) : more[i] = log[i]

(* What was said is said still.                                            *)
LEMMA ToldGrows ==
    ASSUME NEW log, PeerLog(log), NEW more, PeerLog(more), Grows(log, more),
           NEW m \in Proper, Told(m, log)
    PROVE  Told(m, more)
<1>1. Len(log) \in Nat /\ Len(more) \in Nat /\ Len(log) <= Len(more)
      BY DEF PeerLog, Grows
<1>2. m.seq \in Nat \ {0} /\ m.arg \in Nat
      BY ProperType
<1>3. CASE m.kind = "GapFill"
  <2>1. /\ m.seq # 1 /\ m.arg <= Len(log) + 1
        /\ \A n \in m.seq .. m.arg - 1 : log[n] # "App"
        BY <1>3 DEF Told
  <2>2. \A n \in m.seq .. m.arg - 1 : n \in 1..Len(log)
        BY <1>1, <1>2, <2>1
  <2>3. \A n \in m.seq .. m.arg - 1 : more[n] # "App"
        BY <2>1, <2>2 DEF Grows
  <2>4. m.arg <= Len(more) + 1
        BY <1>1, <1>2, <2>1
  <2> QED
        BY <1>3, <2>1, <2>3, <2>4 DEF Told
<1>4. CASE m.kind # "GapFill"
  <2>1. m.seq \in 1..Len(log) /\ m.seq \in 1..Len(more)
        BY <1>1, <1>2, <1>4 DEF Told
  <2> QED
        BY <1>4, <2>1 DEF Told, Grows
<1> QED
      BY <1>3, <1>4

(* The session stays linked while the counterparty's log goes on.          *)
LEMMA LinkedGrows ==
    ASSUME NEW st, NEW log, PeerLog(log), NEW more, PeerLog(more), Grows(log, more),
           Linked(st, log)
    PROVE  Linked(st, more)
<1>1. Sound(st)
      BY DEF Linked, Off, On
<1>2. Len(log) \in Nat /\ Len(more) \in Nat /\ Len(log) <= Len(more)
      BY DEF PeerLog, Grows
<1>3. On(st, log) => On(st, more)
  <2> SUFFICES ASSUME On(st, log) PROVE On(st, more)
        OBVIOUS
  <2>1. /\ st.target # 1 /\ st.target <= Len(log) + 1 /\ st.target \in Nat \ {0}
        /\ st.delivered = AppsOf(log, st.target - 1)
        /\ \A q \in st.queue : q \in Proper /\ Told(q, log) /\ q.kind \in Numbered
        BY <1>1 DEF On, Follows, Sound, Typed, Carried
  <2>2. st.target - 1 \in Nat /\ \A i \in 1..st.target - 1 : i \in 1..Len(log)
        BY <1>2, <2>1
  <2>3. \A i \in 1..st.target - 1 : more[i] = log[i]
        BY <2>2 DEF Grows
  <2>4. st.delivered = AppsOf(more, st.target - 1)
        BY <2>1, <2>2, <2>3, AppsOfSame
  <2>5. st.target <= Len(more) + 1
        BY <1>2, <2>1
  <2>6. \A q \in st.queue : Told(q, more) /\ q.kind \in Numbered
        BY <2>1, ToldGrows
  <2>7. Follows(st, more)
        BY <2>1, <2>4, <2>5, <2>6 DEF Follows
  <2> QED
        BY <2>7 DEF On
<1>4. \A i \in 1..Len(st.last) : Told(st.last[i], more)
  <2>1. \A i \in 1..Len(st.last) : st.last[i] \in Proper /\ Told(st.last[i], log)
        BY <1>1 DEF Sound, Carried, Linked
  <2> QED
        BY <2>1, ToldGrows
<1> QED
      BY <1>3, <1>4 DEF Linked

(* What it repeats are application messages, messages that the dictionary  *)
(* rejects, and gap fills over the rest.                                   *)
Repeatable(log, b) ==
    {m \in Proper : b # 1 => Told(m, log) /\ m.kind # "Logon"}

(* The counterparty answers a resend request with nothing else.            *)
LEMMA RepeatsTold ==
    ASSUME NEW log, PeerLog(log), NEW b \in Nat \ {0}
    PROVE  Repeated(log, {n \in 1 .. Len(log) : log[n] \in {"App", "Bad"}},
                    b, Len(log)) \in Seq(Repeatable(log, b))
<1> DEFINE e == Len(log)
           again == {n \in 1 .. e : log[n] \in {"App", "Bad"}}
           G == Repeatable(log, b)
           next(n) == Min((again \cap n .. e) \cup {e + 1})
           fill(n) == Msg("GapFill", n, TRUE, next(n))
           copy(n) == Msg(log[n], n, TRUE, 0)
           part(n) == IF n \in again THEN <<copy(n)>>
                      ELSE IF n = b \/ n - 1 \in again THEN <<fill(n)>> ELSE << >>
           parts == [i \in 1 .. e - b + 1 |-> part(b + i - 1)]
<1>1. e \in Nat
      BY DEF PeerLog
<1>2. Repeated(log, again, b, e) =
        IF b > e THEN <<Msg("GapFill", b, TRUE, e + 1)>> ELSE FlattenSeq(parts)
      BY DEF Repeated
<1>3. CASE b > e
  <2>1. Msg("GapFill", b, TRUE, e + 1) \in G
    <3> DEFINE m == Msg("GapFill", b, TRUE, e + 1)
    <3>1. /\ m \in Proper /\ m.kind = "GapFill" /\ m.seq = b /\ m.arg = e + 1
      <4>1. "GapFill" \in Kinds /\ e + 1 \in Nat /\ e + 1 # 0 /\ TRUE \in BOOLEAN
            BY <1>1 DEF Kinds
      <4> QED
            BY <4>1 DEF Msg, Proper, Message
    <3> HIDE DEF m
    <3>2. \A n \in m.seq .. m.arg - 1 : FALSE
          BY <1>1, <1>3, <3>1
    <3>3. m.arg <= Len(log) + 1
          BY <1>1, <3>1
    <3>4. b # 1 => Told(m, log) /\ m.kind # "Logon"
          BY <3>1, <3>2, <3>3 DEF Told
    <3> QED
          BY <3>1, <3>4 DEF Repeatable, m
  <2> DEFINE m == Msg("GapFill", b, TRUE, e + 1)
  <2>2. m \in G
        BY <2>1
  <2>3. Repeated(log, again, b, e) = <<m>>
        BY <1>2, <1>3
  <2> HIDE DEF m, G
  <2>4. Repeated(log, again, b, e) \in Seq(G)
        BY <2>2, <2>3
  <2> QED
        BY <2>4 DEF G
<1>4. CASE b <= e
  <2>1. ASSUME NEW n \in again PROVE copy(n) \in Proper
                                     /\ Told(copy(n), log) /\ copy(n).kind # "Logon"
    <3>1. n \in Nat \ {0} /\ log[n] \in Kinds /\ log[n] \notin {"ResendRequest", "GapFill"}
          BY <1>1, <2>1 DEF Kinds
    <3>2. 0 \in Nat /\ TRUE \in BOOLEAN
          OBVIOUS
    <3>3. copy(n) \in Proper /\ copy(n).kind = log[n] /\ copy(n).seq = n
          BY <3>1, <3>2 DEF Msg, Proper, Message
    <3>4. log[n] \notin {"GapFill", "Logon"} /\ n \in 1..Len(log)
          BY <2>1
    <3> HIDE DEF copy
    <3> QED
          BY <3>3, <3>4 DEF Told
  <2>2. ASSUME NEW n \in b .. e PROVE fill(n) \in G
    <3> DEFINE S == (again \cap n .. e) \cup {e + 1}
    <3>1. S \in SUBSET Nat /\ S # {}
          BY <1>1
    <3>2. \E x \in S : \A y \in S : x <= y
          BY <3>1, LeastElement
    <3>3. next(n) \in S /\ \A y \in S : next(n) <= y
          BY <3>2 DEF Min
    <3> DEFINE k == next(n)
               m == fill(n)
    <3>4. k \in S /\ \A y \in S : k <= y
          BY <3>3
    <3> HIDE DEF k
    <3>5. k \in Nat /\ k <= e + 1 /\ k >= n /\ n \in Nat \ {0}
          BY <1>1, <3>1, <3>4
    <3>6. \A i \in n .. k - 1 : i \in 1..e /\ i \notin again
      <4> SUFFICES ASSUME NEW i \in n .. k - 1 PROVE i \in 1..e /\ i \notin again
            OBVIOUS
      <4>1. i \in n .. e /\ i \in 1..e /\ i < k
            BY <1>1, <3>5
      <4> QED
            BY <3>4, <3>5, <4>1
    <3>7. \A i \in n .. k - 1 : log[i] # "App"
          BY <3>6
    <3>8. m \in Proper /\ m.kind = "GapFill" /\ m.seq = n /\ m.arg = k
      <4>1. "GapFill" \in Kinds /\ k # 0 /\ TRUE \in BOOLEAN
            BY <3>5 DEF Kinds
      <4>2. m = Msg("GapFill", n, TRUE, k)
            BY DEF k
      <4> HIDE DEF m
      <4> QED
            BY <3>5, <4>1, <4>2 DEF Msg, Proper, Message
    <3> HIDE DEF m
    <3>9. b # 1 => n # 1
          BY <2>2
    <3>10. b # 1 => Told(m, log) /\ m.kind # "Logon"
          BY <3>5, <3>7, <3>8, <3>9 DEF Told
    <3>11. m \in G
          BY <3>8, <3>10 DEF Repeatable
    <3> QED
          BY <3>11 DEF m
  <2>3. \A n \in again : copy(n) \in G
        BY <2>1 DEF Repeatable
  <2> HIDE DEF copy, fill, G
  <2> DEFINE P == Seq(G)
  <2>4. \A n \in b .. e : part(n) \in P
        BY <2>2, <2>3
  <2> HIDE DEF P, part
  <2>5. e - b + 1 \in Nat /\ \A i \in 1 .. e - b + 1 : b + i - 1 \in b .. e
        BY <1>1, <1>4
  <2> HIDE DEF e
  <2>6. parts \in Seq(P)
        BY <2>4, <2>5
  <2> HIDE DEF parts
  <2>7. FlattenSeq(parts) \in Seq(G)
        BY <2>6, FlattenType DEF P
  <2>8. ~(b > e)
        BY <1>1, <1>4
  <2>9. Repeated(log, again, b, e) = FlattenSeq(parts)
        BY <1>2, <2>8
  <2>10. Repeated(log, again, b, e) \in Seq(G)
        BY <2>7, <2>9, Zenon
  <2> QED
        BY <2>10 DEF e, G
<1> QED
      BY <1>1, <1>3, <1>4

(* The next message of the session's is taken from the socket.             *)
LEMMA TakenOut ==
    ASSUME NEW st, Sound(st), st.out # << >>,
           NEW r, r = [st EXCEPT !.out = Tail(@)]
    PROVE  /\ Frame(st, r, {"out"}) /\ Sound(r) /\ r.out = Tail(st.out)
           /\ \A log : Linked(st, log) => Linked(r, log)
           /\ \A log : Outbox(st, log) => Outbox(r, log)
<1>1. DOMAIN st = Fields /\ st.out \in Seq(Proper)
      BY DEF Sound, Carried
<1>2. Frame(st, r, {"out"}) /\ r.out = Tail(st.out)
      BY <1>1 DEF Frame, Fields, Switches
<1>3. /\ r.out \in Seq(Proper) /\ Len(r.out) = Len(st.out) - 1
      /\ \A i \in 1..Len(r.out) : i + 1 \in 1..Len(st.out) /\ r.out[i] = st.out[i + 1]
      BY <1>1, <1>2
<1>4. /\ r.market = st.market /\ r.aborted = st.aborted /\ r.responder = st.responder
      /\ r.draining = st.draining /\ r.greeting = st.greeting
      /\ r.enabled = st.enabled /\ r.shuttingDown = st.shuttingDown
      /\ r.sentLogon = st.sentLogon /\ r.receivedLogon = st.receivedLogon
      /\ r.sentLogout = st.sentLogout /\ r.sentReset = st.sentReset
      /\ r.receivedReset = st.receivedReset
      /\ r.received = st.received /\ r.sent = st.sent
      /\ r.reading = st.reading /\ r.last = st.last /\ r.sender = st.sender
      /\ r.target = st.target /\ r.apps = st.apps /\ r.queue = st.queue
      /\ r.range = st.range /\ r.testRequest = st.testRequest
      /\ r.delivered = st.delivered /\ r.transmitted = st.transmitted
      BY <1>2 DEF Frame, Fields, Switches
<1>5. Sound(r)
  <2>1. \A f \in Switches : r[f] = st[f]
        BY <1>2 DEF Frame, Fields, Switches
  <2>2. Typed(r)
        BY <1>4, <2>1 DEF Sound, Typed
  <2>3. Carried(r)
        BY <1>3, <1>4 DEF Sound, Carried
  <2>4. Unique(r)
        BY <1>4 DEF Sound, Unique
  <2> QED
        BY <1>2, <2>2, <2>3, <2>4 DEF Sound, Frame
<1>6. Off(st) => Off(r)
      BY <1>4, <1>5 DEF Off, Quiet
<1>7. \A log : On(st, log) => On(r, log)
      BY <1>4, <1>5 DEF On, Follows
<1>8. ASSUME NEW log, Linked(st, log) PROVE Linked(r, log)
  <2>1. Off(r) \/ On(r, log)
        BY <1>6, <1>7, <1>8 DEF Linked
  <2>2. Obeys(r) /\ Placed(r) /\ Fresh(r)
        BY <1>4, <1>8 DEF Linked, Obeys, Placed, Fresh
  <2>3. /\ \A i \in 1..Len(r.last) : Told(r.last[i], log)
        /\ r.draining = FALSE => Queued(r) = {}
        BY <1>4, <1>8 DEF Linked, Queued
  <2> QED
        BY <2>1, <2>2, <2>3 DEF Linked
<1>9. ASSUME NEW log, Outbox(st, log) PROVE Outbox(r, log)
  <2>1. CASE log = << >>
        BY <1>3, <1>4, <1>9, <2>1 DEF Outbox
  <2>2. CASE log # << >>
        BY <1>3, <1>9, <2>2 DEF Outbox, Modest
  <2> QED
        BY <2>1, <2>2
<1> QED
      BY <1>2, <1>5, <1>8, <1>9

(* What the counterparty says in answer, and its log after it.             *)
Speech(log, more, msgs) ==
    /\ PeerLog(more) /\ Grows(log, more)
    /\ msgs \in Seq(Proper)
    /\ \A i \in 1..Len(msgs) : Told(msgs[i], more) /\ msgs[i].kind # "Logon"
    /\ log = << >> => more = << >> /\ msgs = << >>

(* It goes to the inbox.                                                   *)
LEMMA SpeechHeard ==
    ASSUME NEW st, NEW box \in Seq(Proper), NEW log, PeerLog(log), NEW more, NEW msgs,
           Speech(log, more, msgs),
           Linked(st, log), Inbox(st, box, log), Outbox(st, log)
    PROVE  /\ Linked(st, more) /\ Inbox(st, box \o msgs, more) /\ Outbox(st, more)
<1>1. /\ PeerLog(more) /\ Grows(log, more) /\ msgs \in Seq(Proper)
      /\ log = << >> => more = << >> /\ msgs = << >>
      BY DEF Speech
<1>2. log # << >> => more # << >>
  <2>1. log # << >> => Len(log) # 0
        BY DEF PeerLog
  <2>2. more = << >> => Len(more) = 0
        OBVIOUS
  <2>3. Len(log) \in Nat /\ Len(more) \in Nat /\ Len(log) <= Len(more)
        BY <1>1 DEF PeerLog, Grows
  <2> QED
        BY <2>1, <2>2, <2>3
<1>3. Linked(st, more)
      BY <1>1, LinkedGrows
<1>4. Outbox(st, more)
      BY <1>1, <1>2 DEF Outbox
<1> DEFINE all == box \o msgs
<1>5. /\ all \in Seq(Proper) /\ Len(all) = Len(box) + Len(msgs)
      /\ Len(box) \in Nat /\ Len(msgs) \in Nat
      BY <1>1
<1>6. \A i \in 1..Len(all) :
         \/ i \in 1..Len(box) /\ all[i] = box[i]
         \/ i - Len(box) \in 1..Len(msgs) /\ all[i] = msgs[i - Len(box)]
      BY <1>1, <1>5
<1>7. box # << >> => all # << >> /\ all[1] = box[1]
      BY <1>5
<1>8. log = << >> => all = << >>
  <2>1. log = << >> => box = << >> /\ msgs = << >>
        BY <1>1 DEF Inbox
  <2> QED
        BY <2>1
<1> HIDE DEF all
<1>9. \A i \in 1..Len(all) : Told(all[i], more)
  <2>1. \A i \in 1..Len(box) : box[i] \in Proper /\ Told(box[i], log)
        BY DEF Inbox
  <2>2. \A i \in 1..Len(box) : Told(box[i], more)
        BY <1>1, <2>1, ToldGrows
  <2> QED
        BY <1>6, <2>2 DEF Speech
<1>10. \A i \in 1..Len(all) : all[i].kind = "Logon" =>
          i = 1 /\ st.reading = "wait" /\ st.receivedLogon = FALSE
  <2>1. \A i \in 1..Len(all) : all[i].kind = "Logon" =>
           i \in 1..Len(box) /\ all[i] = box[i]
        BY <1>6 DEF Speech
  <2> QED
        BY <2>1 DEF Inbox
<1>11. more = << >> => all = << >>
       BY <1>2, <1>8
<1>12. more # << >> /\ st.receivedLogon = FALSE /\ st.responder = TRUE =>
          /\ st.queue = {} /\ st.sentLogon = TRUE
          /\ all # << >> /\ all[1].kind = "Logon"
       BY <1>1, <1>7 DEF Inbox
<1>13. Inbox(st, all, more)
       BY <1>9, <1>10, <1>11, <1>12 DEF Inbox
<1> QED
       BY <1>3, <1>4, <1>13 DEF all

(* A message of its own, other than a Logon.                               *)
LEMMA SayIsSpeech ==
    ASSUME PeerLog(peer.log), NEW kind \in PeerSaid, kind # "Logon",
           NEW arg \in Nat, kind = "ResendRequest" => arg # 0,
           peer.log = << >> => ~(0 < MaxPeer)
    PROVE  Speech(peer.log, Say(kind, arg).log, Say(kind, arg).msgs)
<1> DEFINE log == peer.log
           m == Msg(kind, Len(log) + 1, FALSE, arg)
<1>1. log \in Seq(PeerSaid) /\ Len(log) \in Nat
      BY DEF PeerLog
<1>2. CASE Len(log) < MaxPeer
  <2> DEFINE more == Append(log, kind)
  <2>1. Say(kind, arg).log = more /\ Say(kind, arg).msgs = <<m>>
        BY <1>2 DEF Say
  <2>2. log # << >>
        BY <1>2
  <2>3. /\ more \in Seq(PeerSaid) /\ Len(more) = Len(log) + 1
        /\ \A i \in 1..Len(log) : more[i] = log[i]
        /\ more[Len(log) + 1] = kind
        BY <1>1
  <2>4. 1 \in 1..Len(log)
        BY <1>1, <2>2
  <2> HIDE DEF more
  <2>5. PeerLog(more)
    <3>1. more[1] = "Logon"
          BY <2>2, <2>3, <2>4 DEF PeerLog
    <3>2. \A n \in 2 .. Len(more) : n \in 2 .. Len(log) \/ n = Len(log) + 1
          BY <1>1, <2>3
    <3>3. \A n \in 2 .. Len(log) : more[n] = log[n] /\ log[n] # "Logon"
          BY <1>1, <2>3 DEF PeerLog
    <3>4. \A n \in 2 .. Len(more) : more[n] # "Logon"
          BY <2>3, <3>2, <3>3
    <3> QED
          BY <2>3, <3>1, <3>4 DEF PeerLog
  <2>6. Grows(log, more)
        BY <1>1, <2>3 DEF Grows
  <2>7. /\ m \in Proper /\ m.kind = kind /\ m.seq = Len(log) + 1
    <3>1. kind \in Kinds /\ kind # "GapFill"
          BY PeerAssumption DEF Kinds, PeerSaid
    <3>2. Len(log) + 1 \in Nat \ {0} /\ FALSE \in BOOLEAN
          BY <1>1
    <3> HIDE DEF log
    <3> QED
          BY <3>1, <3>2 DEF Msg, Proper, Message
  <2>8. kind # "GapFill"
        BY PeerAssumption DEF PeerSaid
  <2> HIDE DEF m
  <2>9. m.seq \in 1..Len(more)
        BY <1>1, <2>3, <2>7
  <2>10. Told(m, more)
        BY <2>3, <2>7, <2>8, <2>9 DEF Told
  <2>11. <<m>> \in Seq(Proper) /\ \A i \in 1..Len(<<m>>) : <<m>>[i] = m
        BY <2>7
  <2>12. Speech(log, more, <<m>>)
        BY <2>2, <2>5, <2>6, <2>7, <2>10, <2>11 DEF Speech
  <2> QED
        BY <2>1, <2>12
<1>3. CASE ~(Len(log) < MaxPeer)
  <2>1. Say(kind, arg).log = log /\ Say(kind, arg).msgs = << >>
        BY <1>3 DEF Say
  <2>2. Grows(log, log)
        BY <1>1 DEF Grows
  <2> QED
        BY <2>1, <2>2 DEF Speech
<1> QED
      BY <1>2, <1>3

(* The counterparty takes a message, or not, and says something.           *)
LEMMA PeerStep ==
    ASSUME LinkInv,
           s' = s \/ (s.out # << >> /\ s' = [s EXCEPT !.out = Tail(@)]),
           NEW more, NEW msgs, inbox' = inbox \o msgs, peer'.log = more,
           DOMAIN peer' = {"on", "log", "expected", "accepted"},
           peer'.expected \in Nat \ {0}, peer'.on => peer.on,
           PeerLog(more), Grows(peer.log, more), msgs \in Seq(Proper),
           s.aborted = FALSE => Speech(peer.log, more, msgs)
    PROVE  LinkInv'
<1>1. /\ Sound(s) /\ inbox \in Seq(Proper) /\ PeerLog(peer.log)
      /\ isLoggedOn(s) => s.responder = TRUE
      BY DEF LinkInv
<1>2. /\ Sound(s') /\ s'.aborted = s.aborted /\ s'.responder = s.responder
      /\ s'.receivedLogon = s.receivedLogon /\ s'.sentLogon = s.sentLogon
      /\ s'.queue = s.queue /\ s'.reading = s.reading
      /\ \A log : Linked(s, log) => Linked(s', log)
      /\ \A log : Outbox(s, log) => Outbox(s', log)
  <2>1. CASE s' = s
        BY <1>1, <2>1
  <2>2. CASE s.out # << >> /\ s' = [s EXCEPT !.out = Tail(@)]
    <3>1. /\ Frame(s, s', {"out"}) /\ Sound(s')
          /\ \A log : Linked(s, log) => Linked(s', log)
          /\ \A log : Outbox(s, log) => Outbox(s', log)
          BY <1>1, <2>2, TakenOut
    <3>2. /\ s'.aborted = s.aborted /\ s'.responder = s.responder
          /\ s'.receivedLogon = s.receivedLogon /\ s'.sentLogon = s.sentLogon
          /\ s'.queue = s.queue /\ s'.reading = s.reading
          BY <3>1 DEF Frame, Fields, Switches
    <3> QED
          BY <3>1, <3>2
  <2> QED
        BY <2>1, <2>2
<1>3. inbox' \in Seq(Proper)
      BY <1>1
<1>4. peer'.on /\ peer'.log = << >> => ~(0 < MaxPeer)
  <2>1. more = << >> => peer.log = << >>
    <3>1. more = << >> => Len(more) = 0
          OBVIOUS
    <3>2. Len(peer.log) \in Nat /\ Len(peer.log) <= Len(more)
          BY <1>1 DEF PeerLog, Grows
    <3>3. Len(peer.log) = 0 => peer.log = << >>
          BY <1>1 DEF PeerLog
    <3> QED
          BY <3>1, <3>2, <3>3
  <2> QED
        BY <2>1 DEF LinkInv
<1>5. ASSUME s'.aborted = FALSE
      PROVE  /\ Linked(s', peer'.log) /\ Inbox(s', inbox', peer'.log)
             /\ Outbox(s', peer'.log)
  <2>1. /\ Linked(s, peer.log) /\ Inbox(s, inbox, peer.log) /\ Outbox(s, peer.log)
        /\ Speech(peer.log, more, msgs)
        BY <1>2, <1>5 DEF LinkInv
  <2>2. /\ Linked(s, more) /\ Inbox(s, inbox \o msgs, more) /\ Outbox(s, more)
        BY <1>1, <2>1, SpeechHeard
  <2>3. Inbox(s', inbox \o msgs, more)
        BY <1>2, <2>2 DEF Inbox
  <2> QED
        BY <1>2, <2>2, <2>3
<1>6. isLoggedOn(s') => s'.responder = TRUE
      BY <1>1, <1>2 DEF isLoggedOn
<1> QED
      BY <1>2, <1>3, <1>4, <1>5, <1>6 DEF LinkInv

(* A message that the counterparty takes.                                  *)
LEMMA TakenFacts ==
    ASSUME LinkInv, NEW m, PeerTakes(m)
    PROVE  /\ s.out # << >> /\ s' = [s EXCEPT !.out = Tail(@)]
           /\ m \in Proper /\ m = s.out[1] /\ 1 \in 1..Len(s.out)
<1>1. /\ s.out # << >> /\ s' = [s EXCEPT !.out = Tail(@)] /\ m = Head(s.out)
      BY DEF PeerTakes
<1>2. s.out \in Seq(Proper)
      BY DEF LinkInv, Sound, Carried
<1>3. 1 \in 1..Len(s.out) /\ Head(s.out) = s.out[1]
      BY <1>1, <1>2
<1> QED
      BY <1>1, <1>2, <1>3

(* Saying nothing.                                                         *)
LEMMA SilentSpeech ==
    ASSUME NEW log, PeerLog(log)
    PROVE  /\ Speech(log, log, << >>) /\ Grows(log, log)
           /\ << >> \in Seq(Proper)
<1>1. Len(log) \in Nat /\ << >> \in Seq(Proper) /\ Len(<< >>) = 0
      BY DEF PeerLog
<1>2. Grows(log, log)
      BY <1>1 DEF Grows
<1> QED
      BY <1>1, <1>2 DEF Speech


(* PeerResends keeps the invariant.                                        *)
LEMMA PeerResendsKeeps ==
    ASSUME LinkInv, PeerResends
    PROVE  LinkInv'
<1>1. PICK m : /\ PeerTakes(m) /\ peer.on /\ m.kind = "ResendRequest"
               /\ inbox' = inbox \o PeerRepeats(m.arg)
               /\ peer' = IF m.seq = peer.expected
                          THEN [peer EXCEPT !.expected = @ + 1] ELSE peer
      BY DEF PeerResends
<1>2. /\ s.out # << >> /\ s' = [s EXCEPT !.out = Tail(@)]
      /\ m \in Proper /\ m = s.out[1] /\ 1 \in 1..Len(s.out)
      BY <1>1, TakenFacts
<1>3. m.arg \in Nat \ {0}
      BY <1>1, <1>2, ProperType
<1>4. /\ PeerLog(peer.log) /\ peer.expected \in Nat \ {0}
      /\ DOMAIN peer = {"on", "log", "expected", "accepted"}
      BY DEF LinkInv
<1>5. /\ peer'.log = peer.log /\ peer'.on = peer.on
      /\ peer'.expected \in Nat \ {0}
      /\ DOMAIN peer' = {"on", "log", "expected", "accepted"}
  <2>1. CASE peer' = peer
        BY <1>4, <2>1
  <2>2. CASE peer' = [peer EXCEPT !.expected = @ + 1]
        BY <1>4, <2>2
  <2> QED
        BY <1>1, <2>1, <2>2
<1> DEFINE msgs == PeerRepeats(m.arg)
           G == Repeatable(peer.log, m.arg)
<1>6. msgs \in Seq(G)
      BY <1>3, <1>4, RepeatsTold DEF PeerRepeats
<1>7. G \subseteq Proper
      BY DEF Repeatable
<1> HIDE DEF msgs, G
<1>8. msgs \in Seq(Proper) /\ \A i \in 1..Len(msgs) : msgs[i] \in G
      BY <1>6, <1>7
<1>9. ASSUME s.aborted = FALSE PROVE Speech(peer.log, peer.log, msgs)
  <2>1. Outbox(s, peer.log)
        BY <1>9 DEF LinkInv
  <2>2. peer.log # << >> /\ m.arg # 1
        BY <1>1, <1>2, <2>1 DEF Outbox, Modest
  <2>3. \A i \in 1..Len(msgs) : Told(msgs[i], peer.log) /\ msgs[i].kind # "Logon"
        BY <1>8, <2>2 DEF G, Repeatable
  <2> QED
        BY <1>4, <1>8, <2>2, <2>3, SilentSpeech DEF Speech
<1>10. Grows(peer.log, peer.log) /\ inbox' = inbox \o msgs
       BY <1>1, <1>4, SilentSpeech DEF msgs
<1> QED
       BY <1>1, <1>2, <1>4, <1>5, <1>8, <1>9, <1>10, PeerStep

(* PeerTooHigh keeps the invariant.                                        *)
LEMMA PeerTooHighKeeps ==
    ASSUME LinkInv, PeerTooHigh
    PROVE  LinkInv'
<1> DEFINE said == Say("ResendRequest", peer.expected)
<1>1. PICK m : /\ PeerTakes(m) /\ peer.on
               /\ peer' = [peer EXCEPT !.log = said.log]
               /\ inbox' = inbox \o said.msgs
      BY DEF PeerTooHigh
<1>2. /\ s.out # << >> /\ s' = [s EXCEPT !.out = Tail(@)]
      BY <1>1, TakenFacts
<1>3. /\ PeerLog(peer.log) /\ peer.expected \in Nat \ {0}
      /\ DOMAIN peer = {"on", "log", "expected", "accepted"}
      /\ peer.log = << >> => ~(0 < MaxPeer)
      BY <1>1 DEF LinkInv
<1>4. Speech(peer.log, said.log, said.msgs)
  <2>1. "ResendRequest" \in PeerSaid /\ peer.expected \in Nat /\ peer.expected # 0
        BY <1>3 DEF PeerSaid
  <2> QED
        BY <1>3, <2>1, SayIsSpeech
<1> HIDE DEF said
<1>5. /\ peer'.log = said.log /\ peer'.on = peer.on
      /\ peer'.expected \in Nat \ {0}
      /\ DOMAIN peer' = {"on", "log", "expected", "accepted"}
      BY <1>1, <1>3
<1>6. PeerLog(said.log) /\ Grows(peer.log, said.log) /\ said.msgs \in Seq(Proper)
      BY <1>4 DEF Speech
<1> QED
      BY <1>1, <1>2, <1>4, <1>5, <1>6, PeerStep

(* PeerTooLow keeps the invariant.                                         *)
LEMMA PeerTooLowKeeps ==
    ASSUME LinkInv, PeerTooLow
    PROVE  LinkInv'
<1> DEFINE said == Say("Logout", 0)
<1>1. PICK m : /\ PeerTakes(m) /\ peer.on
               /\ IF m.poss THEN UNCHANGED <<inbox, peer>>
                  ELSE /\ inbox' = inbox \o said.msgs
                       /\ peer' = [peer EXCEPT !.on = FALSE, !.log = said.log]
      BY DEF PeerTooLow
<1>2. /\ s.out # << >> /\ s' = [s EXCEPT !.out = Tail(@)]
      BY <1>1, TakenFacts
<1>3. /\ PeerLog(peer.log) /\ peer.expected \in Nat \ {0}
      /\ DOMAIN peer = {"on", "log", "expected", "accepted"}
      /\ peer.log = << >> => ~(0 < MaxPeer)
      /\ inbox \in Seq(Proper)
      BY <1>1 DEF LinkInv
<1>4. Speech(peer.log, said.log, said.msgs)
  <2>1. "Logout" \in PeerSaid
        BY <1>3 DEF PeerSaid
  <2> QED
        BY <1>3, <2>1, SayIsSpeech
<1> HIDE DEF said
<1>5. CASE UNCHANGED <<inbox, peer>>
  <2>1. inbox' = inbox \o << >>
        BY <1>3, <1>5
  <2>2. /\ Speech(peer.log, peer.log, << >>) /\ Grows(peer.log, peer.log)
        /\ << >> \in Seq(Proper)
        BY <1>3, SilentSpeech
  <2> QED
        BY <1>1, <1>2, <1>3, <1>5, <2>1, <2>2, PeerStep
<1>6. CASE /\ inbox' = inbox \o said.msgs
           /\ peer' = [peer EXCEPT !.on = FALSE, !.log = said.log]
  <2>1. /\ peer'.log = said.log /\ peer'.on = FALSE
        /\ peer'.expected \in Nat \ {0}
        /\ DOMAIN peer' = {"on", "log", "expected", "accepted"}
        BY <1>3, <1>6
  <2>2. PeerLog(said.log) /\ Grows(peer.log, said.log) /\ said.msgs \in Seq(Proper)
        BY <1>4 DEF Speech
  <2> QED
        BY <1>2, <1>4, <1>6, <2>1, <2>2, PeerStep
<1> QED
      BY <1>1, <1>5, <1>6

(* PeerInTurn keeps the invariant.                                         *)
LEMMA PeerInTurnKeeps ==
    ASSUME LinkInv, PeerInTurn
    PROVE  LinkInv'
<1> DEFINE said(m) == CASE m.kind = "TestRequest" -> Say("Heartbeat", 0)
                        [] m.kind = "Logout" -> Say("Logout", 0)
                        [] OTHER -> [log |-> peer.log, msgs |-> << >>]
<1>1. PICK m : /\ PeerTakes(m) /\ peer.on
               /\ inbox' = inbox \o said(m).msgs
               /\ peer' = [peer EXCEPT
                     !.log = said(m).log, !.on = m.kind # "Logout",
                     !.expected = IF m.kind = "GapFill" THEN m.arg ELSE @ + 1,
                     !.accepted = IF m.kind = "App" THEN Append(@, m.seq) ELSE @]
      BY DEF PeerInTurn
<1>2. /\ s.out # << >> /\ s' = [s EXCEPT !.out = Tail(@)] /\ m \in Proper
      BY <1>1, TakenFacts
<1>3. /\ PeerLog(peer.log) /\ peer.expected \in Nat \ {0}
      /\ DOMAIN peer = {"on", "log", "expected", "accepted"}
      /\ peer.log = << >> => ~(0 < MaxPeer)
      BY <1>1 DEF LinkInv
<1>4. Speech(peer.log, said(m).log, said(m).msgs)
  <2>1. "Logout" \in PeerSaid /\ "Heartbeat" \in PeerSaid
        BY <1>3 DEF PeerSaid
  <2>2. Speech(peer.log, Say("Logout", 0).log, Say("Logout", 0).msgs)
        BY <1>3, <2>1, SayIsSpeech
  <2>3. Speech(peer.log, Say("Heartbeat", 0).log, Say("Heartbeat", 0).msgs)
        BY <1>3, <2>1, SayIsSpeech
  <2>4. Speech(peer.log, peer.log, << >>)
        BY <1>3, SilentSpeech
  <2>5. CASE m.kind = "TestRequest"
        BY <2>3, <2>5
  <2>6. CASE m.kind = "Logout"
        BY <2>2, <2>6
  <2>7. CASE m.kind \notin {"TestRequest", "Logout"}
        BY <2>4, <2>7
  <2> QED
        BY <2>5, <2>6, <2>7
<1>5. m.kind = "GapFill" => m.arg \in Nat \ {0}
      BY <1>2, ProperType
<1> HIDE DEF said
<1>6. /\ peer'.log = said(m).log
      /\ peer'.expected = IF m.kind = "GapFill" THEN m.arg ELSE peer.expected + 1
      /\ DOMAIN peer' = {"on", "log", "expected", "accepted"}
      BY <1>1, <1>3
<1>7. peer'.expected \in Nat \ {0}
      BY <1>3, <1>5, <1>6
<1>8. PeerLog(said(m).log) /\ Grows(peer.log, said(m).log) /\ said(m).msgs \in Seq(Proper)
      BY <1>4 DEF Speech
<1> QED
      BY <1>1, <1>2, <1>4, <1>6, <1>7, <1>8, PeerStep

(* PeerSends keeps the invariant.                                          *)
LEMMA PeerSendsKeeps ==
    ASSUME LinkInv, PeerSends
    PROVE  LinkInv'
<1>1. PICK kind \in PeerKinds :
          /\ peer.on
          /\ inbox' = inbox \o Say(kind, 0).msgs
          /\ peer' = [peer EXCEPT !.log = Say(kind, 0).log, !.on = kind # "Logout"]
          /\ s' = s
      BY DEF PeerSends
<1> DEFINE said == Say(kind, 0)
<1>2. /\ PeerLog(peer.log) /\ peer.expected \in Nat \ {0}
      /\ DOMAIN peer = {"on", "log", "expected", "accepted"}
      /\ peer.log = << >> => ~(0 < MaxPeer)
      BY <1>1 DEF LinkInv
<1>3. Speech(peer.log, said.log, said.msgs)
  <2>1. kind \in PeerSaid /\ kind # "Logon" /\ kind # "ResendRequest"
        BY PeerAssumption DEF PeerSaid
  <2> QED
        BY <1>2, <2>1, SayIsSpeech
<1>4. inbox' = inbox \o said.msgs
      BY <1>1
<1>5. peer' = [peer EXCEPT !.log = said.log, !.on = kind # "Logout"]
      BY <1>1
<1> HIDE DEF said
<1>6. /\ peer'.log = said.log /\ peer'.expected \in Nat \ {0}
      /\ DOMAIN peer' = {"on", "log", "expected", "accepted"}
      BY <1>2, <1>5
<1>7. PeerLog(said.log) /\ Grows(peer.log, said.log) /\ said.msgs \in Seq(Proper)
      BY <1>3 DEF Speech
<1> QED
      BY <1>1, <1>3, <1>4, <1>6, <1>7, PeerStep

(* A message lost on the way out keeps the invariant.                      *)
LEMMA LostKeeps ==
    ASSUME LinkInv, s.out # << >>, s' = [s EXCEPT !.out = Tail(@)],
           UNCHANGED <<inbox, peer>>
    PROVE  LinkInv'
<1>1. /\ PeerLog(peer.log) /\ peer.expected \in Nat \ {0}
      /\ DOMAIN peer = {"on", "log", "expected", "accepted"}
      /\ inbox \in Seq(Proper)
      BY DEF LinkInv
<1>2. inbox' = inbox \o << >>
      BY <1>1
<1>3. /\ Speech(peer.log, peer.log, << >>) /\ Grows(peer.log, peer.log)
      /\ << >> \in Seq(Proper)
      BY <1>1, SilentSpeech
<1> QED
      BY <1>1, <1>2, <1>3, PeerStep

(* The counterparty accepts a Logon and answers with its own.              *)
LEMMA LogonAccepted ==
    ASSUME NEW st, Linked(st, << >>), Inbox(st, << >>, << >>), Outbox(st, << >>),
           Sound(st), st.out # << >>, st.out[1].seq = 1,
           NEW m, m = Msg("Logon", 1, FALSE, 1)
    PROVE  /\ Linked(st, <<"Logon">>) /\ Inbox(st, <<m>>, <<"Logon">>)
           /\ Outbox(st, <<"Logon">>)
<1> DEFINE log == <<"Logon">>
<1>1. st.out \in Seq(Proper) /\ 1 \in 1..Len(st.out)
      BY DEF Sound, Carried
<1>2. /\ st.responder = TRUE /\ st.sentLogon = TRUE /\ st.queue = {}
      /\ \A i \in 1..Len(st.out) : st.out[i].kind = "Logon"
      BY <1>1 DEF Outbox
<1>3. Modest(st.out)
      BY <1>2 DEF Modest
<1>4. st.receivedLogon = FALSE
  <2>1. ~On(st, << >>)
        BY OnFacts
  <2> QED
        BY <2>1 DEF Linked, Off
<1>5. st.reading = "wait"
      BY <1>2 DEF Linked, Placed
<1>6. /\ PeerLog(<< >>) /\ PeerLog(log) /\ Grows(<< >>, log) /\ log # << >>
      /\ Len(log) = 1 /\ log[1] = "Logon"
  <2>1. log \in Seq(PeerSaid) /\ << >> \in Seq(PeerSaid) /\ Len(<< >>) = 0
        BY DEF PeerSaid
  <2>2. Len(log) = 1 /\ log[1] = "Logon"
        OBVIOUS
  <2> QED
        BY <2>1, <2>2 DEF PeerLog, Grows
<1>7. /\ m.kind = "Logon" /\ m.seq = 1 /\ m.arg = 1 /\ m.poss = FALSE
      BY DEF Msg
<1>8. Linked(st, log)
      BY <1>6, LinkedGrows
<1> HIDE DEF log
<1>9. Told(m, log)
  <2>1. Len(log) = 1 /\ log[1] = "Logon" /\ m.seq = 1
        BY <1>6, <1>7
  <2>2. 1 \in 1..1
        OBVIOUS
  <2>3. m.seq \in 1..Len(log) /\ log[m.seq] = "Logon"
        BY <2>1, <2>2, Zenon
  <2> QED
        BY <1>7, <2>3 DEF Told
<1>10. /\ \A i \in 1..Len(<<m>>) : i = 1 /\ <<m>>[i] = m
       /\ <<m>> # << >> /\ <<m>>[1] = m
  <2>1. Len(<<m>>) = 1 /\ <<m>>[1] = m /\ <<m>> # << >>
        OBVIOUS
  <2>2. \A i \in 1..1 : i = 1
        OBVIOUS
  <2> QED
        BY <2>1, <2>2
<1>11. Inbox(st, <<m>>, log)
       BY <1>2, <1>4, <1>5, <1>6, <1>7, <1>9, <1>10 DEF Inbox
<1>12. Outbox(st, log)
       BY <1>3, <1>6 DEF Outbox
<1> QED
       BY <1>8, <1>11, <1>12 DEF log

(* PeerLogon keeps the invariant.                                          *)
LEMMA PeerLogonKeeps ==
    ASSUME LinkInv, PeerLogon
    PROVE  LinkInv'
<1> DEFINE said == Say("Logon", 1)
<1>1. PICK m :
        /\ PeerTakes(m) /\ ~peer.on
        /\ IF m.kind = "Logon" /\ m.seq = 1 /\ m.arg = 1 /\ peer.log = << >>
           THEN /\ peer' = [peer EXCEPT !.on = TRUE, !.expected = 2,
                                        !.log = said.log]
                /\ inbox' = inbox \o said.msgs
           ELSE UNCHANGED <<inbox, peer>>
      BY DEF PeerLogon
<1>2. /\ s.out # << >> /\ s' = [s EXCEPT !.out = Tail(@)]
      /\ m = s.out[1] /\ 1 \in 1..Len(s.out)
      BY <1>1, TakenFacts
<1>3. /\ DOMAIN peer = {"on", "log", "expected", "accepted"}
      /\ inbox \in Seq(Proper) /\ Sound(s)
      /\ isLoggedOn(s) => s.responder = TRUE
      BY DEF LinkInv
<1>4. CASE UNCHANGED <<inbox, peer>>
      BY <1>2, <1>4, LostKeeps
<1>5. CASE /\ m.seq = 1 /\ peer.log = << >>
           /\ peer' = [peer EXCEPT !.on = TRUE, !.expected = 2, !.log = said.log]
           /\ inbox' = inbox \o said.msgs
  <2> DEFINE answer == Msg("Logon", 1, FALSE, 1)
  <2>1. IF 0 < MaxPeer THEN said.log = <<"Logon">> /\ said.msgs = <<answer>>
        ELSE said.log = << >> /\ said.msgs = << >>
    <3>1. Len(peer.log) = 0 /\ Append(peer.log, "Logon") = <<"Logon">>
          BY <1>5
    <3>2. Msg("Logon", Len(peer.log) + 1, FALSE, 1) = answer
          BY <3>1
    <3> HIDE DEF answer
    <3>3. CASE 0 < MaxPeer
          BY <3>1, <3>2, <3>3 DEF Say
    <3>4. CASE ~(0 < MaxPeer)
          BY <1>5, <3>1, <3>4 DEF Say
    <3> QED
          BY <3>3, <3>4
  <2>2. answer \in Proper
        BY DEF Msg, Proper, Message, Kinds
  <2> HIDE DEF said, answer
  <2>3. /\ peer'.log = said.log /\ peer'.expected = 2
        /\ DOMAIN peer' = {"on", "log", "expected", "accepted"}
        BY <1>3, <1>5
  <2>4. PeerLog(peer'.log)
    <3>1. PeerLog(<< >>)
          BY <1>5 DEF LinkInv
    <3>2. PeerLog(<<"Logon">>)
      <4>1. <<"Logon">> \in Seq(PeerSaid)
            BY DEF PeerSaid
      <4> QED
            BY <4>1 DEF PeerLog
    <3> QED
          BY <2>1, <2>3, <3>1, <3>2
  <2>5. peer'.log = << >> => ~(0 < MaxPeer)
    <3>1. <<"Logon">> # << >>
          OBVIOUS
    <3> QED
          BY <2>1, <2>3, <3>1
  <2>6. inbox' \in Seq(Proper)
    <3>1. said.msgs \in Seq(Proper)
      <4>1. <<answer>> \in Seq(Proper) /\ << >> \in Seq(Proper)
            BY <2>2
      <4> QED
            BY <2>1, <4>1
    <3> QED
          BY <1>3, <1>5, <3>1
  <2>7. /\ Frame(s, s', {"out"}) /\ Sound(s')
        /\ \A log : Linked(s, log) => Linked(s', log)
        /\ \A log : Outbox(s, log) => Outbox(s', log)
        BY <1>2, <1>3, TakenOut
  <2>8. /\ s'.aborted = s.aborted /\ s'.responder = s.responder
        /\ s'.receivedLogon = s.receivedLogon /\ s'.sentLogon = s.sentLogon
        /\ s'.queue = s.queue /\ s'.reading = s.reading
        BY <2>7 DEF Frame, Fields, Switches
  <2>9. ASSUME s'.aborted = FALSE
        PROVE  /\ Linked(s', peer'.log) /\ Inbox(s', inbox', peer'.log)
               /\ Outbox(s', peer'.log)
    <3>1. /\ Linked(s, << >>) /\ Inbox(s, inbox, << >>) /\ Outbox(s, << >>)
          BY <1>5, <2>8, <2>9 DEF LinkInv
    <3>2. inbox = << >>
          BY <3>1 DEF Inbox
    <3>3. CASE 0 < MaxPeer
      <4>1. peer'.log = <<"Logon">> /\ inbox' = <<answer>>
            BY <1>5, <2>1, <2>3, <3>2, <3>3
      <4>2. /\ Linked(s, <<"Logon">>) /\ Inbox(s, <<answer>>, <<"Logon">>)
            /\ Outbox(s, <<"Logon">>)
            BY <1>2, <1>3, <1>5, <3>1, <3>2, LogonAccepted DEF answer
      <4>3. Inbox(s', <<answer>>, <<"Logon">>)
            BY <2>8, <4>2 DEF Inbox
      <4> QED
            BY <2>7, <4>1, <4>2, <4>3
    <3>4. CASE ~(0 < MaxPeer)
      <4>1. peer'.log = << >> /\ inbox' = << >>
            BY <1>5, <2>1, <2>3, <3>2, <3>4
      <4>2. Inbox(s', << >>, << >>)
            BY <2>8, <3>1, <3>2 DEF Inbox
      <4> QED
            BY <2>7, <3>1, <4>1, <4>2
    <3> QED
          BY <3>3, <3>4
  <2>10. isLoggedOn(s') => s'.responder = TRUE
        BY <1>3, <2>8 DEF isLoggedOn
  <2>11. peer'.expected \in Nat \ {0}
        BY <2>3
  <2> QED
        BY <2>3, <2>4, <2>5, <2>6, <2>7, <2>9, <2>10, <2>11 DEF LinkInv
<1> QED
      BY <1>1, <1>4, <1>5

-----------------------------------------------------------------------------
(* What the session does, on the link.                                     *)

(* What is known of the session before one of its steps.                   *)
LEMMA Beginning ==
    ASSUME LinkInv, ~s.aborted
    PROVE  /\ Sound(s) /\ s.aborted = FALSE /\ PeerLog(peer.log)
           /\ Linked(s, peer.log) /\ Inbox(s, inbox, peer.log)
           /\ s.draining \in BOOLEAN /\ s.responder \in BOOLEAN
           /\ s.receivedLogon \in BOOLEAN /\ s.shuttingDown \in BOOLEAN
           /\ s.enabled \in BOOLEAN
<1>1. Sound(s) /\ PeerLog(peer.log)
      BY DEF LinkInv
<1>2. \A f \in Switches : s[f] \in BOOLEAN
      BY <1>1 DEF Sound, Typed
<1>3. s.aborted = FALSE /\ s.draining \in BOOLEAN /\ s.responder \in BOOLEAN
      /\ s.receivedLogon \in BOOLEAN /\ s.shuttingDown \in BOOLEAN
      /\ s.enabled \in BOOLEAN
      BY <1>2 DEF Switches
<1> QED
      BY <1>1, <1>3 DEF LinkInv

(* The socket thread's steps.                                              *)
LEMMA SocketSpares ==
    ASSUME LinkInv, s.out = << >>, SocketThread
    PROVE  s.aborted = FALSE /\ Spares(s, s', peer.log)
<1>1. ~s.aborted
      BY DEF SocketThread, nextQueued, Drained, StreamEnds, ReadTimeout
<1>2. /\ Sound(s) /\ s.aborted = FALSE /\ PeerLog(peer.log)
      /\ Linked(s, peer.log) /\ s.draining \in BOOLEAN
      /\ s.receivedLogon \in BOOLEAN
      BY <1>1, Beginning
<1>3. CASE nextQueued
  <2>1. s.draining = TRUE
        BY <1>2, <1>3 DEF nextQueued
  <2>2. PICK q \in Queued(s) :
          LET st1 == [s EXCEPT !.queue = @ \ {q}]
              st2 == nextMessage(st1, q)
              st3 == IF q.kind \in {"Logon", "ResendRequest"} THEN Advance(st1)
                     ELSE IF ~st2.aborted /\ isLoggedOn(st2) THEN nextNow(st2)
                     ELSE st2
          IN  s' = After(st3)
        BY <1>3 DEF nextQueued
  <2> DEFINE st1 == [s EXCEPT !.queue = @ \ {q}]
             st2 == nextMessage(st1, q)
             st3 == IF q.kind \in {"Logon", "ResendRequest"} THEN Advance(st1)
                    ELSE IF ~st2.aborted /\ isLoggedOn(st2) THEN nextNow(st2)
                    ELSE st2
  <2>3. st1 = [s EXCEPT !.queue = @ \ {q}]
        OBVIOUS
  <2>4. st2 = nextMessage(st1, q)
        OBVIOUS
  <2>5. st3 = IF q.kind \in {"Logon", "ResendRequest"} THEN Advance(st1)
              ELSE IF ~st2.aborted /\ isLoggedOn(st2) THEN nextNow(st2)
              ELSE st2
        OBVIOUS
  <2>6. s' = After(st3)
        BY <2>2
  <2> HIDE DEF st1, st2, st3
  <2>7. Spares(s, s', peer.log)
        BY <1>2, <2>1, <2>3, <2>4, <2>5, <2>6, QueuedSpares
  <2> QED
        BY <1>2, <2>7
<1>4. CASE Drained
  <2> DEFINE st1 == IF s.greeting /\ isLoggedOn(s) THEN onLogon(s) ELSE s
             st2 == IF isLoggedOn(s) THEN nextNow(st1) ELSE st1
  <2>1. s.draining = TRUE /\ Queued(s) = {}
        BY <1>2, <1>4 DEF Drained
  <2>2. s' = [After(st2) EXCEPT !.draining = FALSE, !.greeting = FALSE]
        BY <1>4 DEF Drained
  <2>3. CASE Off(s)
    <3>1. ~isLoggedOn(s)
          BY <2>3 DEF Off, isLoggedOn
    <3>2. s' = [After(s) EXCEPT !.draining = FALSE, !.greeting = FALSE]
          BY <2>2, <3>1
    <3> QED
          BY <1>2, <2>1, <2>3, <3>2, DrainedOff
  <2>4. CASE On(s, peer.log)
    <3>1. isLoggedOn(s)
          BY <2>4 DEF On, isLoggedOn
    <3>2. st1 \in {s, send(s)} /\ st2 = nextNow(st1)
          BY <3>1 DEF onLogon
    <3> HIDE DEF st1, st2
    <3> QED
          BY <1>2, <2>1, <2>2, <2>4, <3>2, DrainedOn
  <2> QED
        BY <1>2, <2>3, <2>4 DEF Linked
<1>5. CASE StreamEnds
  <2>1. s.reading = "stream" /\ s.draining = FALSE
        /\ s' = [s EXCEPT !.reading = "ended", !.last = << >>]
        BY <1>2, <1>5 DEF StreamEnds
  <2> QED
        BY <1>2, <2>1, StreamEndsSpares
<1>6. CASE ReadTimeout
  <2> DEFINE t == nextNow(s)
  <2>1. s.reading = "wait" /\ s.draining = FALSE
        /\ s' = [t EXCEPT !.last = << >>]
        BY <1>2, <1>6 DEF ReadTimeout
  <2>2. t = nextNow(s)
        OBVIOUS
  <2> HIDE DEF t
  <2> QED
        BY <1>2, <2>1, <2>2, TimeoutSpares
<1> QED
      BY <1>3, <1>4, <1>5, <1>6 DEF SocketThread

(* Orders, the main thread and time.                                       *)
LEMMA OthersSpare ==
    ASSUME LinkInv, s.out = << >>, SendOrder \/ ShutDown \/ Logout \/ Tick
    PROVE  s.aborted = FALSE /\ Spares(s, s', peer.log)
<1>1. ~s.aborted
      BY DEF SendOrder, ShutDown, Logout, Tick
<1>2. /\ Sound(s) /\ s.aborted = FALSE /\ PeerLog(peer.log)
      /\ Linked(s, peer.log) /\ s.draining \in BOOLEAN
      /\ s.shuttingDown \in BOOLEAN /\ s.enabled \in BOOLEAN
      BY <1>1, Beginning
<1>3. /\ DOMAIN s = Fields /\ s.received \in 0 .. 3 * HeartBtInt
      /\ s.sent \in 0 .. HeartBtInt /\ Obeys(s)
      BY <1>2 DEF Sound, Typed, Linked
<1>4. CASE SendOrder
  <2>1. s' = send(s)
        BY <1>4 DEF SendOrder
  <2> QED
        BY <1>2, <2>1, OrderSpares
<1>5. CASE ShutDown
  <2>1. s' = [s EXCEPT !.shuttingDown = TRUE]
        BY <1>5 DEF ShutDown
  <2>2. /\ Frame(s, s', {"shuttingDown", "enabled", "received", "sent"})
        /\ s'.shuttingDown = TRUE /\ s'.enabled = s.enabled
        /\ s'.received = s.received /\ s'.sent = s.sent
        BY <1>3, <2>1 DEF Frame, Fields, Switches
  <2>3. Obeys(s')
        BY <2>2 DEF Obeys
  <2>4. s'.shuttingDown \in BOOLEAN /\ s'.enabled \in {s.enabled, FALSE}
        BY <2>2
  <2> QED
        BY <1>2, <1>3, <2>2, <2>3, <2>4, MinorSpares
<1>6. CASE Logout
  <2>1. s' = [s EXCEPT !.enabled = FALSE] /\ s.shuttingDown = TRUE
        BY <1>2, <1>6 DEF Logout
  <2>2. /\ Frame(s, s', {"shuttingDown", "enabled", "received", "sent"})
        /\ s'.shuttingDown = TRUE /\ s'.enabled = FALSE
        /\ s'.received = s.received /\ s'.sent = s.sent
        BY <1>3, <2>1 DEF Frame, Fields, Switches
  <2>3. Obeys(s')
        BY <2>2 DEF Obeys
  <2>4. s'.shuttingDown \in BOOLEAN /\ s'.enabled \in {s.enabled, FALSE}
        BY <2>2
  <2> QED
        BY <1>2, <1>3, <2>2, <2>3, <2>4, MinorSpares
<1>7. CASE Tick
  <2>1. /\ s.reading = "wait" => s.last = << >>
        /\ s' = [s EXCEPT !.received = IF @ < 3 * HeartBtInt THEN @ + 1 ELSE @,
                          !.sent = IF @ < HeartBtInt THEN @ + 1 ELSE @]
        BY <1>7 DEF Tick
  <2>2. /\ Frame(s, s', {"shuttingDown", "enabled", "received", "sent"})
        /\ s'.shuttingDown = s.shuttingDown /\ s'.enabled = s.enabled
        /\ s'.received = IF s.received < 3 * HeartBtInt THEN s.received + 1
                         ELSE s.received
        /\ s'.sent = IF s.sent < HeartBtInt THEN s.sent + 1 ELSE s.sent
        BY <1>3, <2>1 DEF Frame, Fields, Switches
  <2>3. /\ s'.received \in 0 .. 3 * HeartBtInt /\ s'.sent \in 0 .. HeartBtInt
        BY <1>3, <2>2, TimesAssumption
  <2>4. Obeys(s')
        BY <1>3, <2>2 DEF Obeys
  <2>5. On(s, peer.log) => s.last = << >>
        BY <1>2, <2>1 DEF On, Linked, Placed
  <2>6. s'.shuttingDown \in BOOLEAN /\ s'.enabled \in {s.enabled, FALSE}
        BY <1>2, <2>2
  <2> QED
        BY <1>2, <2>2, <2>3, <2>4, <2>5, <2>6, MinorSpares
<1> QED
      BY <1>4, <1>5, <1>6, <1>7

(* A message is read.                                                      *)
LEMMA ReadConsumes ==
    ASSUME LinkInv, s.out = << >>, NEW m, Receive(m), MayHear(s, m, peer.log)
    PROVE  Consumes(s, s', peer.log)
<1> DEFINE p == nextMessage(s, m)
<1>1. s' = [After(p) EXCEPT
               !.last = <<m>>,
               !.draining = m.kind # "App" \/ p.target = s.target + 1]
      BY DEF Receive
<1>2. p = nextMessage(s, m)
      OBVIOUS
<1> HIDE DEF p
<1> QED
      BY <1>1, <1>2, ReceiveConsumes

(* A garbled message is read.                                              *)
LEMMA GarbledRead ==
    ASSUME LinkInv, s.out = << >>, NEW isLogon, ReceiveGarbled(isLogon)
    PROVE  s.aborted = FALSE /\ Consumes(s, s', peer.log)
<1> DEFINE p == IF isLogon THEN disconnect(s) ELSE s
<1>1. /\ ~s.aborted /\ ~s.draining
      /\ s' = IF p.aborted \/ isLoggedOn(p) THEN [p EXCEPT !.last = << >>]
              ELSE [p EXCEPT !.last = << >>, !.responder = FALSE, !.reading = "ended"]
      BY DEF ReceiveGarbled, Readable
<1>2. s.aborted = FALSE /\ s.draining = FALSE /\ Linked(s, peer.log)
      BY <1>1, Beginning
<1>3. p \in {s, disconnect(s)}
      OBVIOUS
<1> HIDE DEF p
<1>4. Consumes(s, s', peer.log)
      BY <1>1, <1>2, <1>3, GarbledConsumes
<1> QED
      BY <1>2, <1>4

(* The next message of the inbox may be handed over.                       *)
LEMMA HeadMayBeHeard ==
    ASSUME LinkInv, s.out = << >>, Readable, inbox # << >>
    PROVE  MayHear(s, Head(inbox), peer.log) /\ s.aborted = FALSE
<1>1. ~s.aborted /\ ~s.draining
      /\ (s.reading = "stream" \/ (s.reading = "wait" /\ s.responder))
      BY DEF Readable
<1>2. /\ Sound(s) /\ s.aborted = FALSE /\ PeerLog(peer.log)
      /\ Linked(s, peer.log) /\ Inbox(s, inbox, peer.log)
      /\ s.draining = FALSE /\ s.responder \in BOOLEAN /\ s.receivedLogon \in BOOLEAN
      BY <1>1, Beginning
<1> DEFINE m == Head(inbox)
<1>3. m \in Proper /\ m = inbox[1] /\ 1 \in 1..Len(inbox)
  <2>1. inbox \in Seq(Proper)
        BY DEF LinkInv
  <2> QED
        BY <2>1
<1> HIDE DEF m
<1>4. Told(m, peer.log) /\ peer.log # << >>
      BY <1>2, <1>3 DEF Inbox
<1>5. m.kind = "Logon" => s.reading = "wait" /\ s.receivedLogon = FALSE
      BY <1>2, <1>3 DEF Inbox
<1>6. s.receivedLogon = FALSE /\ s.responder = TRUE =>
          m.kind = "Logon" /\ s.sentLogon = TRUE /\ s.queue = {}
      BY <1>2, <1>3, <1>4 DEF Inbox
<1>7. m.kind = "Logon" =>
          IF s.responder THEN s.delivered = << >> /\ s.queue = {}
          ELSE s.enabled = FALSE
  <2> SUFFICES ASSUME m.kind = "Logon"
               PROVE  s.responder = TRUE /\ s.delivered = << >> /\ s.queue = {}
        OBVIOUS
  <2>1. s.responder = TRUE /\ s.receivedLogon = FALSE
        BY <1>1, <1>2, <1>5
  <2>2. s.delivered = << >>
    <3>1. ~On(s, peer.log)
          BY <2>1 DEF On
    <3> QED
          BY <1>2, <3>1 DEF Linked, Off, Quiet
  <2> QED
        BY <1>6, <2>1, <2>2
<1>8. s.reading = "stream" \/ (s.reading = "wait" /\ s.responder = TRUE)
      BY <1>1, <1>2
<1>9. MayHear(s, m, peer.log)
      BY <1>2, <1>3, <1>4, <1>6, <1>7, <1>8 DEF MayHear
<1> QED
      BY <1>2, <1>9 DEF m

(* The message handled last may be handed over once more.                  *)
LEMMA LastMayBeHeard ==
    ASSUME LinkInv, s.out = << >>, Readable, NEW m \in ToSet(s.last)
    PROVE  MayHear(s, m, peer.log) /\ s.aborted = FALSE
<1>1. ~s.aborted /\ ~s.draining
      /\ (s.reading = "stream" \/ (s.reading = "wait" /\ s.responder))
      BY DEF Readable
<1>2. /\ Sound(s) /\ s.aborted = FALSE /\ PeerLog(peer.log)
      /\ Linked(s, peer.log)
      /\ s.draining = FALSE /\ s.responder \in BOOLEAN /\ s.receivedLogon \in BOOLEAN
      BY <1>1, Beginning
<1>3. m \in Proper /\ s.last # << >> /\ m = s.last[1] /\ 1 \in 1..Len(s.last)
  <2>1. s.last \in Seq(Proper) /\ Len(s.last) <= 1
        BY <1>2 DEF Sound, Carried
  <2>2. \E i \in 1..Len(s.last) : s.last[i] = m
        BY <2>1 DEF ToSet
  <2>3. PICK i \in 1..Len(s.last) : s.last[i] = m
        BY <2>2
  <2>4. i = 1 /\ Len(s.last) = 1
    <3>1. Len(s.last) \in Nat
          BY <2>1
    <3>2. \A n \in Nat : \A k \in 1..n : n <= 1 => k = 1 /\ n = 1
          OBVIOUS
    <3> QED
          BY <2>1, <2>3, <3>1, <3>2, Zenon
  <2> QED
        BY <2>1, <2>3, <2>4
<1>4. Told(m, peer.log)
      BY <1>2, <1>3 DEF Linked
<1>5. s.reading = "stream" \/ (s.reading = "wait" /\ s.responder = TRUE)
      BY <1>1, <1>2
<1>6. s.responder = TRUE => s.receivedLogon = TRUE
      BY <1>2, <1>3 DEF Linked, Placed
<1>7. m.kind = "Logon" =>
          IF s.responder THEN s.delivered = << >> /\ s.queue = {}
          ELSE s.enabled = FALSE
  <2> SUFFICES ASSUME m.kind = "Logon"
               PROVE  IF s.responder THEN s.delivered = << >> /\ s.queue = {}
                      ELSE s.enabled = FALSE
        OBVIOUS
  <2>1. IF s.receivedLogon THEN s.delivered = << >> /\ s.queue = {}
        ELSE s.enabled = FALSE
        BY <1>2, <1>3 DEF Linked, Fresh
  <2>2. s.responder = FALSE => s.receivedLogon = FALSE
        BY <1>2 DEF Linked, On, Off
  <2> QED
        BY <1>2, <1>6, <2>1, <2>2
<1>8. MayHear(s, m, peer.log)
      BY <1>2, <1>3, <1>4, <1>5, <1>6, <1>7 DEF MayHear
<1> QED
      BY <1>2, <1>8

(* The stream fails.                                                       *)
LEMMA FailureConsumes ==
    ASSUME LinkInv, s.out = << >>, ReadFails
    PROVE  s.aborted = FALSE /\ s'.responder = FALSE /\ Consumes(s, s', peer.log)
<1> DEFINE p == disconnect(s)
<1>1. /\ ~s.aborted /\ ~s.draining
      /\ s' = IF p.aborted THEN [p EXCEPT !.last = << >>]
              ELSE [p EXCEPT !.last = << >>, !.reading = "ended"]
      BY DEF ReadFails, Readable
<1>2. s.aborted = FALSE /\ s.draining = FALSE /\ Linked(s, peer.log) /\ Sound(s)
      BY <1>1, Beginning
<1>3. p \in {s, disconnect(s)}
      OBVIOUS
<1>4. DOMAIN p = Fields /\ p.responder = FALSE /\ ~isLoggedOn(p)
      BY <1>2, LeaveSound DEF Disconnects, Frame, isLoggedOn
<1> HIDE DEF p
<1>5. [p EXCEPT !.last = << >>, !.reading = "ended"] =
         [p EXCEPT !.last = << >>, !.responder = FALSE, !.reading = "ended"]
      BY <1>4
<1>6. s' = IF p.aborted \/ isLoggedOn(p) THEN [p EXCEPT !.last = << >>]
           ELSE [p EXCEPT !.last = << >>, !.responder = FALSE, !.reading = "ended"]
      BY <1>1, <1>4, <1>5
<1>7. Consumes(s, s', peer.log)
      BY <1>2, <1>3, <1>6, GarbledConsumes
<1>8. s'.responder = FALSE
      BY <1>1, <1>4 DEF Fields, Switches
<1> QED
      BY <1>2, <1>7, <1>8

(* The failure of the stream keeps the invariant.                          *)
LEMMA FailureKeeps ==
    ASSUME LinkInv, s.out = << >>, StreamFails
    PROVE  LinkInv'
<1>1. ReadFails /\ inbox' = << >> /\ peer' = peer
      BY DEF StreamFails
<1>2. s'.responder = FALSE /\ Consumes(s, s', peer.log)
      BY <1>1, FailureConsumes
<1>3. Inbox(s', inbox', peer.log)
      BY <1>1, <1>2 DEF Inbox
<1>4. inbox' \in Seq(Proper)
      BY <1>1
<1> QED
      BY <1>1, <1>2, <1>3, <1>4 DEF LinkInv, Consumes, Keeps

(* What is left of the inbox, without its first message at least.          *)
Remains(box, rest) ==
    /\ box # << >> /\ rest \in Seq(Proper)
    /\ \A i \in 1..Len(rest) : \E j \in 2..Len(box) : rest[i] = box[j]

(* Every step that reads from the inbox.                                   *)
LEMMA ReadingConsumes ==
    ASSUME LinkInv, s.out = << >>, LinkReceive \/ GarbledIn \/ BadLengthIn
    PROVE  /\ s.aborted = FALSE /\ Consumes(s, s', peer.log)
           /\ peer' = peer /\ Remains(inbox, inbox')
<1>1. inbox \in Seq(Proper)
      BY DEF LinkInv
<1>2. ASSUME inbox # << >> PROVE Remains(inbox, Tail(inbox))
  <2>1. /\ Tail(inbox) \in Seq(Proper) /\ Len(Tail(inbox)) = Len(inbox) - 1
        /\ \A i \in 1..Len(Tail(inbox)) : i + 1 \in 2..Len(inbox)
                                          /\ Tail(inbox)[i] = inbox[i + 1]
        BY <1>1, <1>2
  <2> QED
        BY <1>2, <2>1 DEF Remains
<1>3. CASE LinkReceive
  <2>1. inbox # << >> /\ Receive(Head(inbox)) /\ inbox' = Tail(inbox) /\ peer' = peer
        BY <1>3 DEF LinkReceive
  <2>2. Readable
        BY <2>1 DEF Receive
  <2>3. MayHear(s, Head(inbox), peer.log) /\ s.aborted = FALSE
        BY <2>1, <2>2, HeadMayBeHeard
  <2>4. Consumes(s, s', peer.log)
        BY <2>1, <2>3, ReadConsumes
  <2> QED
        BY <1>2, <2>1, <2>3, <2>4
<1>4. CASE GarbledIn
  <2>1. /\ inbox # << >> /\ ReceiveGarbled(Head(inbox).kind = "Logon")
        /\ inbox' = Tail(inbox) /\ peer' = peer
        BY <1>4 DEF GarbledIn
  <2>2. s.aborted = FALSE /\ Consumes(s, s', peer.log)
        BY <2>1, GarbledRead
  <2> QED
        BY <1>2, <2>1, <2>2
<1>5. CASE BadLengthIn
  <2>1. /\ ReceiveBadLength /\ peer' = peer
        /\ \E n \in 1 .. Len(inbox) : inbox' = SubSeq(inbox, n + 1, Len(inbox))
        BY <1>5 DEF BadLengthIn
  <2>2. PICK n \in 1 .. Len(inbox) : inbox' = SubSeq(inbox, n + 1, Len(inbox))
        BY <2>1
  <2>3. Remains(inbox, inbox')
    <3>1. n \in Nat \ {0} /\ Len(inbox) \in Nat /\ n <= Len(inbox)
          BY <1>1, <2>2
    <3>2. /\ inbox' \in Seq(Proper) /\ Len(inbox') = Len(inbox) - n
          /\ \A i \in 1..Len(inbox) - n : inbox'[i] = inbox[n + i]
          BY <1>1, <2>2, <3>1
    <3>3. \A i \in 1..Len(inbox) - n : n + i \in 2..Len(inbox)
          BY <3>1
    <3>4. \A i \in 1..Len(inbox') : \E j \in 2..Len(inbox) : inbox'[i] = inbox[j]
          BY <3>2, <3>3
    <3>5. inbox # << >>
          BY <3>1
    <3> QED
          BY <3>2, <3>4, <3>5 DEF Remains
  <2>4. s.aborted = FALSE /\ Consumes(s, s', peer.log)
    <3>1. ASSUME NEW m \in ToSet(s.last), Receive(m)
          PROVE  s.aborted = FALSE /\ Consumes(s, s', peer.log)
      <4>1. Readable
            BY <3>1 DEF Receive
      <4>2. MayHear(s, m, peer.log) /\ s.aborted = FALSE
            BY <3>1, <4>1, LastMayBeHeard
      <4> QED
            BY <3>1, <4>2, ReadConsumes
    <3>2. ASSUME ReceiveGarbled(FALSE)
          PROVE  s.aborted = FALSE /\ Consumes(s, s', peer.log)
          BY <3>2, GarbledRead
    <3> QED
          BY <2>1, <3>1, <3>2 DEF ReceiveBadLength
  <2> QED
        BY <2>1, <2>3, <2>4
<1> QED
      BY <1>3, <1>4, <1>5

(* A step that reads from the inbox keeps the invariant.                   *)
LEMMA ConsumingKeeps ==
    ASSUME LinkInv, s.aborted = FALSE, Consumes(s, s', peer.log), peer' = peer,
           Remains(inbox, inbox')
    PROVE  LinkInv'
<1>1. /\ PeerLog(peer.log) /\ peer.expected \in Nat \ {0}
      /\ DOMAIN peer = {"on", "log", "expected", "accepted"}
      /\ peer.on /\ peer.log = << >> => ~(0 < MaxPeer)
      /\ Inbox(s, inbox, peer.log)
      BY DEF LinkInv
<1>2. Sound(s') /\ (isLoggedOn(s') => s'.responder = TRUE)
      BY DEF Consumes, Keeps
<1>3. inbox' \in Seq(Proper) /\ inbox # << >>
      BY DEF Remains
<1>4. ASSUME s'.aborted = FALSE PROVE Inbox(s', inbox', peer.log)
  <2>1. \A i \in 1..Len(inbox') :
           Told(inbox'[i], peer.log) /\ inbox'[i].kind # "Logon"
    <3> SUFFICES ASSUME NEW i \in 1..Len(inbox')
                 PROVE  Told(inbox'[i], peer.log) /\ inbox'[i].kind # "Logon"
          OBVIOUS
    <3>1. PICK j \in 2..Len(inbox) : inbox'[i] = inbox[j]
          BY DEF Remains
    <3>2. j \in 1..Len(inbox) /\ j # 1
          BY <3>1
    <3> QED
          BY <1>1, <3>1, <3>2 DEF Inbox
  <2>2. peer.log # << >>
        BY <1>1, <1>3 DEF Inbox
  <2>3. ~(s'.receivedLogon = FALSE /\ s'.responder = TRUE)
        BY <1>4 DEF Consumes
  <2> QED
        BY <2>1, <2>2, <2>3 DEF Inbox
<1> QED
      BY <1>1, <1>2, <1>3, <1>4 DEF LinkInv, Consumes, Keeps

(* And so does a step that does not.                                       *)
LEMMA SparingKeeps ==
    ASSUME LinkInv, s.aborted = FALSE, Spares(s, s', peer.log),
           peer' = peer, inbox' = inbox
    PROVE  LinkInv'
<1>1. /\ PeerLog(peer.log) /\ peer.expected \in Nat \ {0}
      /\ DOMAIN peer = {"on", "log", "expected", "accepted"}
      /\ peer.on /\ peer.log = << >> => ~(0 < MaxPeer)
      /\ Inbox(s, inbox, peer.log) /\ inbox \in Seq(Proper)
      BY DEF LinkInv
<1>2. Sound(s') /\ (isLoggedOn(s') => s'.responder = TRUE)
      BY DEF Spares, Keeps
<1>3. ASSUME s'.aborted = FALSE PROVE Inbox(s', inbox, peer.log)
  <2>1. /\ s'.receivedLogon = FALSE /\ s'.responder = TRUE =>
              /\ s.receivedLogon = FALSE /\ s.responder = TRUE
              /\ s'.queue = s.queue
              /\ s.sentLogon = TRUE => s'.sentLogon = TRUE
        /\ s.receivedLogon = FALSE /\ s.reading = "wait" =>
              s'.receivedLogon = FALSE /\ s'.reading = "wait"
        BY <1>3 DEF Spares
  <2> QED
        BY <1>1, <2>1 DEF Inbox
<1> QED
      BY <1>1, <1>2, <1>3 DEF LinkInv, Spares, Keeps

(* A reconnect.                                                            *)
LEMMA ReconnectFacts ==
    ASSUME LinkInv, LinkReconnect
    PROVE  /\ Opens(s') /\ s.responder = FALSE
           /\ inbox' = << >> /\ peer' = NewPeer
<1> DEFINE p == [s EXCEPT !.responder = TRUE, !.reading = "wait", !.out = << >>]
<1>1. /\ ~s.aborted /\ s.reading = "ended" /\ s' = nextNow(p)
      /\ inbox' = << >> /\ peer' = NewPeer
      BY DEF LinkReconnect, Reconnect
<1>2. Linked(s, peer.log)
      BY <1>1, Beginning
<1>3. p = [s EXCEPT !.responder = TRUE, !.reading = "wait", !.out = << >>]
      OBVIOUS
<1> HIDE DEF p
<1>4. Opens(s') /\ s.responder = FALSE
      BY <1>1, <1>2, <1>3, ReconnectOpens
<1> QED
      BY <1>1, <1>4

(* It keeps the invariant.                                                 *)
LEMMA ReconnectKeeps ==
    ASSUME LinkInv, LinkReconnect
    PROVE  LinkInv'
<1>1. Opens(s') /\ inbox' = << >> /\ peer' = NewPeer
      BY ReconnectFacts
<1>2. /\ Sound(s') /\ s'.receivedLogon = FALSE
      /\ s'.aborted = FALSE => Linked(s', << >>) /\ Outbox(s', << >>)
      BY <1>1 DEF Opens
<1>3. /\ peer'.on = FALSE /\ peer'.log = << >> /\ peer'.expected = 1
      /\ DOMAIN peer' = {"on", "log", "expected", "accepted"}
      BY <1>1 DEF NewPeer
<1>4. /\ inbox' \in Seq(Proper) /\ Len(inbox') = 0
      BY <1>1
<1>5. PeerLog(<< >>)
  <2>1. << >> \in Seq(PeerSaid) /\ Len(<< >>) = 0
        OBVIOUS
  <2> QED
        BY <2>1 DEF PeerLog
<1>6. Inbox(s', inbox', << >>)
      BY <1>1, <1>4 DEF Inbox
<1>7. peer'.expected \in Nat \ {0}
      BY <1>3
<1> QED
      BY <1>2, <1>3, <1>4, <1>5, <1>6, <1>7 DEF LinkInv, isLoggedOn

(* The invariant holds at the beginning.                                   *)
LEMMA LinkInvInit ==
    ASSUME LinkInit
    PROVE  LinkInv
<1>1. /\ inbox = << >> /\ peer = NewPeer /\ Init
      BY DEF LinkInit
<1>2. /\ DOMAIN s = Fields
      /\ s.market \in BOOLEAN
      /\ s.enabled = TRUE /\ s.shuttingDown = FALSE /\ s.aborted = FALSE
      /\ s.responder = TRUE /\ s.reading = "wait" /\ s.last = << >>
      /\ s.draining = FALSE /\ s.greeting = FALSE
      /\ s.sentLogon = FALSE /\ s.receivedLogon = FALSE /\ s.sentLogout = FALSE
      /\ s.sentReset = FALSE /\ s.receivedReset = FALSE
      /\ s.sender = 1 /\ s.target = 1 /\ s.apps = {}
      /\ s.queue = {} /\ s.range = <<0, 0>> /\ s.testRequest = 0
      /\ s.received = 0 /\ s.sent = 0
      /\ s.out = << >> /\ s.delivered = << >> /\ s.transmitted = << >>
      BY <1>1 DEF Init, Fields, Switches
<1>3. \A f \in Switches : s[f] \in BOOLEAN
      BY <1>2 DEF Switches
<1>4. Typed(s)
  <2>1. 0 \in 0 .. 3 * HeartBtInt /\ 0 \in 0 .. HeartBtInt
        BY TimesAssumption
  <2> QED
        BY <1>2, <1>3, <2>1 DEF Typed
<1>5. << >> \in Seq(Proper) /\ Len(<< >>) = 0 /\ << >> \in Seq(PeerSaid)
      OBVIOUS
<1>6. Carried(s) /\ Unique(s)
      BY <1>2, <1>5 DEF Carried, Unique
<1>7. Sound(s)
      BY <1>2, <1>4, <1>6 DEF Sound
<1>8. Off(s)
      BY <1>2, <1>7 DEF Off, Quiet
<1>9. /\ peer.on = FALSE /\ peer.log = << >> /\ peer.expected = 1
      /\ DOMAIN peer = {"on", "log", "expected", "accepted"}
      BY <1>1 DEF NewPeer
<1>10. Obeys(s) /\ Placed(s) /\ Fresh(s) /\ Queued(s) = {}
       BY <1>2 DEF Obeys, Placed, Fresh, Queued
<1>11. Linked(s, << >>)
       BY <1>2, <1>5, <1>8, <1>10 DEF Linked
<1>12. Outbox(s, << >>)
       BY <1>2, NothingOut
<1>13. Inbox(s, << >>, << >>) /\ PeerLog(<< >>)
       BY <1>5 DEF Inbox, PeerLog
<1>14. inbox \in Seq(Proper)
       BY <1>1, <1>5
<1>15. peer.expected \in Nat \ {0}
       BY <1>9
<1> QED
       BY <1>1, <1>2, <1>7, <1>9, <1>11, <1>12, <1>13, <1>14, <1>15 DEF LinkInv, isLoggedOn

(* Every step keeps it.                                                    *)
LEMMA LinkInvStep ==
    ASSUME LinkInv, [LinkNext]_vars
    PROVE  LinkInv'
<1>1. CASE UNCHANGED vars
  <2>1. s' = s /\ inbox' = inbox /\ peer' = peer
        BY <1>1 DEF vars, linkVars
  <2> QED
        BY <2>1 DEF LinkInv, isLoggedOn
<1>2. CASE PeerTakesNext
      BY <1>2, PeerLogonKeeps, PeerResendsKeeps, PeerTooHighKeeps, PeerTooLowKeeps,
         PeerInTurnKeeps DEF PeerTakesNext
<1>3. CASE GarbledOut
      BY <1>3, LostKeeps DEF GarbledOut
<1>4. CASE PeerSends
      BY <1>4, PeerSendsKeeps
<1>5. CASE s.out = << >> /\ (LinkReceive \/ GarbledIn \/ BadLengthIn)
  <2>1. /\ s.aborted = FALSE /\ Consumes(s, s', peer.log)
        /\ peer' = peer /\ Remains(inbox, inbox')
        BY <1>5, ReadingConsumes
  <2> QED
        BY <2>1, ConsumingKeeps
<1>6. CASE s.out = << >> /\ LinkOrder
  <2>1. SendOrder /\ inbox' = inbox /\ peer' = peer
        BY <1>6 DEF LinkOrder
  <2>2. s.aborted = FALSE /\ Spares(s, s', peer.log)
        BY <1>6, <2>1, OthersSpare
  <2> QED
        BY <2>1, <2>2, SparingKeeps
<1>7. CASE LinkReconnect
      BY <1>7, ReconnectKeeps
<1>8. CASE s.out = << >> /\ (SocketThread \/ ShutDown \/ Logout \/ Tick)
           /\ UNCHANGED linkVars
  <2>1. inbox' = inbox /\ peer' = peer
        BY <1>8 DEF linkVars
  <2>2. s.aborted = FALSE /\ Spares(s, s', peer.log)
        BY <1>8, SocketSpares, OthersSpare
  <2> QED
        BY <2>1, <2>2, SparingKeeps
<1>9. CASE s.out = << >> /\ StreamFails
      BY <1>9, FailureKeeps
<1> QED
      BY <1>1, <1>2, <1>3, <1>4, <1>5, <1>6, <1>7, <1>8, <1>9 DEF LinkNext

-----------------------------------------------------------------------------
(* The theorems.                                                           *)

(* The session and its counterparty keep the inductive invariant, whatever *)
(* is garbled, reordered by resends or timed out, and however many         *)
(* messages, orders and connections there are.                             *)
THEOREM LinkInvariant == LinkSpec => []LinkInv
<1>1. LinkInit => LinkInv
      BY LinkInvInit
<1>2. LinkInv /\ [LinkNext]_vars => LinkInv'
      BY LinkInvStep
<1> QED
      BY <1>1, <1>2, PTL DEF LinkSpec

(* The members of Session and SessionState keep their types, and a session *)
(* is logged on only while m_pResponder is set.                            *)
THEOREM TypeCorrect == LinkSpec => []TypeOK
<1>1. LinkInv => TypeOK
  <2> SUFFICES ASSUME LinkInv PROVE TypeOK
        OBVIOUS
  <2>1. /\ Sound(s) /\ inbox \in Seq(Proper)
        /\ isLoggedOn(s) => s.responder = TRUE
        BY DEF LinkInv
  <2>2. s.out \in Seq(Proper) /\ s.queue \subseteq Proper
        BY <2>1 DEF Sound, Carried
  <2>3. Proper \subseteq Message
        BY DEF Proper
  <2>4. ToSet(s.out) \subseteq Proper /\ ToSet(inbox) \subseteq Proper
        BY <2>1, <2>2 DEF ToSet
  <2>5. s.queue \subseteq Message /\ ToSet(s.out) \cup ToSet(inbox) \subseteq Message
        BY <2>2, <2>3, <2>4
  <2>6. isLoggedOn(s) => s.responder
        BY <2>1
  <2> QED
        BY <2>1, <2>5, <2>6 DEF TypeOK, Sound, Typed
<1> QED
      BY <1>1, LinkInvariant, PTL

(* No order is written to the socket twice under its number: resend        *)
(* requests are answered with gap fills alone.                             *)
THEOREM OrdersOnce == LinkSpec => []OrdersAtMostOnce
<1>1. LinkInv => OrdersAtMostOnce
  <2> SUFFICES ASSUME LinkInv PROVE OrdersAtMostOnce
        OBVIOUS
  <2>1. Unique(s)
        BY DEF LinkInv, Sound
  <2>2. DOMAIN s.transmitted = 1..Len(s.transmitted)
        BY <2>1 DEF Unique
  <2> QED
        BY <2>1, <2>2 DEF Unique, OrdersAtMostOnce
<1> QED
      BY <1>1, LinkInvariant, PTL

(* A queued message whose turn has come is taken from the queue before the *)
(* socket is read again.                                                   *)
THEOREM NothingWaits == LinkSpec => []NothingInTurnWaits
<1>1. LinkInv => NothingInTurnWaits
  <2> SUFFICES ASSUME LinkInv, ~s.draining, ~s.aborted PROVE Queued(s) = {}
        BY DEF NothingInTurnWaits
  <2>1. Linked(s, peer.log) /\ s.draining = FALSE
        BY Beginning
  <2> QED
        BY <2>1 DEF Linked
<1> QED
      BY <1>1, LinkInvariant, PTL

(* The inductive invariant says what has been delivered.                   *)
LEMMA InvDelivers ==
    ASSUME LinkInv
    PROVE  DeliveredExactly
<1> SUFFICES ASSUME s.responder, ~s.aborted
             PROVE  /\ s.target <= Len(peer.log) + 1
                    /\ s.delivered = AppNumbers(s.target - 1)
      BY DEF DeliveredExactly
<1>1. Linked(s, peer.log) /\ PeerLog(peer.log)
      BY Beginning
<1>2. AppNumbers(s.target - 1) = AppsOf(peer.log, s.target - 1)
      BY DEF AppNumbers, AppsOf
<1>3. CASE On(s, peer.log)
      BY <1>2, <1>3 DEF On, Follows
<1>4. CASE Off(s)
  <2>1. s.target = 1 /\ s.delivered = << >>
        BY <1>4 DEF Off, Quiet
  <2>2. Len(peer.log) \in Nat
        BY <1>1 DEF PeerLog
  <2>3. s.target - 1 = 0 /\ s.target <= Len(peer.log) + 1
        BY <2>1, <2>2
  <2>4. AppsOf(peer.log, 0) = << >>
        BY AppsOfStep
  <2> QED
        BY <1>2, <2>1, <2>3, <2>4
<1> QED
      BY <1>1, <1>3, <1>4 DEF Linked

(* On an open connection the application has been given exactly the        *)
(* application messages below the expected number, in order.               *)
THEOREM DeliversExactly == LinkSpec => []DeliveredExactly
      BY InvDelivers, LinkInvariant, PTL

-----------------------------------------------------------------------------
(* The session implements in-order delivery.                               *)

(* Sequence b goes on where a ends.                                        *)
Begins(a, b) == Len(a) <= Len(b) /\ \A i \in 1..Len(a) : b[i] = a[i]

(* A longer part of a log has the application messages of a shorter one    *)
(* first.                                                                  *)
LEMMA AppsOfBegins ==
    ASSUME NEW log, NEW k \in Nat, NEW n \in Nat, k <= n
    PROVE  Begins(AppsOf(log, k), AppsOf(log, n))
<1> DEFINE A(i) == AppsOf(log, i)
           T == {i \in Nat : k <= i /\ ~Begins(A(k), A(i))}
<1>1. \A i \in Nat : /\ A(i) \in Seq(Nat)
                     /\ A(i + 1) \in {A(i), Append(A(i), i + 1)}
      BY AppsOfStep
<1> HIDE DEF A
<1>2. \A i \in Nat : Begins(A(k), A(i)) => Begins(A(k), A(i + 1))
  <2> SUFFICES ASSUME NEW i \in Nat, Begins(A(k), A(i)) PROVE Begins(A(k), A(i + 1))
        OBVIOUS
  <2>1. A(k) \in Seq(Nat) /\ A(i) \in Seq(Nat)
        BY <1>1
  <2>2. CASE A(i + 1) = A(i)
        BY <2>2
  <2>3. CASE A(i + 1) = Append(A(i), i + 1)
    <3>0. \A x \in Seq(Nat), e \in Nat :
             /\ Len(Append(x, e)) = Len(x) + 1
             /\ \A j \in 1..Len(x) : Append(x, e)[j] = x[j]
          OBVIOUS
    <3>a. i + 1 \in Nat
          OBVIOUS
    <3> DEFINE x == A(i)
               y == Append(x, i + 1)
    <3>b. x \in Seq(Nat)
          BY <2>1
    <3>c. A(i + 1) = y /\ A(i) = x
          BY <2>3
    <3> HIDE DEF x
    <3>d. Len(y) = Len(x) + 1 /\ \A j \in 1..Len(x) : y[j] = x[j]
          BY <3>0, <3>a, <3>b
    <3> HIDE DEF y
    <3>1. /\ Len(A(i + 1)) = Len(A(i)) + 1
          /\ \A j \in 1..Len(A(i)) : A(i + 1)[j] = A(i)[j]
          BY <3>c, <3>d, Zenon
    <3>2. Len(A(k)) \in Nat /\ Len(A(i)) \in Nat
          BY <2>1
    <3>3. Len(A(k)) <= Len(A(i)) /\ \A j \in 1..Len(A(k)) : A(i)[j] = A(k)[j]
          BY DEF Begins
    <3>4. Len(A(k)) <= Len(A(i + 1)) /\ \A j \in 1..Len(A(k)) : j \in 1..Len(A(i))
          BY <3>1, <3>2, <3>3
    <3> QED
          BY <3>1, <3>3, <3>4 DEF Begins
  <2> QED
        BY <1>1, <2>2, <2>3
<1>3. Begins(A(k), A(k))
  <2>1. Len(A(k)) \in Nat
        BY <1>1
  <2> QED
        BY <2>1 DEF Begins
<1>4. T = {}
  <2> SUFFICES ASSUME T # {} PROVE FALSE
        OBVIOUS
  <2>1. PICK t \in T : \A u \in T : t <= u
        BY LeastElement
  <2>2. t \in Nat /\ k <= t /\ ~Begins(A(k), A(t))
        OBVIOUS
  <2>3. t # k
        BY <1>3, <2>2
  <2>4. t - 1 \in Nat /\ k <= t - 1 /\ t - 1 < t /\ (t - 1) + 1 = t
        BY <2>2, <2>3
  <2>5. t - 1 \notin T
        BY <2>1, <2>4
  <2>6. Begins(A(k), A(t - 1))
        BY <2>4, <2>5
  <2>7. Begins(A(k), A(t))
        BY <1>2, <2>4, <2>6
  <2> QED
        BY <2>2, <2>7
<1>5. Begins(A(k), A(n))
      BY <1>4
<1> QED
      BY <1>5 DEF A

(* The application message whose turn has come is the next one posted.     *)
LEMMA NextPosted ==
    ASSUME NEW log, Len(log) \in Nat, NEW n \in 1..Len(log), log[n] = "App"
    PROVE  LET got == AppsOf(log, n - 1)
               posted == AppsOf(log, Len(log))
           IN  Len(got) < Len(posted) /\ posted[Len(got) + 1] = n
<1> DEFINE got == AppsOf(log, n - 1)
           posted == AppsOf(log, Len(log))
           more == AppsOf(log, n)
<1>1. n \in Nat /\ n - 1 \in Nat /\ (n - 1) + 1 = n /\ n <= Len(log)
      OBVIOUS
<1>2. got \in Seq(Nat) /\ more = Append(got, n)
      BY <1>1, AppsOfStep
<1>3. posted \in Seq(Nat)
      BY AppsOfStep
<1>4. Begins(more, posted)
      BY <1>1, AppsOfBegins
<1> HIDE DEF got, posted, more
<1>5. /\ Len(more) = Len(got) + 1 /\ more[Len(got) + 1] = n
      /\ Len(got) \in Nat /\ Len(posted) \in Nat
      BY <1>1, <1>2, <1>3
<1>6. Len(got) + 1 <= Len(posted) /\ Len(got) + 1 \in 1..Len(more)
      BY <1>4, <1>5 DEF Begins
<1>7. posted[Len(got) + 1] = n
      BY <1>4, <1>5, <1>6 DEF Begins
<1>8. Len(got) < Len(posted)
      BY <1>5, <1>6
<1> QED
      BY <1>7, <1>8 DEF got, posted

(* A log that goes on by one message posts it, if it is an application     *)
(* message.                                                                *)
LEMMA PostedGrows ==
    ASSUME NEW log, PeerLog(log), NEW kind
    PROVE  LET old == AppsOf(log, Len(log))
               new == AppsOf(Append(log, kind), Len(Append(log, kind)))
           IN  \/ new = old
               \/ Len(new) = Len(old) + 1 /\ SubSeq(new, 1, Len(old)) = old
<1> DEFINE more == Append(log, kind)
           n == Len(log)
           old == AppsOf(log, n)
           new == AppsOf(more, Len(more))
<1>1. log \in Seq(PeerSaid) /\ n \in Nat
      BY DEF PeerLog
<1>2. Len(more) = n + 1 /\ \A i \in 1..n : more[i] = log[i]
      BY <1>1
<1>3. AppsOf(more, n) = old
      BY <1>1, <1>2, AppsOfSame
<1>4. new \in {old, Append(old, n + 1)} /\ old \in Seq(Nat)
      BY <1>1, <1>2, <1>3, AppsOfStep
<1> HIDE DEF old, new, n
<1>5. new = Append(old, n + 1) =>
         Len(new) = Len(old) + 1 /\ SubSeq(new, 1, Len(old)) = old
  <2> SUFFICES ASSUME new = Append(old, n + 1)
               PROVE  Len(new) = Len(old) + 1 /\ SubSeq(new, 1, Len(old)) = old
        OBVIOUS
  <2>1. /\ new \in Seq(Nat) /\ Len(new) = Len(old) + 1 /\ Len(old) \in Nat
        /\ \A i \in 1..Len(old) : new[i] = old[i]
        BY <1>1, <1>4
  <2> DEFINE sub == SubSeq(new, 1, Len(old))
  <2>2. /\ sub \in Seq(Nat) /\ Len(sub) = Len(old)
        /\ \A i \in 1..Len(old) : sub[i] = old[i]
        BY <2>1
  <2> HIDE DEF sub
  <2>3. sub = old
        BY <1>4, <2>2, SeqEqual
  <2> QED
        BY <2>1, <2>3 DEF sub
<1> QED
      BY <1>4, <1>5 DEF old, new, n

(* What the counterparty says, if anything, is the next entry of its log.  *)
LEMMA SaidNext ==
    ASSUME NEW kind, NEW arg
    PROVE  Say(kind, arg).log \in {peer.log, Append(peer.log, kind)}
BY DEF Say

(* A step of the counterparty leaves the session's side of the connection  *)
(* alone and adds at most one entry to the log.                            *)
PeerStepped ==
    /\ s'.responder = s.responder /\ s'.delivered = s.delivered
    /\ \/ peer'.log = peer.log
       \/ \E kind : peer'.log = Append(peer.log, kind)

(* Taking what the session has written changes nothing else of it.         *)
LEMMA OnlyOut ==
    ASSUME LinkInv, s' = [s EXCEPT !.out = Tail(@)]
    PROVE  s'.responder = s.responder /\ s'.delivered = s.delivered
<1>1. DOMAIN s = Fields
      BY DEF LinkInv, Sound
<1> QED
      BY <1>1 DEF Fields, Switches

(* Every action of the counterparty is such a step.                        *)
LEMMA PeerSteps ==
    ASSUME LinkInv, PeerTakesNext \/ GarbledOut \/ PeerSends
    PROVE  PeerStepped
<1>1. DOMAIN peer = {"on", "log", "expected", "accepted"}
      BY DEF LinkInv
<1>2. CASE GarbledOut
  <2>1. peer' = peer /\ s' = [s EXCEPT !.out = Tail(@)]
        BY <1>2 DEF GarbledOut
  <2> QED
        BY <2>1, OnlyOut DEF PeerStepped
<1>3. CASE PeerSends
  <2>1. PICK kind \in PeerKinds :
          /\ peer' = [peer EXCEPT !.log = Say(kind, 0).log, !.on = kind # "Logout"]
          /\ s' = s
        BY <1>3 DEF PeerSends
  <2>2. peer'.log = Say(kind, 0).log
        BY <1>1, <2>1
  <2> QED
        BY <2>1, <2>2, SaidNext DEF PeerStepped
<1>4. CASE PeerLogon
  <2>1. PICK m \in ToSet(s.out) :
          /\ s' = [s EXCEPT !.out = Tail(@)]
          /\ \/ peer' = [peer EXCEPT !.on = TRUE, !.expected = 2,
                                     !.log = Say("Logon", 1).log]
             \/ peer' = peer
        BY <1>4 DEF PeerLogon, PeerTakes
  <2>2. peer'.log = Say("Logon", 1).log \/ peer'.log = peer.log
        BY <1>1, <2>1
  <2>3. s'.responder = s.responder /\ s'.delivered = s.delivered
        BY <2>1, OnlyOut
  <2>4. Say("Logon", 1).log \in {peer.log, Append(peer.log, "Logon")}
        BY SaidNext
  <2> QED
        BY <2>2, <2>3, <2>4 DEF PeerStepped
<1>5. CASE PeerResends
  <2>1. /\ s' = [s EXCEPT !.out = Tail(@)]
        /\ peer' = [peer EXCEPT !.expected = @ + 1] \/ peer' = peer
        BY <1>5 DEF PeerResends, PeerTakes
  <2>2. peer'.log = peer.log
        BY <1>1, <2>1
  <2> QED
        BY <2>1, <2>2, OnlyOut DEF PeerStepped
<1>6. CASE PeerTooHigh
  <2>1. /\ s' = [s EXCEPT !.out = Tail(@)]
        /\ peer' = [peer EXCEPT !.log = Say("ResendRequest", peer.expected).log]
        BY <1>6 DEF PeerTooHigh, PeerTakes
  <2>2. peer'.log = Say("ResendRequest", peer.expected).log
        BY <1>1, <2>1
  <2> QED
        BY <2>1, <2>2, SaidNext, OnlyOut DEF PeerStepped
<1>7. CASE PeerTooLow
  <2>1. /\ s' = [s EXCEPT !.out = Tail(@)]
        /\ \/ peer' = peer
           \/ peer' = [peer EXCEPT !.on = FALSE, !.log = Say("Logout", 0).log]
        BY <1>7 DEF PeerTooLow, PeerTakes
  <2>2. peer'.log = peer.log \/ peer'.log = Say("Logout", 0).log
        BY <1>1, <2>1
  <2>3. s'.responder = s.responder /\ s'.delivered = s.delivered
        BY <2>1, OnlyOut
  <2>4. Say("Logout", 0).log \in {peer.log, Append(peer.log, "Logout")}
        BY SaidNext
  <2> QED
        BY <2>2, <2>3, <2>4 DEF PeerStepped
<1>8. CASE PeerInTurn
  <2> DEFINE said(m) == CASE m.kind = "TestRequest" -> Say("Heartbeat", 0)
                          [] m.kind = "Logout" -> Say("Logout", 0)
                          [] OTHER -> [log |-> peer.log, msgs |-> << >>]
  <2>1. PICK m \in ToSet(s.out) :
          /\ s' = [s EXCEPT !.out = Tail(@)]
          /\ peer' = [peer EXCEPT
                !.log = said(m).log, !.on = m.kind # "Logout",
                !.expected = IF m.kind = "GapFill" THEN m.arg ELSE @ + 1,
                !.accepted = IF m.kind = "App" THEN Append(@, m.seq) ELSE @]
        BY <1>8 DEF PeerInTurn, PeerTakes
  <2>2. said(m) \in {Say("Heartbeat", 0), Say("Logout", 0),
                     [log |-> peer.log, msgs |-> << >>]}
        OBVIOUS
  <2>3. said(m).log \in {Say("Heartbeat", 0).log, Say("Logout", 0).log, peer.log}
        BY <2>2
  <2> HIDE DEF said
  <2>4. peer'.log = said(m).log
        BY <1>1, <2>1
  <2> QED
        BY <2>1, <2>3, <2>4, SaidNext, OnlyOut DEF PeerStepped
<1> QED
      BY <1>2, <1>3, <1>4, <1>5, <1>6, <1>7, <1>8 DEF PeerTakesNext

(* It is a step of the abstract specification, or none.                    *)
LEMMA PeerPosts ==
    ASSUME LinkInv, PeerStepped
    PROVE  [D!Next]_D!vars
<1> DEFINE old == AppsOf(peer.log, Len(peer.log))
           new == AppsOf(peer'.log, Len(peer'.log))
<1>1. AppNumbers(Len(peer.log)) = old /\ AppNumbers(Len(peer.log))' = new
      BY DEF AppNumbers, AppsOf
<1>2. PeerLog(peer.log)
      BY DEF LinkInv
<1>3. \/ new = old
      \/ Len(new) = Len(old) + 1 /\ SubSeq(new, 1, Len(old)) = old
      BY <1>2, PostedGrows DEF PeerStepped
<1>4. s'.responder = s.responder /\ s'.delivered = s.delivered
      BY DEF PeerStepped
<1> HIDE DEF old, new
<1>5. CASE new = old
      BY <1>1, <1>4, <1>5 DEF D!vars
<1>6. CASE Len(new) = Len(old) + 1 /\ SubSeq(new, 1, Len(old)) = old
      BY <1>1, <1>4, <1>6 DEF D!Next, D!Post
<1> QED
      BY <1>3, <1>5, <1>6

(* What a step of the session hands over is the next message posted.       *)
LEMMA SessionDelivers ==
    ASSUME LinkInv, s.aborted = FALSE, Hands(s, s', peer.log), peer' = peer
    PROVE  [D!Next]_D!vars
<1> DEFINE log == peer.log
           old == AppsOf(log, Len(log))
<1>1. AppNumbers(Len(peer.log)) = old /\ AppNumbers(Len(peer.log))' = old
      BY DEF AppNumbers, AppsOf
<1>2. s.responder \in BOOLEAN
      BY Beginning
<1>3. CASE s'.delivered = s.delivered /\ s'.responder = s.responder
      BY <1>1, <1>3 DEF D!vars
<1>4. CASE s'.responder = FALSE /\ s'.delivered \in {s.delivered, << >>}
  <2> HIDE DEF old
  <2>1. CASE s.responder = TRUE
        BY <1>1, <1>4, <2>1 DEF D!Next, D!Close
  <2>2. CASE s.responder = FALSE
        BY <1>1, <1>4, <2>2 DEF D!Next, D!Forget, D!vars
  <2> QED
        BY <1>2, <2>1, <2>2
<1>5. CASE /\ s'.delivered = Append(s.delivered, s.target)
           /\ s'.responder = s.responder /\ s.responder = TRUE
           /\ s.target \in 1..Len(log) /\ log[s.target] = "App"
  <2>1. s.delivered = AppsOf(log, s.target - 1)
    <3>1. s.delivered = AppNumbers(s.target - 1)
          BY <1>5, InvDelivers DEF DeliveredExactly
    <3> QED
          BY <3>1 DEF AppNumbers, AppsOf
  <2>2. Len(log) \in Nat
    <3>1. PeerLog(log)
          BY DEF LinkInv
    <3> QED
          BY <3>1 DEF PeerLog
  <2> HIDE DEF log
  <2>3. Len(s.delivered) < Len(old) /\ old[Len(s.delivered) + 1] = s.target
        BY <1>5, <2>1, <2>2, NextPosted
  <2> HIDE DEF old
  <2> QED
        BY <1>1, <1>5, <2>3 DEF D!Next, D!Deliver
<1> QED
      BY <1>3, <1>4, <1>5 DEF Hands

(* A reconnect opens a connection with nothing posted on it.               *)
LEMMA ReconnectIsOpen ==
    ASSUME LinkInv, LinkReconnect
    PROVE  D!Open
<1>1. Opens(s') /\ s.responder = FALSE /\ peer' = NewPeer
      BY ReconnectFacts
<1>2. s'.delivered = << >> /\ s'.responder \in BOOLEAN
      BY <1>1 DEF Opens, Sound, Typed, Switches
<1>3. peer'.log = << >>
      BY <1>1 DEF NewPeer
<1>4. AppNumbers(Len(peer.log))' = AppsOf(peer'.log, Len(peer'.log))
      BY DEF AppNumbers, AppsOf
<1>5. Len(<< >>) = 0
      OBVIOUS
<1>6. AppNumbers(Len(peer.log))' = << >>
      BY <1>3, <1>4, <1>5, AppsOfStep
<1> QED
      BY <1>1, <1>2, <1>6 DEF D!Open

(* The session implements in-order delivery: seen from the application and *)
(* the counterparty, every step of the link hands over the next message    *)
(* posted on the open connection, or closes, forgets or opens a            *)
(* connection, or posts one, or does nothing.                              *)
THEOREM SessionDeliversInOrder == LinkSpec => ImplementsDelivery
<1>1. LinkInit => D!Init
  <2> SUFFICES ASSUME LinkInit PROVE D!Init
        OBVIOUS
  <2>1. s.responder = TRUE /\ s.delivered = << >> /\ peer.log = << >>
        BY DEF LinkInit, Init, NewPeer
  <2>2. AppNumbers(Len(peer.log)) = AppsOf(peer.log, Len(peer.log)) /\ Len(<< >>) = 0
        BY DEF AppNumbers, AppsOf
  <2>3. AppNumbers(Len(peer.log)) = << >>
        BY <2>1, <2>2, AppsOfStep
  <2> QED
        BY <2>1, <2>3 DEF D!Init
<1>2. LinkInv /\ [LinkNext]_vars => [D!Next]_D!vars
  <2> SUFFICES ASSUME LinkInv, [LinkNext]_vars PROVE [D!Next]_D!vars
        OBVIOUS
  <2>1. CASE UNCHANGED vars
    <3>1. s' = s /\ peer' = peer
          BY <2>1 DEF vars, linkVars
    <3> QED
          BY <3>1 DEF D!vars, AppNumbers
  <2>2. CASE PeerTakesNext \/ GarbledOut \/ PeerSends
        BY <2>2, PeerSteps, PeerPosts
  <2>3. CASE s.out = << >> /\ (LinkReceive \/ GarbledIn \/ BadLengthIn)
    <3>1. s.aborted = FALSE /\ Consumes(s, s', peer.log) /\ peer' = peer
          BY <2>3, ReadingConsumes
    <3> QED
          BY <3>1, SessionDelivers DEF Consumes, Keeps
  <2>4. CASE s.out = << >> /\ LinkOrder
    <3>1. SendOrder /\ peer' = peer
          BY <2>4 DEF LinkOrder
    <3>2. s.aborted = FALSE /\ Spares(s, s', peer.log)
          BY <2>4, <3>1, OthersSpare
    <3> QED
          BY <3>1, <3>2, SessionDelivers DEF Spares, Keeps
  <2>5. CASE LinkReconnect
        BY <2>5, ReconnectIsOpen DEF D!Next
  <2>6. CASE s.out = << >> /\ (SocketThread \/ ShutDown \/ Logout \/ Tick)
             /\ UNCHANGED linkVars
    <3>1. peer' = peer
          BY <2>6 DEF linkVars
    <3>2. s.aborted = FALSE /\ Spares(s, s', peer.log)
          BY <2>6, SocketSpares, OthersSpare
    <3> QED
          BY <3>1, <3>2, SessionDelivers DEF Spares, Keeps
  <2>7. CASE s.out = << >> /\ StreamFails
    <3>1. ReadFails /\ peer' = peer
          BY <2>7 DEF StreamFails
    <3>2. s.aborted = FALSE /\ Consumes(s, s', peer.log)
          BY <2>7, <3>1, FailureConsumes
    <3> QED
          BY <3>1, <3>2, SessionDelivers DEF Consumes, Keeps
  <2> QED
        BY <2>1, <2>2, <2>3, <2>4, <2>5, <2>6, <2>7 DEF LinkNext
<1> QED
      BY <1>1, <1>2, LinkInvariant, PTL DEF LinkSpec, ImplementsDelivery, D!Spec
=============================================================================
