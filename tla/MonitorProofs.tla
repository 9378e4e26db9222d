---------------------------- MODULE MonitorProofs ----------------------------
(***************************************************************************)
(* Proofs about Monitor for any devices, screens, reports and faults.  Its  *)
(* liveness is only model-checked.                                          *)
(***************************************************************************)
EXTENDS Monitor, SequenceTheorems, TLAPS

----------------------------------------------------------------------------
(* Type correctness of the server *)

HandlerStates ==
    {NoReport}
      \cup [phase : {"authenticated"}, device : Devices,
            kind : {"heartbeat", "telemetry"}, at : Times]
      \cup [phase : {"stored"}, device : Devices]
      \cup [phase : {"read"}, device : Devices, row : Rows, public : BOOLEAN]
Sweeps == [phase : {"idle", "telling"}, left : SUBSET Devices]
            \cup [phase : {"read"}, left : SUBSET Devices, device : Devices, row : Rows]

ServerTyped ==
    /\ now \in 1..MaxTime
    /\ device \in [Devices -> Flags]
    /\ state \in [Devices -> States]
    /\ outages \in [Devices -> Nat]
    /\ handler \in [Handlers -> HandlerStates]
    /\ sweep \in Sweeps

LEMMA RowsAreRows ==
  ASSUME ServerTyped, NEW d \in Devices
  PROVE  Row(d) \in Rows
BY DEF ServerTyped, Row, Rows, Flags, States

\* What a screen does leaves the server alone.
LEMMA ScreensApart ==
  ASSUME NEW c \in Screens, Screen(c)
  PROVE  UNCHANGED <<now, server, workers, audience>>
BY DEF Screen, Load, Poll, Retry, Refresh, Connect, Rerender, LoseSocket, Deliver, Finish,
       Arrive, FailToLoad, Denied

LEMMA ServerTypedStep ==
  ASSUME ServerTyped, [Next]_vars
  PROVE  ServerTyped'
<1> USE DEF ServerTyped
<1>1. CASE UNCHANGED vars
  BY <1>1 DEF vars, server, workers
<1>2. CASE Tick
  BY <1>2, TimesAreNaturals DEF Tick, server, workers
<1>3. CASE MarkOffline
  <2>1. TimedOut \subseteq Devices
    BY DEF TimedOut
  <2>2. state' \in [Devices -> States]
    BY <1>3 DEF MarkOffline, States
  <2>3. QED  BY <1>3, <2>1, <2>2 DEF MarkOffline, Sweeps
<1>4. CASE TellOffline \/ SweepEnds
  BY <1>4 DEF TellOffline, SweepEnds, NoSweep, Sweeps, server
<1>5. ASSUME NEW d \in Devices, ReadOffline(d) \/ ReadOfflineFails(d)
      PROVE  ServerTyped'
  BY <1>5, RowsAreRows DEF ReadOffline, ReadOfflineFails, Sweeps, server
<1>6. CASE Restart
  BY <1>6 DEF Restart, NoSweep, HandlerStates, Sweeps, server
<1>7. ASSUME NEW h \in Handlers, NEW d \in Devices, NEW kind \in {"heartbeat", "telemetry"},
             NEW at \in Times, Report(h, d, kind, at)
      PROVE  ServerTyped'
  BY <1>7 DEF Report, HandlerStates, server
<1>8. ASSUME NEW h \in Handlers, Store(h)
      PROVE  ServerTyped'
  <2>1. handler[h] \in [phase : {"authenticated"}, device : Devices,
                        kind : {"heartbeat", "telemetry"}, at : Times]
    BY <1>8 DEF Store, HandlerStates, NoReport
  <2>2. Reported(handler[h].device, handler[h].kind, handler[h].at) \in States
    BY <2>1 DEF Reported, States
  <2>3. state' \in [Devices -> States]
    BY <1>8, <2>2 DEF Store
  <2>4. QED  BY <1>8, <2>1, <2>3 DEF Store, HandlerStates
<1>9. ASSUME NEW h \in Handlers, ReadBack(h)
      PROVE  ServerTyped'
  <2>1. handler[h].device \in Devices
    BY <1>9 DEF ReadBack, HandlerStates, NoReport
  <2>2. QED  BY <1>9, <2>1, RowsAreRows DEF ReadBack, HandlerStates, Flags, server
<1>10. ASSUME NEW h \in Handlers, ReadBackFails(h) \/ BroadcastDevice(h)
       PROVE  ServerTyped'
  BY <1>10 DEF ReadBackFails, BroadcastDevice, HandlerStates, server
<1>11. ASSUME NEW d \in Devices, NEW f \in Flags, SetDevice(d, f)
       PROVE  ServerTyped'
  BY <1>11 DEF SetDevice, workers
<1>12. ASSUME NEW c \in Screens, Screen(c)
       PROVE  ServerTyped'
  BY <1>12, ScreensApart DEF server, workers
<1>13. QED
  BY <1>1, <1>2, <1>3, <1>4, <1>5, <1>6, <1>7, <1>8, <1>9, <1>10, <1>11, <1>12
  DEF Next, Sweep, Ingest

LEMMA AlwaysServerTyped == Spec => []ServerTyped
<1>1. Init => ServerTyped
  BY TimesAreNaturals DEF Init, ServerTyped, Flags, States, Times, HandlerStates, Sweeps, NoSweep
<1>2. ServerTyped /\ [Next]_vars => ServerTyped'
  BY ServerTypedStep
<1>3. QED  BY <1>1, <1>2, PTL DEF Spec

----------------------------------------------------------------------------
(* Outages and their events *)

\* A device goes offline in a sweep alone, and the sweep writes one event
\* for it in the same transaction; no report ends an outage twice.
THEOREM OutagesHaveOneEvent == Spec => OneEventPerOutage
<1> DEFINE Told == \A d \in Devices : outages'[d] - outages[d]
                       = IF state[d].online /\ ~state'[d].online THEN 1 ELSE 0
<1>1. ServerTyped /\ [Next]_vars => [Told]_vars
  <2> SUFFICES ASSUME ServerTyped, Next PROVE Told
    BY DEF vars
  <2> USE DEF ServerTyped
  <2>1. CASE UNCHANGED <<state, outages>>
    BY <2>1
  <2>2. CASE MarkOffline
    <3>1. \A d \in Devices :
            /\ outages'[d] = IF d \in TimedOut THEN outages[d] + 1 ELSE outages[d]
            /\ d \in TimedOut => state[d].online /\ ~state'[d].online
            /\ d \notin TimedOut => state'[d] = state[d]
      BY <2>2 DEF MarkOffline, States, TimedOut
    <3>2. QED  BY <3>1
  <2>3. ASSUME NEW h \in Handlers, Store(h)
        PROVE  Told
    <3>1. outages' = outages
      BY <2>3 DEF Store
    <3>2. \A d \in Devices : state'[d] = state[d] \/ state'[d].online
      BY <2>3 DEF Store, Reported
    <3>3. QED  BY <3>1, <3>2
  <2>4. ASSUME NEW c \in Screens, Screen(c)
        PROVE  Told
    BY <2>4, <2>1, ScreensApart DEF server
  <2>5. QED
    BY <2>1, <2>2, <2>3, <2>4
    DEF Next, Tick, Sweep, TellOffline, SweepEnds, ReadOffline, ReadOfflineFails, Restart,
        Report, Ingest, ReadBack, ReadBackFails, BroadcastDevice, SetDevice, server
<1>2. QED  BY <1>1, AlwaysServerTyped, PTL DEF Spec, OneEventPerOutage

----------------------------------------------------------------------------
(* Type correctness of the screens *)

Messages == [device : Devices, row : Rows]

ScreensTyped ==
    /\ audience \in [Screens -> {"public", "console"}]
    /\ view \in [Screens -> {"loading", "ready", "error"}]
    /\ shown \in [Screens -> Lists \cup {None}]
    /\ socket \in [Screens -> BOOLEAN]
    /\ queue \in [Screens -> Seq(Messages)]
    /\ fetch \in [Screens -> [Kinds -> Fetches]]

Typed == ServerTyped /\ ScreensTyped

LEMMA BootstrapIsAList ==
  ASSUME ServerTyped, NEW c \in Screens
  PROVE  Bootstrap(c) \in Lists
<1>1. Listed(c) \subseteq Devices
  BY DEF Listed
<1>2. Bootstrap(c) \in [Listed(c) -> Rows]
  BY <1>1, RowsAreRows DEF Bootstrap
<1>3. QED  BY <1>1, <1>2 DEF Lists

\* A message is appended for some screens, and every queue keeps its type.
LEMMA BroadcastIsTyped ==
  ASSUME ScreensTyped, NEW d \in Devices, NEW r \in Rows, NEW p, Broadcast(d, r, p)
  PROVE  queue' \in [Screens -> Seq(Messages)]
<1>1. [device |-> d, row |-> r] \in Messages
  BY DEF Messages
<1>2. \A c \in Screens : Append(queue[c], [device |-> d, row |-> r]) \in Seq(Messages)
  BY <1>1 DEF ScreensTyped
<1>3. QED  BY <1>2 DEF ScreensTyped, Broadcast

LEMMA AskIsTyped ==
  ASSUME Typed, NEW c \in Screens, NEW k \in Kinds, Ask(c, k)
  PROVE  fetch' \in [Screens -> [Kinds -> Fetches]]
<1>1. PICK f \in Fetches : fetch' = [fetch EXCEPT ![c][k] = f]
  <2>1. /\ [phase |-> "answered", rows |-> Bootstrap(c)] \in Fetches
        /\ [phase |-> "failed"] \in Fetches
        /\ [phase |-> "denied"] \in Fetches
    BY BootstrapIsAList DEF Fetches, Typed
  <2>2. QED  BY <2>1 DEF Ask
<1>2. QED  BY <1>1 DEF Typed, ScreensTyped

\* What is left of a screen's reads when one of them is over.
LEMMA AfterIsTyped ==
  ASSUME ScreensTyped, NEW c \in Screens, NEW k \in Kinds
  PROVE  /\ After(c, k) \in [Kinds -> Fetches]
         /\ [After(c, k) EXCEPT !["poll"] = Timer] \in [Kinds -> Fetches]
         /\ [After(c, k) EXCEPT !["poll"] = NoFetch] \in [Kinds -> Fetches]
<1>1. Timer \in Fetches /\ NoFetch \in Fetches
  BY DEF Timer, NoFetch, Fetches
<1>2. QED  BY <1>1 DEF ScreensTyped, After

LEMMA ScreenKeepsTypes ==
  ASSUME Typed, NEW c \in Screens, Screen(c)
  PROVE  ScreensTyped'
<1> USE DEF Typed, ScreensTyped
<1>1. CASE Load(c)
  BY <1>1, AskIsTyped DEF Load, Kinds
<1>2. CASE Poll(c)
  BY <1>2, AskIsTyped DEF Poll, Kinds
<1>3. CASE Refresh(c)
  BY <1>3, AskIsTyped DEF Refresh, Kinds
<1>4. CASE Connect(c)
  BY <1>4, AskIsTyped DEF Connect, Kinds
<1>5. CASE Retry(c)
  <2>1. [phase |-> "sent"] \in Fetches
    BY DEF Fetches
  <2>2. QED  BY <1>5, <2>1 DEF Retry
<1>6. CASE Rerender(c) \/ LoseSocket(c)
  <2>1. /\ socket' = [socket EXCEPT ![c] = FALSE]
        /\ queue' = [queue EXCEPT ![c] = <<>>]
        /\ UNCHANGED <<audience, view, shown, fetch>>
    BY <1>6 DEF Rerender, LoseSocket
  <2>2. QED  BY <2>1
<1>7. CASE Deliver(c)
  <2>1. Head(queue[c]) \in Messages /\ Tail(queue[c]) \in Seq(Messages)
    BY <1>7 DEF Deliver
  <2> DEFINE msg == Head(queue[c])
             old == shown[c]
             new == IF old = None \/ msg.device \notin DOMAIN old THEN old
                    ELSE [old EXCEPT ![msg.device] = msg.row]
  <2>2. new \in Lists \cup {None}
    <3>1. CASE old = None \/ msg.device \notin DOMAIN old
      BY <3>1
    <3>2. CASE ~(old = None \/ msg.device \notin DOMAIN old)
      <4>1. PICK ds \in SUBSET Devices : old \in [ds -> Rows]
        BY <3>2 DEF Lists
      <4>2. [old EXCEPT ![msg.device] = msg.row] \in [ds -> Rows]
        BY <2>1, <4>1 DEF Messages
      <4>3. QED  BY <3>2, <4>2 DEF Lists
    <3>3. QED  BY <3>1, <3>2
  <2>3. shown' = [shown EXCEPT ![c] = new]
    BY <1>7 DEF Deliver
  <2> HIDE DEF new
  <2>4. QED  BY <1>7, <2>1, <2>2, <2>3 DEF Deliver
<1>8. ASSUME NEW k \in Kinds, Finish(c, k)
      PROVE  ScreensTyped'
  <2>1. CASE Arrive(c, k)
    <3>1. fetch[c][k].rows \in Lists
      BY <2>1 DEF Arrive, Fetches
    <3>2. QED  BY <2>1, <3>1, AfterIsTyped DEF Arrive
  <2>2. CASE FailToLoad(c, k)
    BY <2>2, AfterIsTyped DEF FailToLoad
  <2>3. CASE Denied(c, k)
    BY <2>3, AfterIsTyped DEF Denied
  <2>4. QED  BY <1>8, <2>1, <2>2, <2>3 DEF Finish
<1>9. QED
  BY <1>1, <1>2, <1>3, <1>4, <1>5, <1>6, <1>7, <1>8 DEF Screen

LEMMA TypedStep ==
  ASSUME Typed, [Next]_vars
  PROVE  Typed'
<1>1. ServerTyped'
  BY ServerTypedStep DEF Typed
<1>2. ScreensTyped'
  <2> USE DEF Typed, ScreensTyped
  <2>1. ASSUME NEW c \in Screens, Screen(c) PROVE ScreensTyped'
    BY <2>1, ScreenKeepsTypes
  <2>2. CASE UNCHANGED <<screens, audience>>
    BY <2>2 DEF screens
  <2>3. CASE Restart
    <3>1. [phase |-> "failed"] \in Fetches
      BY DEF Fetches
    <3>2. QED  BY <2>3, <3>1 DEF Restart
  <2>4. ASSUME NEW h \in Handlers, BroadcastDevice(h) PROVE ScreensTyped'
    <3>1. handler[h].device \in Devices /\ handler[h].row \in Rows
      BY <2>4 DEF BroadcastDevice, ServerTyped, HandlerStates, NoReport
    <3>2. QED  BY <2>4, <3>1, BroadcastIsTyped DEF BroadcastDevice
  <2>5. CASE TellOffline
    <3>1. sweep.device \in Devices /\ sweep.row \in Rows
      BY <2>5 DEF TellOffline, ServerTyped, Sweeps
    <3>2. QED  BY <2>5, <3>1, BroadcastIsTyped DEF TellOffline
  <2>6. QED
    BY <2>1, <2>2, <2>3, <2>4, <2>5
    DEF vars, Next, Tick, Sweep, MarkOffline, SweepEnds, ReadOffline, ReadOfflineFails,
        Report, Ingest, Store, ReadBack, ReadBackFails, SetDevice
<1>3. QED  BY <1>1, <1>2 DEF Typed

LEMMA AlwaysTyped == Spec => []Typed
<1>1. Init => ServerTyped
  BY TimesAreNaturals DEF Init, ServerTyped, Flags, States, Times, HandlerStates, Sweeps, NoSweep
<1>2. Init => ScreensTyped
  BY DEF Init, ScreensTyped, Fetches, NoFetch
<1>3. Typed /\ [Next]_vars => Typed'
  BY TypedStep
<1>4. QED  BY <1>1, <1>2, <1>3, PTL DEF Spec, Typed

\* Every variable stays within its type, for any reports, faults and screens.
THEOREM MonitorTypes == Spec => []TypeOK
<1>1. Typed => TypeOK
  <2> SUFFICES ASSUME Typed PROVE TypeOK
    OBVIOUS
  <2>1. ASSUME NEW h \in Handlers
        PROVE  handler[h].phase \in {"idle", "authenticated", "stored", "read"}
    BY DEF Typed, ServerTyped, HandlerStates, NoReport
  <2>2. sweep.phase \in {"idle", "telling", "read"} /\ sweep.left \subseteq Devices
    BY DEF Typed, ServerTyped, Sweeps
  <2>3. ASSUME NEW c \in Screens
        PROVE  \A i \in DOMAIN queue[c] : queue[c][i].row \in Rows
    <3>1. queue[c] \in Seq(Messages)
      BY DEF Typed, ScreensTyped
    <3>2. \A i \in DOMAIN queue[c] : queue[c][i] \in Messages
      BY <3>1
    <3>3. QED  BY <3>2 DEF Messages
  <2>4. QED  BY <2>1, <2>2, <2>3 DEF Typed, ServerTyped, ScreensTyped, TypeOK
<1>2. QED  BY <1>1, AlwaysTyped, PTL

----------------------------------------------------------------------------
(* What the public sees *)

\* A row is on its way to public pages only if the device was public when
\* the row was read: in a handler, in an answer, in a queue, on the page.
Public(rows) == \A d \in DOMAIN rows : rows[d].public
OnlyPublic ==
    /\ \A h \in Handlers :
          handler[h].phase = "read" /\ handler[h].public => handler[h].row.public
    /\ \A c \in Screens : audience[c] = "public" =>
          /\ shown[c] # None => Public(shown[c])
          /\ \A i \in DOMAIN queue[c] : queue[c][i].row.public
          /\ \A k \in Kinds : fetch[c][k].phase = "answered" => Public(fetch[c][k].rows)

LEMMA BroadcastIsPublic ==
  ASSUME Typed, OnlyPublic, NEW d \in Devices, NEW r \in Rows, NEW p,
         p => r.public, Broadcast(d, r, p),
         NEW c \in Screens, audience[c] = "public"
  PROVE  \A i \in DOMAIN queue'[c] : queue'[c][i].row.public
<1> DEFINE msg == [device |-> d, row |-> r]
<1>1. queue[c] \in Seq(Messages) /\ msg \in Messages
  BY DEF Typed, ScreensTyped, Messages
<1>2. queue'[c] = IF socket[c] /\ p THEN Append(queue[c], msg) ELSE queue[c]
  BY DEF Broadcast
<1>3. \A i \in DOMAIN queue[c] : queue[c][i].row.public
  BY DEF OnlyPublic
<1>4. CASE socket[c] /\ p
  <2>1. msg.row.public
    BY <1>4
  <2> HIDE DEF msg
  <2>2. \A i \in DOMAIN Append(queue[c], msg) :
          Append(queue[c], msg)[i] = IF i \in DOMAIN queue[c] THEN queue[c][i] ELSE msg
    BY <1>1
  <2>3. QED  BY <1>2, <1>3, <1>4, <2>1, <2>2
<1>5. CASE ~(socket[c] /\ p)
  BY <1>2, <1>3, <1>5
<1>6. QED  BY <1>4, <1>5

LEMMA AskIsPublic ==
  ASSUME Typed, OnlyPublic, NEW c \in Screens, NEW k \in Kinds, Ask(c, k),
         NEW e \in Screens, audience[e] = "public", NEW j \in Kinds,
         fetch'[e][j].phase = "answered"
  PROVE  Public(fetch'[e][j].rows)
<1>1. \/ fetch' = [fetch EXCEPT ![c][k] = [phase |-> "answered", rows |-> Bootstrap(c)]]
      \/ fetch' = [fetch EXCEPT ![c][k] = [phase |-> "failed"]]
      \/ fetch' = [fetch EXCEPT ![c][k] = [phase |-> "denied"]]
  BY DEF Ask
<1>2. audience[c] = "public" => Public(Bootstrap(c))
  BY DEF Public, Bootstrap, Listed, Row
<1>3. fetch[e][j].phase = "answered" => Public(fetch[e][j].rows)
  BY DEF OnlyPublic
<1>4. fetch \in [Screens -> [Kinds -> Fetches]]
  BY DEF Typed, ScreensTyped
<1>5. CASE e = c /\ j = k
  BY <1>1, <1>2, <1>4, <1>5
<1>6. CASE ~(e = c /\ j = k)
  <2>1. fetch'[e][j] = fetch[e][j]
    BY <1>1, <1>4, <1>6
  <2>2. QED  BY <1>3, <2>1
<1>7. QED  BY <1>5, <1>6

LEMMA ScreenStaysPublic ==
  ASSUME Typed, OnlyPublic, NEW c \in Screens, Screen(c)
  PROVE  OnlyPublic'
<1>1. UNCHANGED <<handler, audience>>
  BY ScreensApart DEF workers
<1> SUFFICES ASSUME NEW e \in Screens, audience[e] = "public"
      PROVE  /\ shown'[e] # None => Public(shown'[e])
             /\ \A i \in DOMAIN queue'[e] : queue'[e][i].row.public
             /\ \A k \in Kinds : fetch'[e][k].phase = "answered" => Public(fetch'[e][k].rows)
  BY <1>1 DEF OnlyPublic, Public
<1>3. /\ shown[e] # None => Public(shown[e])
      /\ \A i \in DOMAIN queue[e] : queue[e][i].row.public
      /\ \A k \in Kinds : fetch[e][k].phase = "answered" => Public(fetch[e][k].rows)
  BY DEF OnlyPublic
<1>4. CASE Load(c) \/ Poll(c) \/ Refresh(c) \/ Connect(c)
  <2>1. PICK k \in Kinds : Ask(c, k)
    BY <1>4 DEF Load, Poll, Refresh, Connect, Kinds
  <2>2. UNCHANGED <<shown, queue>>
    BY <1>4 DEF Load, Poll, Refresh, Connect
  <2>3. QED  BY <1>3, <2>1, <2>2, AskIsPublic
<1>5. CASE Retry(c)
  BY <1>3, <1>5 DEF Retry, Typed, ScreensTyped
<1>6. CASE Rerender(c) \/ LoseSocket(c)
  BY <1>3, <1>6 DEF Rerender, LoseSocket, Typed, ScreensTyped
<1>7. CASE Deliver(c)
  <2>1. UNCHANGED fetch
    BY <1>7 DEF Deliver
  <2>2. CASE e # c
    BY <1>3, <1>7, <2>1, <2>2 DEF Deliver, Typed, ScreensTyped
  <2>3. CASE e = c
    <3> DEFINE msg == Head(queue[c])
    <3>1. queue[c] \in Seq(Messages) /\ queue[c] # <<>>
      BY <1>7 DEF Deliver, Typed, ScreensTyped
    <3>2. msg.row.public
      BY <1>3, <2>3, <3>1
    <3>3. \A i \in DOMAIN Tail(queue[c]) : Tail(queue[c])[i] = queue[c][i + 1]
                                            /\ i + 1 \in DOMAIN queue[c]
      BY <3>1
    <3>4. \A i \in DOMAIN queue'[c] : queue'[c][i].row.public
      BY <1>3, <1>7, <2>3, <3>3 DEF Deliver, Typed, ScreensTyped
    <3> HIDE DEF msg
    <3>5. \/ shown'[c] = shown[c]
          \/ /\ shown[c] # None
             /\ shown'[c] = [shown[c] EXCEPT ![msg.device] = msg.row]
      BY <1>7 DEF Deliver, Typed, ScreensTyped, msg
    <3>6. shown'[c] # None => Public(shown'[c])
      BY <1>3, <2>3, <3>2, <3>5 DEF Public
    <3>7. QED  BY <1>3, <2>1, <2>3, <3>4, <3>6
  <2>4. QED  BY <2>2, <2>3
<1>8. ASSUME NEW k \in Kinds, Finish(c, k)
      PROVE  /\ shown'[e] # None => Public(shown'[e])
             /\ \A i \in DOMAIN queue'[e] : queue'[e][i].row.public
             /\ \A j \in Kinds : fetch'[e][j].phase = "answered" => Public(fetch'[e][j].rows)
  <2>1. \A j \in Kinds : \/ fetch'[e][j] = fetch[e][j]
                         \/ fetch'[e][j] \in {Timer, NoFetch}
    <3>1. \A j \in Kinds : After(c, k)[j] \in {fetch[c][j], Timer, NoFetch}
      BY DEF After, Typed, ScreensTyped
    <3>2. \/ fetch' = [fetch EXCEPT ![c] = After(c, k)]
          \/ fetch' = [fetch EXCEPT ![c] = [After(c, k) EXCEPT !["poll"] = Timer]]
          \/ fetch' = [fetch EXCEPT ![c] = [After(c, k) EXCEPT !["poll"] = NoFetch]]
      BY <1>8 DEF Finish, Arrive, FailToLoad, Denied
    <3>3. fetch \in [Screens -> [Kinds -> Fetches]] /\ After(c, k) \in [Kinds -> Fetches]
      BY AfterIsTyped DEF Typed, ScreensTyped
    <3>4. QED  BY <3>1, <3>2, <3>3
  <2>2. Timer.phase = "timer" /\ NoFetch.phase = "none"
    BY DEF Timer, NoFetch
  <2>3. \A j \in Kinds : fetch'[e][j].phase = "answered" => Public(fetch'[e][j].rows)
    BY <1>3, <2>1, <2>2
  <2>4. \/ queue'[e] = queue[e]
        \/ queue'[e] = <<>>
    BY <1>8 DEF Finish, Arrive, FailToLoad, Denied, Typed, ScreensTyped
  <2>5. \/ shown'[e] = shown[e]
        \/ shown'[e] = None
        \/ fetch[e][k].phase = "answered" /\ shown'[e] = fetch[e][k].rows
    BY <1>8 DEF Finish, Arrive, FailToLoad, Denied, Typed, ScreensTyped
  <2>6. QED  BY <1>3, <2>3, <2>4, <2>5
<1>9. QED  BY <1>4, <1>5, <1>6, <1>7, <1>8 DEF Screen

LEMMA ServerStaysPublic ==
  ASSUME Typed, OnlyPublic, [Next]_vars,
         \A c \in Screens : ~Screen(c)
  PROVE  OnlyPublic'
<1> USE DEF OnlyPublic, Public
<1>1. CASE UNCHANGED <<handler, audience, screens>>
  BY <1>1 DEF screens
<1>2. CASE Restart
  <2>1. \A c \in Screens, k \in Kinds :
          \/ fetch'[c][k] = fetch[c][k] \/ fetch'[c][k] = [phase |-> "failed"]
    BY <1>2 DEF Restart
  <2>2. \A h \in Handlers : handler'[h].phase = "idle"
    BY <1>2 DEF Restart, NoReport
  <2>3. \A c \in Screens : queue'[c] = <<>>
    BY <1>2 DEF Restart
  <2>4. UNCHANGED <<audience, shown>>
    BY <1>2 DEF Restart
  <2>5. QED  BY <2>1, <2>2, <2>3, <2>4
<1>3. ASSUME NEW h \in Handlers, \/ Store(h) \/ ReadBack(h) \/ ReadBackFails(h)
                                 \/ \E d \in Devices, kind \in {"heartbeat", "telemetry"},
                                       at \in Times : Report(h, d, kind, at)
      PROVE  OnlyPublic'
  <2>1. UNCHANGED <<audience, screens>>
    BY <1>3 DEF Store, ReadBack, ReadBackFails, Report
  <2>2. \A g \in Handlers :
          \/ handler'[g] = handler[g]
          \/ handler'[g].phase # "read"
          \/ handler'[g].public = handler'[g].row.public
    BY <1>3 DEF Store, ReadBack, ReadBackFails, Report, Row, NoReport, Typed, ServerTyped
  <2>3. QED  BY <2>1, <2>2 DEF screens
<1>4. ASSUME NEW h \in Handlers, BroadcastDevice(h)
      PROVE  OnlyPublic'
  <2>1. handler[h].device \in Devices /\ handler[h].row \in Rows
    BY <1>4 DEF BroadcastDevice, Typed, ServerTyped, HandlerStates, NoReport
  <2>2. handler[h].public => handler[h].row.public
    BY <1>4 DEF BroadcastDevice
  <2>3. \A c \in Screens : audience[c] = "public" =>
           \A i \in DOMAIN queue'[c] : queue'[c][i].row.public
    BY <1>4, <2>1, <2>2, BroadcastIsPublic DEF BroadcastDevice
  <2>4. \A g \in Handlers : handler'[g] = handler[g] \/ handler'[g].phase # "read"
    BY <1>4 DEF BroadcastDevice, NoReport, Typed, ServerTyped
  <2>5. QED  BY <1>4, <2>3, <2>4 DEF BroadcastDevice
<1>5. CASE TellOffline
  <2>1. sweep.device \in Devices /\ sweep.row \in Rows
    BY <1>5 DEF TellOffline, Typed, ServerTyped, Sweeps
  <2>2. \A c \in Screens : audience[c] = "public" =>
           \A i \in DOMAIN queue'[c] : queue'[c][i].row.public
    BY <1>5, <2>1, BroadcastIsPublic DEF TellOffline
  <2>3. QED  BY <1>5, <2>2 DEF TellOffline
<1>6. QED
  BY <1>1, <1>2, <1>3, <1>4, <1>5
  DEF vars, workers, Next, Tick, Sweep, MarkOffline, SweepEnds, ReadOffline, ReadOfflineFails,
      Ingest, SetDevice

\* No public page shows, or is about to show, a row of a device that was
\* read after the device had stopped being public.
THEOREM PublicSeesPublic == Spec => []PublicRowsWerePublic
<1>1. Init => OnlyPublic
  BY DEF Init, OnlyPublic, NoReport, NoFetch
<1>2. Typed /\ OnlyPublic /\ [Next]_vars => OnlyPublic'
  BY ScreenStaysPublic, ServerStaysPublic
<1>3. OnlyPublic => PublicRowsWerePublic
  BY DEF OnlyPublic, PublicRowsWerePublic, Public
<1>4. QED  BY <1>1, <1>2, <1>3, AlwaysTyped, PTL DEF Spec
=============================================================================
