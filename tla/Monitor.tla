------------------------------ MODULE Monitor ------------------------------
(***************************************************************************)
(* The device monitor: devices report, a sweep marks the silent ones       *)
(* offline, and the screens of the public and of the console follow both   *)
(* by a socket and by polling.  A report is authenticated, stored, read    *)
(* back and broadcast in four steps, and so is a sweep in three, with an   *)
(* await between them; a screen may have several reads under way, whose    *)
(* answers come in any order.  The server may restart at any moment.       *)
(***************************************************************************)
EXTENDS Integers, Sequences, FiniteSets

CONSTANTS Devices,     \* rows of devices, all registered
          Screens,     \* browser tabs that show the monitor
          Handlers,    \* bound: reports the server works on at once
          Quiet,       \* bound: the quiet reads a screen has under way, besides a poll
          Timeout,     \* monitorOfflineTimeoutSeconds
          None,        \* nothing on screen
          MaxTime,     \* bound: the clock
          MaxReports,  \* bound: reports
          MaxEdits,    \* bound: changes of a device's flags
          MaxFaults    \* bound: failed reads, lost sockets, restarts

ASSUME TimesAreNaturals == Timeout \in Nat /\ MaxTime \in Nat \ {0}
ASSUME QuietReadsAreTheirOwn == {"load", "poll"} \cap Quiet = {}
ASSUME BoundsAreNaturals == {MaxReports, MaxEdits, MaxFaults} \subseteq Nat

VARIABLES now,       \* the clock of the database
          device,    \* device -> the flags an administrator sets
          state,     \* device -> its row of device_current_state
          outages,   \* device -> its device.offline events
          handler,   \* handler -> the report it works on
          sweep,     \* the run of markOfflineDevices, if any
          audience,  \* screen -> the scope of its page; never changes
          view,      \* screen -> status of useMonitorData
          shown,     \* screen -> the devices on it, or None
          socket,    \* screen -> is its socket open
          queue,     \* screen -> messages sent and not yet delivered
          fetch,     \* screen -> kind of read -> where it stands
          used       \* what has been used of the bounds

server == <<device, state, outages>>
workers == <<handler, sweep>>
screens == <<view, shown, socket, queue, fetch>>
vars == <<now, server, workers, audience, screens, used>>

----------------------------------------------------------------------------
(* Values; a time of 0 is NULL, and a state never reported is all NULL. *)

Times == 0..MaxTime
Flags == [enabled : BOOLEAN, public : BOOLEAN]
States == [online : BOOLEAN, seen : Times, beat : Times]
Rows == [online : BOOLEAN, seen : Times, beat : Times,
         enabled : BOOLEAN, public : BOOLEAN]
Lists == UNION {[ds -> Rows] : ds \in SUBSET Devices}
NoReport == [phase |-> "idle"]
NoSweep == [phase |-> "idle", left |-> {}]
NoFetch == [phase |-> "none"]
Kinds == {"load", "poll"} \cup Quiet

\* deviceSelect: the flags and the state of a device, read in one query.
Row(d) == [online |-> state[d].online, seen |-> state[d].seen, beat |-> state[d].beat,
           enabled |-> device[d].enabled, public |-> device[d].public]

\* getDevices: the public sees the devices that are enabled and public.  Of
\* a bootstrap only the devices are followed.
Listed(c) == {d \in Devices : \/ audience[c] = "console"
                              \/ device[d].enabled /\ device[d].public}
Bootstrap(c) == [d \in Listed(c) |-> Row(d)]

Init ==
    /\ now = 1
    /\ device \in [Devices -> {f \in Flags : f.enabled}]
    /\ state = [d \in Devices |-> [online |-> FALSE, seen |-> 0, beat |-> 0]]
    /\ outages = [d \in Devices |-> 0]
    /\ handler = [h \in Handlers |-> NoReport]
    /\ sweep = NoSweep
    /\ audience \in [Screens -> {"public", "console"}]
    /\ view = [c \in Screens |-> "loading"]
    /\ shown = [c \in Screens |-> None]
    /\ socket = [c \in Screens |-> FALSE]
    /\ queue = [c \in Screens |-> <<>>]
    /\ fetch = [c \in Screens |-> [k \in Kinds |->
                  IF k = "load" THEN [phase |-> "sent"] ELSE NoFetch]]
    /\ used = [reports |-> 0, edits |-> 0, faults |-> 0]

Tick ==
    /\ now < MaxTime
    /\ now' = now + 1
    /\ UNCHANGED <<server, workers, audience, screens, used>>

Spend(what, bound) ==
    /\ used[what] < bound
    /\ used' = [used EXCEPT ![what] = @ + 1]

----------------------------------------------------------------------------
(* Reports of devices *)

\* authenticateDevice runs on the pool, before the transaction.  A report
\* carries the time of the device's own clock, whatever that says.
Report(h, d, kind, at) ==
    /\ handler[h] = NoReport
    /\ device[d].enabled
    /\ at # 0
    /\ Spend("reports", MaxReports)
    /\ handler' = [handler EXCEPT ![h] =
                      [phase |-> "authenticated", device |-> d, kind |-> kind, at |-> at]]
    /\ UNCHANGED <<now, server, sweep, audience, screens>>

\* upsertCurrentState: a report makes its device online, whatever its time
\* is; telemetry leaves the time of the last heartbeat.
Reported(d, kind, at) ==
    [online |-> TRUE, seen |-> at, beat |-> IF kind = "heartbeat" THEN at ELSE state[d].beat]

Store(h) ==
    /\ handler[h].phase = "authenticated"
    /\ LET r == handler[h]
       IN  state' = [state EXCEPT ![r.device] = Reported(r.device, r.kind, r.at)]
    /\ handler' = [handler EXCEPT ![h] = [phase |-> "stored", device |-> handler[h].device]]
    /\ UNCHANGED <<now, device, outages, sweep, audience, screens, used>>

\* Mutant: whether the device is public is remembered, not read again.
ReadAsPublic(h) ==
    /\ handler[h].phase = "stored"
    /\ handler' = [handler EXCEPT ![h] = [phase |-> "read", device |-> handler[h].device,
                                          row |-> Row(handler[h].device), public |-> TRUE]]
    /\ UNCHANGED <<now, server, sweep, audience, screens, used>>

\* getDeviceSnapshotAfterCommit.
ReadBack(h) ==
    /\ handler[h].phase = "stored"
    /\ handler' = [handler EXCEPT ![h] = [phase |-> "read", device |-> handler[h].device,
                                          row |-> Row(handler[h].device),
                                          public |-> device[handler[h].device].public]]
    /\ UNCHANGED <<now, server, sweep, audience, screens, used>>

\* A read that fails leaves nothing to show; the report itself is stored.
ReadBackFails(h) ==
    /\ handler[h].phase = "stored"
    /\ Spend("faults", MaxFaults)
    /\ handler' = [handler EXCEPT ![h] = NoReport]
    /\ UNCHANGED <<now, server, sweep, audience, screens>>

\* hub.broadcast: every open socket of the audience.
Broadcast(d, row, toPublic) ==
    queue' = [c \in Screens |->
                IF socket[c] /\ (audience[c] = "console" \/ toPublic)
                THEN Append(queue[c], [device |-> d, row |-> row])
                ELSE queue[c]]

\* broadcastDevice looks at isPublic alone.
BroadcastDevice(h) ==
    /\ handler[h].phase = "read"
    /\ Broadcast(handler[h].device, handler[h].row, handler[h].public)
    /\ handler' = [handler EXCEPT ![h] = NoReport]
    /\ UNCHANGED <<now, server, sweep, audience, view, shown, socket, fetch, used>>

----------------------------------------------------------------------------
(* The sweep *)

\* Mutant: without COALESCE a device that never sent a heartbeat compares with
\* NULL and is never silent.
LastBeat(s) == IF s.beat # 0 THEN s.beat ELSE now

LastHeard(s) == IF s.beat # 0 THEN s.beat ELSE s.seen
Silent(s) == LastHeard(s) < now - Timeout

\* Mutant: a device that is offline already is marked, and told of, again.
SilentAnyhow == {d \in Devices : device[d].enabled /\ state[d].seen # 0 /\ Silent(state[d])}

TimedOut == {d \in Devices : state[d].online /\ device[d].enabled /\ Silent(state[d])}

\* The timer of startOfflineMonitor starts a sweep unless one is running: one
\* transaction under FOR UPDATE writes the states and their events.  A
\* transaction that fails changes nothing and is no action.
MarkOffline ==
    /\ sweep = NoSweep
    /\ TimedOut # {}
    /\ state' = [d \in Devices |-> IF d \in TimedOut
                                   THEN [state[d] EXCEPT !.online = FALSE] ELSE state[d]]
    /\ outages' = [d \in Devices |-> IF d \in TimedOut THEN outages[d] + 1 ELSE outages[d]]
    /\ sweep' = [phase |-> "telling", left |-> TimedOut]
    /\ UNCHANGED <<now, device, handler, audience, screens, used>>

ReadOffline(d) ==
    /\ sweep.phase = "telling" /\ d \in sweep.left
    /\ sweep' = [phase |-> "read", left |-> sweep.left \ {d}, device |-> d, row |-> Row(d)]
    /\ UNCHANGED <<now, server, handler, audience, screens, used>>

\* The device is passed over, and the next one is read.
ReadOfflineFails(d) ==
    /\ sweep.phase = "telling" /\ d \in sweep.left
    /\ Spend("faults", MaxFaults)
    /\ sweep' = [sweep EXCEPT !.left = @ \ {d}]
    /\ UNCHANGED <<now, server, handler, audience, screens>>

TellOffline ==
    /\ sweep.phase = "read"
    /\ Broadcast(sweep.device, sweep.row, sweep.row.enabled /\ sweep.row.public)
    /\ sweep' = [phase |-> "telling", left |-> sweep.left]
    /\ UNCHANGED <<now, server, handler, audience, view, shown, socket, fetch, used>>

SweepEnds ==
    /\ sweep.phase = "telling" /\ sweep.left = {}
    /\ sweep' = NoSweep
    /\ UNCHANGED <<now, server, handler, audience, screens, used>>

----------------------------------------------------------------------------
(* Administration, and the restart of the server *)

\* updateDevice and disableDevice; nothing is broadcast.
SetDevice(d, flags) ==
    /\ device[d] # flags
    /\ Spend("edits", MaxEdits)
    /\ device' = [device EXCEPT ![d] = flags]
    /\ UNCHANGED <<now, state, outages, workers, audience, screens>>

\* What the server works on is gone, and every connection to it.
Restart ==
    /\ Spend("faults", MaxFaults)
    /\ handler' = [h \in Handlers |-> NoReport]
    /\ sweep' = NoSweep
    /\ socket' = [c \in Screens |-> FALSE]
    /\ queue' = [c \in Screens |-> <<>>]
    /\ fetch' = [c \in Screens |-> [k \in Kinds |->
                   IF fetch[c][k].phase \in {"sent", "answered"}
                   THEN [phase |-> "failed"] ELSE fetch[c][k]]]
    /\ UNCHANGED <<now, server, audience, view, shown>>

----------------------------------------------------------------------------
(* A screen *)

\* A read is answered, or refused, by the server at once, and the answer
\* arrives when it arrives: that the request is under way changes nothing.
Ask(c, k) ==
    LET becomes(f) == fetch' = [fetch EXCEPT ![c][k] = f]
    IN  \/ becomes([phase |-> "answered", rows |-> Bootstrap(c)]) /\ UNCHANGED used
        \/ becomes([phase |-> "failed"]) /\ Spend("faults", MaxFaults)
        \/ /\ audience[c] = "console"
           /\ becomes([phase |-> "denied"]) /\ Spend("faults", MaxFaults)

\* refresh of a page that is mounted, or whose retry button was pressed.
Load(c) ==
    /\ fetch[c]["load"].phase = "sent"
    /\ Ask(c, "load")
    /\ UNCHANGED <<now, server, workers, audience, view, shown, socket, queue>>

\* Mutant: a screen with an open socket does not poll.
PollIfAlone(c) ==
    /\ fetch[c]["poll"].phase = "timer"
    /\ ~socket[c]
    /\ Ask(c, "poll")
    /\ UNCHANGED <<now, server, workers, audience, view, shown, socket, queue>>

\* schedulePoll: the timer runs at another pace without a socket, but runs;
\* that of a public page may be started over before it ever fires.
Poll(c) ==
    /\ fetch[c]["poll"].phase = "timer"
    /\ Ask(c, "poll")
    /\ UNCHANGED <<now, server, workers, audience, view, shown, socket, queue>>

\* The retry button of a page that shows nothing.
Retry(c) ==
    /\ view[c] = "error" /\ shown[c] = None
    /\ fetch[c]["load"] = NoFetch
    /\ view' = [view EXCEPT ![c] = "loading"]
    /\ fetch' = [fetch EXCEPT ![c]["load"] = [phase |-> "sent"]]
    /\ UNCHANGED <<now, server, workers, audience, shown, socket, queue, used>>

\* The console reads again after each of its own changes.
Refresh(c) ==
    /\ audience[c] = "console" /\ view[c] = "ready"
    /\ \E q \in Quiet : fetch[c][q] = NoFetch /\ Ask(c, q)
    /\ UNCHANGED <<now, server, workers, audience, view, shown, socket, queue>>

\* connect and onopen: the open socket is followed by a read.  A socket that
\* is refused changes nothing here; it is tried again.
Connect(c) ==
    /\ view[c] = "ready" /\ ~socket[c]
    /\ socket' = [socket EXCEPT ![c] = TRUE]
    /\ \E q \in Quiet : fetch[c][q] = NoFetch /\ Ask(c, q)
    /\ UNCHANGED <<now, server, workers, audience, view, shown, queue>>

\* The public page names no permissions, so that every render makes a new
\* list of them and runs the effect again: it closes the socket, starts the
\* poll timer over and connects anew.  An open socket is such a render itself
\* (setConnection), and what a closed one still sends is not dispatched.
Rerender(c) ==
    /\ audience[c] = "public" /\ socket[c]
    /\ socket' = [socket EXCEPT ![c] = FALSE]
    /\ queue' = [queue EXCEPT ![c] = <<>>]
    /\ UNCHANGED <<now, server, workers, audience, view, shown, fetch, used>>

LoseSocket(c) ==
    /\ socket[c]
    /\ Spend("faults", MaxFaults)
    /\ socket' = [socket EXCEPT ![c] = FALSE]
    /\ queue' = [queue EXCEPT ![c] = <<>>]
    /\ UNCHANGED <<now, server, workers, audience, view, shown, fetch>>

\* onmessage and applyMonitorMessage: a message replaces a device that is on
\* the screen, whatever is there; it adds none.
Deliver(c) ==
    /\ queue[c] # <<>>
    /\ LET m == Head(queue[c])
       IN  shown' = [shown EXCEPT ![c] =
                       IF @ = None \/ m.device \notin DOMAIN @ THEN @
                       ELSE [@ EXCEPT ![m.device] = m.row]]
    /\ queue' = [queue EXCEPT ![c] = Tail(@)]
    /\ UNCHANGED <<now, server, workers, audience, view, socket, fetch, used>>

\* A poll is followed by the timer of the next one; the other kinds of read
\* start the timer of a page that becomes ready.
Timer == [phase |-> "timer"]
After(c, k) == [fetch[c] EXCEPT ![k] = IF k = "poll" THEN Timer ELSE NoFetch]

Arrive(c, k) ==
    /\ fetch[c][k].phase = "answered"
    /\ shown' = [shown EXCEPT ![c] = fetch[c][k].rows]
    /\ view' = [view EXCEPT ![c] = "ready"]
    /\ fetch' = [fetch EXCEPT ![c] =
                   IF After(c, k)["poll"] = NoFetch
                   THEN [After(c, k) EXCEPT !["poll"] = Timer] ELSE After(c, k)]
    /\ UNCHANGED <<now, server, workers, audience, socket, queue, used>>

\* getLoadFailureState: a quiet read that fails leaves what is on screen.
FailToLoad(c, k) ==
    /\ fetch[c][k].phase = "failed"
    /\ view' = [view EXCEPT ![c] = IF k # "load" /\ shown[c] # None THEN "ready" ELSE "error"]
    /\ fetch' = [fetch EXCEPT ![c] = After(c, k)]
    /\ UNCHANGED <<now, server, workers, audience, shown, socket, queue, used>>

\* shouldClearSnapshot; the page is not ready any more, which closes its
\* socket and clears the timer, though not a poll that is under way.
Denied(c, k) ==
    /\ fetch[c][k].phase = "denied"
    /\ shown' = [shown EXCEPT ![c] = None]
    /\ view' = [view EXCEPT ![c] = "error"]
    /\ socket' = [socket EXCEPT ![c] = FALSE]
    /\ queue' = [queue EXCEPT ![c] = <<>>]
    /\ fetch' = [fetch EXCEPT ![c] =
                   IF After(c, k)["poll"] = Timer
                   THEN [After(c, k) EXCEPT !["poll"] = NoFetch] ELSE After(c, k)]
    /\ UNCHANGED <<now, server, workers, audience, used>>

----------------------------------------------------------------------------

Ingest(h) == Store(h) \/ ReadBack(h) \/ ReadBackFails(h) \/ BroadcastDevice(h)

Sweep ==
    \/ MarkOffline \/ TellOffline \/ SweepEnds
    \/ \E d \in Devices : ReadOffline(d) \/ ReadOfflineFails(d)

Finish(c, k) == Arrive(c, k) \/ FailToLoad(c, k) \/ Denied(c, k)

Screen(c) ==
    \/ Load(c) \/ Poll(c) \/ Retry(c) \/ Refresh(c)
    \/ Connect(c) \/ Rerender(c) \/ LoseSocket(c) \/ Deliver(c)
    \/ \E k \in Kinds : Finish(c, k)

Next ==
    \/ Tick \/ Sweep \/ Restart
    \/ \E h \in Handlers, d \in Devices, kind \in {"heartbeat", "telemetry"}, at \in Times :
          Report(h, d, kind, at)
    \/ \E h \in Handlers : Ingest(h)
    \/ \E d \in Devices, f \in Flags : SetDevice(d, f)
    \/ \E c \in Screens : Screen(c)

\* Only the console's timer is left to run out (Poll).
PollOnTime(c) == audience[c] = "console" /\ Poll(c)

\* The clock runs, the server works on what it has begun and sweeps again
\* and again, and a page does what its timers, renders and answers make it
\* do.  That a socket is ever accepted is not promised.
Fairness ==
    /\ WF_vars(Tick) /\ WF_vars(Sweep)
    /\ \A h \in Handlers : WF_vars(Ingest(h))
    /\ \A c \in Screens :
          /\ WF_vars(Load(c)) /\ WF_vars(PollOnTime(c))
          /\ WF_vars(Rerender(c)) /\ WF_vars(Deliver(c))
          /\ \A k \in Kinds : WF_vars(Finish(c, k))

Spec == Init /\ [][Next]_vars /\ Fairness

----------------------------------------------------------------------------
(* Properties *)

Fetches == [phase : {"none", "timer", "sent", "failed", "denied"}]
             \cup [phase : {"answered"}, rows : Lists]

TypeOK ==
    /\ now \in 1..MaxTime
    /\ device \in [Devices -> Flags]
    /\ state \in [Devices -> States]
    /\ outages \in [Devices -> Nat]
    /\ \A h \in Handlers : handler[h].phase \in {"idle", "authenticated", "stored", "read"}
    /\ sweep.phase \in {"idle", "telling", "read"} /\ sweep.left \subseteq Devices
    /\ \A c \in Screens :
          /\ audience[c] \in {"public", "console"}
          /\ view[c] \in {"loading", "ready", "error"}
          /\ shown[c] = None \/ shown[c] \in Lists
          /\ socket[c] \in BOOLEAN
          /\ \A i \in DOMAIN queue[c] : queue[c][i].row \in Rows
          /\ \A k \in Kinds : fetch[c][k] \in Fetches

\* What a public page shows, or is about to show, of a device was read when
\* the device was public: no order of reports, sweeps and changes of the
\* flag publishes what happened to it afterwards (getDevices,
\* broadcastDevice and markOfflineDevices).
PublicRowsWerePublic ==
    \A c \in Screens : audience[c] = "public" =>
        /\ shown[c] # None => \A d \in DOMAIN shown[c] : shown[c][d].public
        /\ \A i \in DOMAIN queue[c] : queue[c][i].row.public

\* A device that goes offline leaves one event, and no event comes without
\* an outage (markOfflineDevices).
OneEventPerOutage ==
    [][\A d \in Devices :
          outages'[d] - outages[d] = IF state[d].online /\ ~state'[d].online THEN 1 ELSE 0]_vars

\* When reports and changes have ended, no enabled device that has been
\* silent for the timeout is called online, although sweeps may fail and the
\* server may restart (startOfflineMonitor).
SilentDevicesGoOffline ==
    <>[](\A d \in Devices : state[d].online /\ device[d].enabled =>
            \/ state[d].beat # 0 /\ state[d].beat >= now - Timeout
            \/ state[d].beat = 0 /\ state[d].seen >= now - Timeout)

\* When reports and changes have ended, a page that is ready shows what the
\* database holds, although messages are lost, overtaken and applied to
\* newer data, and reads are answered late: a console whether or not its
\* socket is ever accepted, a public page, whose polls may never run, if
\* its sockets are accepted again and again (useMonitorData).
ScreensConverge ==
    \A c \in Screens :
        []<>(audience[c] = "console" \/ socket[c]) =>
            <>[](view[c] = "ready" => shown[c] = Bootstrap(c))
=============================================================================
