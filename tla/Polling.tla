------------------------------ MODULE Polling ------------------------------
(***************************************************************************)
(* The price polling of a day and what watches it: start() and the         *)
(* scheduled start and stop of the polling loop (src/engine/polling.py),   *)
(* the loop as an asyncio task that can be cancelled, the stop of the GUI, *)
(* and the health monitor (src/engine/health_monitor.py).                  *)
(*                                                                         *)
(* What runs between two awaits is one action.  Prices, orders and the     *)
(* positions behind the polled codes are left out: a cycle succeeds, or    *)
(* every request of it fails.                                              *)
(***************************************************************************)
EXTENDS Integers, FiniteSets

CONSTANTS
    Tasks,         \* identities of polling tasks; a finished one is used again,
                   \* and a task is never created while two others are held
    FailThreshold  \* _poll_fail_threshold

ASSUME PollingAssumption == /\ Tasks \subseteq Nat \ {0}
                            /\ IsFiniteSet(Tasks) /\ Cardinality(Tasks) >= 3
                            /\ FailThreshold \in Nat \ {0}

VARIABLES
    up,            \* the process exists
    running,       \* _running
    connected,     \* _kiwoom._connected
    closed,        \* stop() has closed the REST client
    at,            \* where each caller of connect() stands
    loop,          \* each polling task's place
    cancelled,     \* tasks told to cancel
    pollingTask,   \* _polling_task; 0: None
    joins,         \* the task each caller of _stop_polling awaits; 0: none
    pollingActive, beat, failures, alerted, \* the HealthMonitor
    told,          \* a system error was sent since 09:00
    phase, trading, due, \* time of day, is_trading_day, jobs whose time has come
    streak,        \* history: cycles failed in a row, up to FailThreshold
    crossed        \* history: a start awaiting connect() met another start or stop

procVars == <<up, running, closed>>
taskVars == <<loop, cancelled, pollingTask>>
healthVars == <<beat, failures, alerted>>
clockVars == <<phase, trading>>
vars == <<procVars, connected, at, taskVars, joins, pollingActive, healthVars,
          told, clockVars, due, streak, crossed>>

Starters == {"boot", "job"}        \* callers of _start_polling
Callers == Starters \cup {"screen"}
Stoppers == {"job", "gui"}
Phases == {"night", "open", "session", "after"}

TypeOK ==
    /\ up \in BOOLEAN /\ running \in BOOLEAN /\ closed \in BOOLEAN
    /\ connected \in BOOLEAN
    /\ at \in [Callers -> {"idle", "ensuring", "screening", "connecting"}]
    /\ loop \in [Tasks -> {"idle", "resting", "polling"}]
    /\ cancelled \subseteq Tasks
    /\ pollingTask \in Tasks \cup {0}
    /\ joins \in [Stoppers -> Tasks \cup {0}]
    /\ pollingActive \in BOOLEAN /\ beat \in {"never", "fresh", "stale"}
    /\ failures \in 0..FailThreshold /\ streak \in 0..FailThreshold
    /\ alerted \subseteq {"POLL_FAIL", "HEARTBEAT_STALE"}
    /\ told \in BOOLEAN /\ crossed \in BOOLEAN
    /\ phase \in Phases /\ trading \in BOOLEAN
    /\ due \subseteq {"screen", "reset", "start", "stop"}

Live == {t \in Tasks : loop[t] # "idle"}

\* Mutant: a new task is created although one is running.
HandleNeverLive == FALSE

HandleLive == pollingTask \in Live

Idle == [w \in Callers |-> "idle"]
NoJoin == [w \in Stoppers |-> 0]

\* A process that has just begun, or is gone.
Blank ==
    /\ running' = FALSE /\ closed' = FALSE /\ connected' = FALSE
    /\ at' = Idle /\ loop' = [t \in Tasks |-> "idle"] /\ cancelled' = {}
    /\ pollingTask' = 0 /\ joins' = NoJoin
    /\ pollingActive' = FALSE /\ beat' = "never" /\ failures' = 0 /\ alerted' = {}
    /\ due' = {} /\ streak' = 0 /\ crossed' = FALSE /\ told' = FALSE

Init ==
    /\ up = FALSE /\ running = FALSE /\ closed = FALSE /\ connected = FALSE
    /\ at = Idle /\ loop = [t \in Tasks |-> "idle"] /\ cancelled = {}
    /\ pollingTask = 0 /\ joins = NoJoin
    /\ pollingActive = FALSE /\ beat = "never" /\ failures = 0 /\ alerted = {}
    /\ due = {} /\ streak = 0 /\ crossed = FALSE /\ told = FALSE
    /\ phase \in Phases /\ trading \in BOOLEAN

----------------------------------------------------------------------------
(* The start.                                                              *)

\* A task no handle and no join refers to.
NewTask == CHOOSE t \in Tasks : /\ loop[t] = "idle" /\ t # pollingTask
                                /\ \A w \in Stoppers : joins[w] # t

CreateLoop ==
    /\ loop' = [loop EXCEPT ![NewTask] = "resting"]
    /\ pollingTask' = NewTask
    /\ pollingActive' = TRUE
    /\ UNCHANGED cancelled

OtherConnecting(w) == \E v \in Starters \ {w} : at[v] = "connecting"

\* _start_polling up to its await or its end.
StartPolling(w) ==
    \/ /\ ~trading \/ HandleLive
       /\ at' = [at EXCEPT ![w] = "idle"]
       /\ UNCHANGED <<taskVars, pollingActive, crossed>>
    \/ /\ trading /\ ~HandleLive
       /\ IF connected
          THEN CreateLoop /\ at' = [at EXCEPT ![w] = "idle"]
          ELSE /\ at' = [at EXCEPT ![w] = "connecting"]
               /\ UNCHANGED <<taskVars, pollingActive>>
       /\ crossed' = (crossed \/ OtherConnecting(w))

\* _ensure_connection: nothing to do when connected.
Ensure(w) == at' = [at EXCEPT ![w] =
    IF ~connected THEN "ensuring" ELSE IF w = "boot" THEN "screening" ELSE "idle"]

\* start() up to its first await; the scheduler is running from here on.
Boot ==
    /\ ~up
    /\ up' = TRUE /\ running' = TRUE
    /\ Ensure("boot")
    /\ UNCHANGED <<closed, connected, taskVars, joins, pollingActive, healthVars,
                   told, clockVars, due, streak, crossed>>

InPollingWindow == phase = "session"

\* The screening of start() has ended; polling begins if it is the time.
BootScreened ==
    /\ at["boot"] = "screening"
    /\ IF InPollingWindow THEN StartPolling("boot")
       ELSE /\ at' = [at EXCEPT !["boot"] = "idle"]
            /\ UNCHANGED <<taskVars, pollingActive, crossed>>
    /\ UNCHANGED <<procVars, connected, joins, healthVars, told, clockVars, due,
                   streak>>

Job(j) == running /\ j \in due /\ due' = due \ {j}

ScreenJob ==
    /\ Job("screen") /\ at["screen"] = "idle"
    /\ Ensure("screen")
    /\ UNCHANGED <<procVars, connected, taskVars, joins, pollingActive, healthVars,
                   told, clockVars, streak, crossed>>

StartJob ==
    /\ Job("start") /\ at["job"] = "idle"
    /\ StartPolling("job")
    /\ UNCHANGED <<procVars, connected, joins, healthVars, told, clockVars, streak>>

Connected(w) ==
    /\ ~closed
    /\ connected' = TRUE
    /\ \/ at[w] = "connecting" /\ CreateLoop /\ at' = [at EXCEPT ![w] = "idle"]
       \/ /\ at[w] = "ensuring"
          /\ at' = [at EXCEPT ![w] = IF w = "boot" THEN "screening" ELSE "idle"]
          /\ UNCHANGED <<taskVars, pollingActive>>
    /\ UNCHANGED <<procVars, joins, healthVars, told, clockVars, due, streak,
                   crossed>>

\* Mutant: the error is only logged.
NobodyTold == UNCHANGED told

SystemError == told' = TRUE

\* A system error is sent; a start is over, the screening goes on.
ConnectFails(w) ==
    /\ at[w] \in {"ensuring", "connecting"}
    /\ at' = [at EXCEPT ![w] = IF w = "boot" /\ @ = "ensuring" THEN "screening"
                                                               ELSE "idle"]
    /\ SystemError
    /\ UNCHANGED <<procVars, connected, taskVars, joins, pollingActive, healthVars,
                   clockVars, due, streak, crossed>>

----------------------------------------------------------------------------
(* The loop.                                                               *)

Beat == beat' = "fresh" /\ failures' = 0

\* Mutant: every alarm has the same key.
AlertUnnamed(key) == alerted' = alerted \cup {"ALERT"}

Alert(key) == alerted' = alerted \cup {key}

\* The top of the loop: beat, choose what to poll, or nothing to poll.
Cycle(t) ==
    /\ loop[t] = "resting" /\ t \notin cancelled /\ running
    /\ Beat
    /\ loop' \in {loop, [loop EXCEPT ![t] = "polling"]}
    /\ UNCHANGED <<procVars, connected, at, cancelled, pollingTask, joins,
                   pollingActive, alerted, told, clockVars, due, streak, crossed>>

\* Mutant: the loop does not look at _running.
LoopGoesOn(t) == FALSE

LoopEnds(t) == loop[t] = "resting" /\ ~running

\* The loop ends: told to cancel, or no longer running.
LoopEnded(t) ==
    /\ LoopEnds(t) \/ (t \in cancelled /\ loop[t] # "idle")
    /\ loop' = [loop EXCEPT ![t] = "idle"]
    /\ cancelled' = cancelled \ {t}
    /\ UNCHANGED <<procVars, connected, at, pollingTask, joins, pollingActive,
                   healthVars, told, clockVars, due, streak, crossed>>

\* An exception outside the requests: the loop is over, its flag stays set.
LoopFails(t) ==
    /\ loop[t] = "resting" /\ t \notin cancelled /\ running
    /\ Beat /\ SystemError
    /\ loop' = [loop EXCEPT ![t] = "idle"]
    /\ UNCHANGED <<procVars, connected, at, cancelled, pollingTask, joins,
                   pollingActive, alerted, clockVars, due, streak, crossed>>

CycleEnds(t) ==
    /\ loop[t] = "polling" /\ t \notin cancelled
    /\ loop' = [loop EXCEPT ![t] = "resting"]
    /\ UNCHANGED <<procVars, connected, at, cancelled, pollingTask, joins,
                   pollingActive, beat, told, clockVars, due, crossed>>

\* A price arrived, or the engine stopped before any request failed.
CycleSucceeds(t) ==
    /\ CycleEnds(t)
    /\ streak' = 0
    /\ UNCHANGED <<failures, alerted>>

CycleFails(t) ==
    /\ CycleEnds(t)
    /\ failures' = IF failures < FailThreshold THEN failures + 1 ELSE failures
    /\ IF failures' >= FailThreshold THEN Alert("POLL_FAIL") ELSE UNCHANGED alerted
    /\ streak' = IF streak < FailThreshold THEN streak + 1 ELSE streak

----------------------------------------------------------------------------
(* The stop.                                                               *)

\* _stop_polling up to its await, or its end when nothing is polling.
StopPolling(w) ==
    IF HandleLive
    THEN /\ cancelled' = cancelled \cup {pollingTask}
         /\ joins' = [joins EXCEPT ![w] = pollingTask]
         /\ UNCHANGED crossed
    ELSE /\ crossed' = (crossed \/ \E v \in Starters : at[v] = "connecting")
         /\ UNCHANGED <<cancelled, joins>>

StopJob ==
    /\ Job("stop") /\ joins["job"] = 0
    /\ StopPolling("job")
    /\ UNCHANGED <<procVars, connected, at, loop, pollingTask, pollingActive,
                   healthVars, told, clockVars, streak>>

\* engine.stop(), from the GUI.
GuiStop ==
    /\ running /\ joins["gui"] = 0
    /\ running' = FALSE
    /\ StopPolling("gui")
    /\ UNCHANGED <<up, closed, connected, at, loop, pollingTask, pollingActive,
                   healthVars, told, clockVars, due, streak>>

\* The awaited task is over.
Joined(w) == joins[w] # 0 /\ joins[w] \notin Live

StopPolled(w) ==
    /\ Joined(w)
    /\ joins' = [joins EXCEPT ![w] = 0]
    /\ pollingTask' = 0 /\ pollingActive' = FALSE
    /\ UNCHANGED <<procVars, connected, at, loop, cancelled, healthVars, told,
                   clockVars, due, streak, crossed>>

\* The rest of stop(): scheduler and connection are closed.
Closed ==
    /\ up /\ ~running /\ ~closed /\ joins["gui"] = 0
    /\ closed' = TRUE /\ connected' = FALSE /\ due' = {}
    /\ UNCHANGED <<up, running, at, taskVars, joins, pollingActive, healthVars,
                   told, clockVars, streak, crossed>>

\* EngineWorker.run sees _running, cancels every task and drops the engine,
\* whether stop() is through or not; or the process dies.
Gone ==
    /\ up
    /\ up' = FALSE
    /\ Blank
    /\ UNCHANGED clockVars

----------------------------------------------------------------------------
(* The health monitor and the clock.                                       *)

\* Mutant: the watch ends when the polling begins.
WatchedBeforePolling == phase = "open"

\* 09:00 to 15:35.
Watched == phase \in {"open", "session"}

\* check_health, every minute; its alarm on missing ticks is left out.
HealthCheck ==
    /\ running /\ Watched
    /\ beat = "stale" /\ Alert("HEARTBEAT_STALE")
    /\ UNCHANGED <<procVars, connected, at, taskVars, joins, pollingActive, beat,
                   failures, told, clockVars, due, streak, crossed>>

\* reset_alerts, by the 09:00 job.
ResetJob ==
    /\ Job("reset")
    /\ alerted' = {}
    /\ UNCHANGED <<procVars, connected, at, taskVars, joins, pollingActive,
                   beat, failures, told, clockVars, streak, crossed>>

\* Two minutes without a beat.
TimePasses ==
    /\ beat = "fresh" /\ beat' = "stale"
    /\ UNCHANGED <<procVars, connected, at, taskVars, joins, pollingActive,
                   failures, alerted, told, clockVars, due, streak, crossed>>

At(from, to, jobs) ==
    /\ phase = from /\ phase' = to
    /\ due' = IF running THEN jobs ELSE {}

\* Cron jobs of every day of the week; overnight what was fresh is stale.  A
\* cancelled task is over long before the next hour of the clock.
Clock ==
    /\ due = {} /\ cancelled = {} /\ joins["job"] = 0
    /\ \/ /\ At("after", "night", {"screen"}) /\ trading' \in BOOLEAN
          /\ beat' = IF beat = "fresh" /\ Live = {} THEN "stale" ELSE beat
          /\ UNCHANGED told
       \/ At("night", "open", {"reset"}) /\ told' = FALSE
          /\ UNCHANGED <<trading, beat>>
       \/ At("open", "session", {"start"}) /\ UNCHANGED <<trading, beat, told>>
       \/ At("session", "after", {"stop"}) /\ UNCHANGED <<trading, beat, told>>
    /\ UNCHANGED <<procVars, connected, at, taskVars, joins, pollingActive,
                   failures, alerted, streak, crossed>>

----------------------------------------------------------------------------
StartStep ==
    \/ BootScreened \/ ScreenJob \/ StartJob
    \/ \E w \in Callers : Connected(w) \/ ConnectFails(w)

LoopStep(t) ==
    \/ Cycle(t) \/ CycleSucceeds(t) \/ CycleFails(t)
    \/ LoopEnded(t) \/ LoopFails(t)

StopStep == StopJob \/ (\E w \in Stoppers : StopPolled(w)) \/ Closed

Next ==
    \/ Boot \/ StartStep
    \/ \E t \in Tasks : LoopStep(t)
    \/ GuiStop \/ StopStep \/ Gone
    \/ HealthCheck \/ ResetJob \/ TimePasses \/ Clock

\* Awaits end (every request has a timeout), due jobs run, a minute passes.
\* Nothing is assumed of the clock, the GUI or the connection.
Fairness ==
    /\ WF_vars(StartStep) /\ WF_vars(StopStep) /\ WF_vars(ResetJob)
    /\ \A t \in Tasks : WF_vars(LoopStep(t))
    /\ WF_vars(HealthCheck) /\ WF_vars(TimePasses)

Spec == Init /\ [][Next]_vars /\ Fairness

----------------------------------------------------------------------------
(***************************************************************************)
(* While the engine runs there is at most one polling loop and             *)
(* _polling_task is it, so that 15:35 can stop it; and after 15:35 nothing *)
(* polls.  Unless a start was awaiting connect() while another start or    *)
(* the stop ran: polling.py checks the task before that await only.        *)
(***************************************************************************)
OnePoller ==
    running /\ ~crossed =>
        /\ Live \subseteq {pollingTask}
        /\ Live # {} => pollingActive
        /\ phase \in {"after", "night"} /\ "stop" \notin due /\ joins = NoJoin
           => Live = {}

(***************************************************************************)
(* In the session of a trading day an engine that has done its start-up    *)
(* and its 09:25 job polls, whenever it was started; or the operator has   *)
(* been sent an error.                                                     *)
(***************************************************************************)
PolledOrTold ==
    running /\ phase = "session" /\ trading /\ "start" \notin due /\ at = Idle
    => Live # {} \/ told

(***************************************************************************)
(* A loop that ends during the session is noticed by the health check,     *)
(* if no alarm of the same kind is out already and nothing else changes.   *)
(***************************************************************************)
Stalled == /\ running /\ phase = "session" /\ Live = {} /\ due = {}
           /\ beat # "never"
StallNoticed == Stalled /\ "HEARTBEAT_STALE" \notin alerted
                ~> ~Stalled \/ "HEARTBEAT_STALE" \in alerted

(***************************************************************************)
(* stop() ends: every loop, also one it has no handle of, every start that *)
(* was under way and the stop itself come to an end.                       *)
(***************************************************************************)
StopEnds == up /\ ~running
            ~> \/ ~up
               \/ Live = {} /\ at = Idle /\ joins = NoJoin /\ closed

(***************************************************************************)
(* health_monitor.py:34, config.yaml:226: after poll_fail_threshold failed *)
(* cycles in a row an alert has been sent.                                 *)
(***************************************************************************)
FailuresTold == streak >= FailThreshold => "POLL_FAIL" \in alerted
=============================================================================
