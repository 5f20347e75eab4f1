---------------------------- MODULE PollingProofs ----------------------------
(***************************************************************************)
(* One polling loop, for any number of task identities and any threshold:  *)
(* however starts, stops, failing connections, cancellations, hours of the *)
(* clock and restarts interleave, unless a start awaiting its connection   *)
(* meets another start or the stop.  Then, that the session is polled or   *)
(* an error is out, which holds also where they meet.                      *)
(***************************************************************************)
EXTENDS Polling, FiniteSetTheorems, TLAPS

Places == {"idle", "ensuring", "screening", "connecting"}

Typed ==
    /\ at \in [Callers -> Places] /\ at["screen"] # "connecting"
    /\ loop \in [Tasks -> {"idle", "resting", "polling"}]
    /\ joins \in [Stoppers -> Tasks \cup {0}]

\* The starts that await connect().
Connecting == {w \in Starters : at[w] = "connecting"}

\* No process: nothing is under way.
Off == /\ ~running /\ Live = {} /\ at = Idle
       /\ joins = NoJoin /\ due = {}

\* The 15:35 job has begun its stop.
PastStop == phase \in {"after", "night"} /\ "stop" \notin due

Jobs ==
    /\ "start" \in due => phase = "session"
    /\ "stop" \in due => phase = "after"

Single ==
    /\ Live \subseteq {pollingTask}
    /\ Live # {} => pollingActive
    /\ Connecting # {} => Live = {} /\ ~PastStop
    /\ \A v, w \in Connecting : v = w
    /\ joins["job"] # 0 => /\ joins["job"] = pollingTask
                           /\ phase = "after" /\ PastStop
    /\ PastStop /\ joins["job"] = 0 => Live = {}

PollInv ==
    /\ Typed /\ Jobs
    /\ ~up => Off
    /\ running => joins["gui"] = 0
    /\ running /\ ~crossed => Single

\* Whatever is under way belongs to a process.
LEMMA Awake ==
    ASSUME PollInv
    PROVE  /\ running => up
           /\ Live # {} => up
           /\ \A w \in Callers : at[w] # "idle" => up
           /\ \A w \in Stoppers : joins[w] # 0 => up
BY DEF PollInv, Off, Idle, NoJoin

\* The steps that start no loop, stop none and await no connection anew.
LEMMA Quiet ==
    ASSUME PollInv, up, Typed',
           UNCHANGED <<up, pollingTask, pollingActive, joins, phase, crossed>>,
           running' => running,
           Live' \subseteq Live, Connecting' \subseteq Connecting,
           due' \subseteq due, "stop" \in due => "stop" \in due'
    PROVE  PollInv'
<1>1. PastStop' = PastStop /\ Jobs'
  BY DEF PastStop, Jobs, PollInv
<1>2. running /\ ~crossed => Single'
  BY <1>1 DEF PollInv, Single
<1> QED
  BY <1>1, <1>2 DEF PollInv

\* A loop is created: there was none, and no other start is awaiting.
LEMMA Created ==
    ASSUME PollInv, up, CreateLoop, UNCHANGED <<up, running, joins, phase>>,
           NEW w \in Starters, at' = [at EXCEPT ![w] = "idle"],
           due' \subseteq due, "stop" \in due => "stop" \in due',
           ~crossed' /\ running
               => ~crossed /\ Live = {} /\ ~PastStop /\ Connecting \subseteq {w}
    PROVE  PollInv'
<1>1. Typed'
  BY DEF PollInv, Typed, CreateLoop, Callers, Starters, Places
<1>2. Live' \subseteq Live \cup {pollingTask'} /\ pollingActive'
  BY DEF Live, CreateLoop, PollInv, Typed
<1>3. Connecting' = Connecting \ {w} /\ PastStop' = PastStop /\ Jobs'
  BY DEF Connecting, PollInv, Typed, PastStop, Jobs, Callers, Starters
<1>4. running /\ ~crossed' => Single'
  BY <1>2, <1>3 DEF PollInv, Single, PastStop
<1> QED
  BY <1>1, <1>3, <1>4 DEF PollInv

\* _start_polling in the session.
LEMMA Started ==
    ASSUME PollInv, up, phase = "session", NEW w \in Starters,
           at[w] # "connecting", StartPolling(w),
           UNCHANGED <<up, running, joins, phase>>,
           due' \subseteq due, "stop" \in due => "stop" \in due'
    PROVE  PollInv'
<1>1. ~PastStop /\ w \in Callers
  BY DEF PastStop, Callers
<1>2. CASE ~trading \/ HandleLive
  <2>1. at' = [at EXCEPT ![w] = "idle"]
        /\ UNCHANGED <<taskVars, pollingActive, crossed>>
    BY <1>2 DEF StartPolling
  <2>2. Typed' /\ Connecting' \subseteq Connecting /\ Live' = Live
    BY <1>1, <2>1 DEF PollInv, Typed, Connecting, Live, taskVars, Places, Callers
  <2> QED
    BY <2>1, <2>2, Quiet DEF taskVars
<1>3. CASE trading /\ ~HandleLive
  <2>1. /\ crossed' = (crossed \/ OtherConnecting(w))
        /\ IF connected
           THEN CreateLoop /\ at' = [at EXCEPT ![w] = "idle"]
           ELSE /\ at' = [at EXCEPT ![w] = "connecting"]
                /\ UNCHANGED <<taskVars, pollingActive>>
    BY <1>3 DEF StartPolling
  <2>2. ~crossed' /\ running
        => ~crossed /\ Live = {} /\ Connecting = {}
    BY <1>3, <2>1 DEF OtherConnecting, Connecting, HandleLive, PollInv, Single
  <2>3. CASE connected
    BY <1>1, <2>1, <2>2, <2>3, Created
  <2>4. CASE ~connected
    <3>1. Typed' /\ Live' = Live /\ UNCHANGED <<pollingTask, pollingActive>>
      <4>1. at' = [at EXCEPT ![w] = "connecting"] /\ w # "screen"
        BY <2>1, <2>4 DEF Starters
      <4>2. at' \in [Callers -> Places] /\ at'["screen"] # "connecting"
        BY <1>1, <4>1 DEF PollInv, Typed, Places, Callers
      <4> QED
        BY <2>1, <2>4, <4>2 DEF PollInv, Typed, Live, taskVars
    <3>2. PastStop' = PastStop /\ Jobs' /\ Connecting' \subseteq Connecting \cup {w}
      BY <2>1, <2>4 DEF PollInv, PastStop, Jobs, Connecting, Typed, Callers
    <3>3. running /\ ~crossed' => Single'
      BY <1>1, <2>2, <3>1, <3>2 DEF PollInv, Single, PastStop
    <3> QED
      BY <3>1, <3>2, <3>3 DEF PollInv
  <2> QED
    BY <2>3, <2>4
<1> QED
  BY <1>2, <1>3 DEF StartPolling

LEMMA Inductive ==
    /\ Init => PollInv
    /\ PollInv /\ [Next]_vars => PollInv'
<1>1. ASSUME Init PROVE PollInv
  BY <1>1 DEF Init, PollInv, Typed, Jobs, Off, Idle, NoJoin, Live, Callers,
              Starters, Stoppers, Places
<1>2. ASSUME PollInv, [Next]_vars PROVE PollInv'
  <2> USE Awake
  <2>1. CASE Boot
    <3>1. /\ ~up /\ Off /\ up' /\ Ensure("boot")
          /\ UNCHANGED <<loop, pollingTask, joins, pollingActive, phase, due, crossed>>
      BY <1>2, <2>1 DEF Boot, PollInv, taskVars, clockVars
    <3>2. Typed' /\ Connecting' = {} /\ Live' = {} /\ Jobs'
      BY <1>2, <3>1 DEF PollInv, Typed, Connecting, Live, Off, Idle, Ensure,
                        Callers, Starters, Places, Jobs
    <3>3. joins' = NoJoin
      BY <3>1 DEF Off
    <3> QED
      BY <3>1, <3>2, <3>3 DEF PollInv, Single, PastStop, NoJoin, Stoppers
  <2>2. CASE BootScreened
    <3>1. /\ at["boot"] = "screening" /\ up
          /\ UNCHANGED <<up, running, joins, phase, due>>
      BY <1>2, <2>2 DEF BootScreened, procVars, clockVars, Callers, Starters
    <3>2. CASE phase = "session"
      BY <1>2, <2>2, <3>1, <3>2, Started DEF BootScreened, InPollingWindow, Starters
    <3>3. CASE phase # "session"
      <4>1. at' = [at EXCEPT !["boot"] = "idle"]
            /\ UNCHANGED <<taskVars, pollingActive, crossed>>
        BY <2>2, <3>3 DEF BootScreened, InPollingWindow
      <4>2. Typed' /\ Live' = Live /\ Connecting' \subseteq Connecting
        BY <1>2, <3>1, <4>1 DEF PollInv, Typed, Live, Connecting, taskVars,
                                Callers, Starters, Places
      <4> QED
        BY <1>2, <3>1, <4>1, <4>2, Quiet DEF taskVars
    <3> QED
      BY <3>2, <3>3
  <2>3. CASE ScreenJob
    <3>1. /\ running /\ up /\ due' = due \ {"screen"} /\ Ensure("screen")
          /\ UNCHANGED <<up, running, loop, pollingTask, joins, pollingActive,
                         phase, crossed>>
      BY <1>2, <2>3 DEF ScreenJob, Job, procVars, taskVars, clockVars
    <3>2. Typed' /\ Live' = Live /\ Connecting' \subseteq Connecting
      BY <1>2, <3>1 DEF PollInv, Typed, Live, Connecting, Ensure, Callers,
                        Starters, Places
    <3> QED
      BY <1>2, <3>1, <3>2, Quiet
  <2>4. CASE StartJob
    <3>1. /\ phase = "session" /\ up /\ at["job"] # "connecting"
          /\ due' = due \ {"start"} /\ StartPolling("job")
          /\ UNCHANGED <<up, running, joins, phase>>
      BY <1>2, <2>4 DEF StartJob, Job, PollInv, Jobs, procVars, clockVars
    <3> QED
      BY <1>2, <3>1, Started DEF Starters
  <2>5. ASSUME NEW w \in Callers, Connected(w) PROVE PollInv'
    <3>1. up /\ UNCHANGED <<up, running, joins, phase, due, crossed>>
      BY <1>2, <2>5 DEF Connected, procVars, clockVars
    <3>2. CASE at[w] = "connecting" /\ CreateLoop /\ at' = [at EXCEPT ![w] = "idle"]
      <4>1. w \in Starters
        BY <1>2, <3>2 DEF PollInv, Typed, Callers
      <4>2. running /\ ~crossed => /\ Live = {} /\ ~PastStop
                                   /\ Connecting \subseteq {w}
        BY <1>2, <3>2, <4>1 DEF PollInv, Single, Connecting
      <4> QED
        BY <1>2, <3>1, <3>2, <4>1, <4>2, Created
    <3>3. CASE /\ at' = [at EXCEPT ![w] = IF w = "boot" THEN "screening" ELSE "idle"]
               /\ UNCHANGED <<taskVars, pollingActive>>
      <4>1. \E place \in {"idle", "screening"} : at' = [at EXCEPT ![w] = place]
        BY <3>3
      <4>2. Typed' /\ Live' = Live /\ Connecting' \subseteq Connecting
        BY <1>2, <3>1, <3>3, <4>1 DEF PollInv, Typed, Live, Connecting, taskVars,
                                Callers, Starters, Places
      <4> QED
        BY <1>2, <3>1, <3>3, <4>2, Quiet DEF taskVars
    <3> QED
      BY <2>5, <3>2, <3>3 DEF Connected
  <2>6. ASSUME NEW w \in Callers, ConnectFails(w) PROVE PollInv'
    <3>1. up /\ UNCHANGED <<up, running, loop, pollingTask, pollingActive, joins,
                            phase, due, crossed>>
      BY <1>2, <2>6 DEF ConnectFails, procVars, taskVars, clockVars
    <3>2. \E place \in {"idle", "screening"} : at' = [at EXCEPT ![w] = place]
      BY <2>6 DEF ConnectFails
    <3>3. Typed' /\ Live' = Live /\ Connecting' \subseteq Connecting
      BY <1>2, <3>1, <3>2 DEF PollInv, Typed, Live, Connecting, Callers,
                              Starters, Places
    <3> QED
      BY <1>2, <3>1, <3>3, Quiet
  <2>7. ASSUME NEW t \in Tasks, LoopStep(t) PROVE PollInv'
    <3>1. /\ loop[t] # "idle"
          /\ UNCHANGED <<up, running, at, pollingTask, pollingActive, joins,
                         phase, due, crossed>>
      BY <2>7 DEF LoopStep, Cycle, CycleSucceeds, CycleFails, CycleEnds, LoopEnded,
                  LoopEnds, LoopFails, procVars, clockVars
    <3>2. \/ loop' = loop
          \/ \E place \in {"idle", "resting", "polling"} :
                 loop' = [loop EXCEPT ![t] = place]
      BY <2>7 DEF LoopStep, Cycle, CycleSucceeds, CycleFails, CycleEnds, LoopEnded,
                  LoopFails
    <3>3. Typed' /\ Live' \subseteq Live /\ Connecting' = Connecting /\ up
      BY <1>2, <3>1, <3>2 DEF PollInv, Typed, Live, Connecting
    <3> QED
      BY <1>2, <3>1, <3>3, Quiet
  <2>8. CASE GuiStop
    <3>1. /\ running /\ up /\ ~running'
          /\ UNCHANGED <<up, at, loop, phase, due>>
      BY <1>2, <2>8 DEF GuiStop, clockVars
    <3>2. joins' = joins \/ (HandleLive /\ joins' = [joins EXCEPT !["gui"] = pollingTask])
      BY <2>8 DEF GuiStop, StopPolling
    <3>3. Typed' /\ Jobs'
      BY <1>2, <3>1, <3>2 DEF PollInv, Typed, Jobs, HandleLive, Live, Stoppers
    <3> QED
      BY <3>1, <3>3 DEF PollInv
  <2>9. CASE StopJob
    <3>1. /\ running /\ up /\ "stop" \in due /\ phase = "after"
          /\ due' = due \ {"stop"} /\ joins["job"] = 0 /\ StopPolling("job")
          /\ UNCHANGED <<up, running, at, loop, pollingTask, pollingActive, phase>>
      BY <1>2, <2>9 DEF StopJob, Job, PollInv, Jobs, procVars, clockVars
    <3>2. CASE HandleLive
      <4>1. joins' = [joins EXCEPT !["job"] = pollingTask] /\ crossed' = crossed
        BY <3>1, <3>2 DEF StopPolling
      <4>2. pollingTask \in Tasks /\ pollingTask # 0 /\ Live # {}
        BY <3>2, PollingAssumption DEF HandleLive, Live
      <4>3. Typed' /\ joins'["job"] = pollingTask /\ joins'["gui"] = joins["gui"]
        BY <1>2, <3>1, <4>1, <4>2 DEF PollInv, Typed, Stoppers
      <4>4. PastStop' /\ Jobs' /\ Live' = Live /\ Connecting' = Connecting
        BY <1>2, <3>1 DEF PastStop, Jobs, Live, Connecting, PollInv
      <4> QED
        BY <1>2, <3>1, <4>1, <4>2, <4>3, <4>4 DEF PollInv, Single
    <3>3. CASE ~HandleLive
      <4>1. /\ crossed' = (crossed \/ Connecting # {}) /\ joins' = joins
        BY <3>1, <3>3 DEF StopPolling, Connecting
      <4>2. Typed' /\ Jobs' /\ Live' = Live /\ Connecting' = Connecting
        BY <1>2, <3>1, <4>1 DEF Typed, Jobs, Live, Connecting, PollInv
      <4> QED
        BY <1>2, <3>1, <3>3, <4>1, <4>2 DEF PollInv, Single, HandleLive
    <3> QED
      BY <3>2, <3>3
  <2>10. ASSUME NEW w \in Stoppers, StopPolled(w) PROVE PollInv'
    <3>1. /\ joins[w] # 0 /\ joins[w] \notin Live /\ up
          /\ joins' = [joins EXCEPT ![w] = 0] /\ pollingTask' = 0
          /\ UNCHANGED <<up, running, at, loop, phase, due, crossed>>
      BY <1>2, <2>10 DEF StopPolled, Joined, procVars, clockVars
    <3>2. Typed' /\ Jobs' /\ Live' = Live /\ Connecting' = Connecting
          /\ PastStop' = PastStop
      BY <1>2, <3>1 DEF PollInv, Typed, Jobs, Live, Connecting, PastStop
    <3>3. CASE running
      <4>1. w = "job" /\ joins["gui"] = 0
        BY <1>2, <3>1, <3>3 DEF PollInv, Stoppers
      <4>2. joins'["gui"] = 0 /\ joins'["job"] = 0
        BY <1>2, <3>1, <4>1 DEF PollInv, Typed, Stoppers
      <4>3. ~crossed => Live = {}
        BY <1>2, <3>1, <3>3, <4>1 DEF PollInv, Single
      <4> QED
        BY <1>2, <3>1, <3>2, <3>3, <4>2, <4>3 DEF PollInv, Single
    <3> QED
      BY <3>1, <3>2, <3>3 DEF PollInv
  <2>11. CASE Closed
    BY <1>2, <2>11 DEF Closed, PollInv, Typed, Jobs, taskVars, clockVars
  <2>12. CASE Gone
    <3>1. /\ ~up' /\ ~running' /\ at' = Idle /\ joins' = NoJoin /\ due' = {}
          /\ loop' = [t \in Tasks |-> "idle"]
      BY <2>12 DEF Gone, Blank
    <3> QED
      BY <3>1 DEF PollInv, Typed, Jobs, Off, Idle, NoJoin, Live, Callers,
                  Starters, Stoppers, Places
  <2>13. CASE HealthCheck \/ TimePasses
    <3>1. UNCHANGED <<up, running, at, loop, pollingTask, joins, pollingActive,
                      phase, due, crossed>>
      BY <2>13 DEF HealthCheck, TimePasses, procVars, taskVars, clockVars
    <3> QED
      BY <1>2, <3>1 DEF PollInv, Typed, Jobs, Off, Live, Connecting, PastStop, Single
  <2>14. CASE ResetJob
    <3>1. /\ up /\ due' = due \ {"reset"}
          /\ UNCHANGED <<up, running, at, loop, pollingTask, joins, pollingActive,
                         phase, crossed>>
      BY <1>2, <2>14 DEF ResetJob, Job, procVars, taskVars, clockVars
    <3>2. Typed' /\ Live' = Live /\ Connecting' = Connecting
      BY <1>2, <3>1 DEF PollInv, Typed, Live, Connecting
    <3> QED
      BY <1>2, <3>1, <3>2, Quiet
  <2>15. CASE Clock
    <3>1. /\ due = {} /\ joins["job"] = 0
          /\ UNCHANGED <<up, running, at, loop, pollingTask, joins, pollingActive,
                         crossed>>
      BY <2>15 DEF Clock, procVars, taskVars
    <3>2. /\ ~running => due' = {}
          /\ due' # {} \/ ~running
          /\ \/ phase = "after" /\ phase' = "night" /\ "stop" \notin due'
                /\ "start" \notin due'
             \/ phase' = "open" /\ "stop" \notin due' /\ "start" \notin due'
             \/ phase' = "session" /\ "stop" \notin due'
             \/ phase' = "after" /\ due' = (IF running THEN {"stop"} ELSE {})
      BY <2>15 DEF Clock, At
    <3>3. Typed' /\ Jobs' /\ Live' = Live /\ Connecting' = Connecting
      BY <1>2, <3>1, <3>2 DEF PollInv, Typed, Jobs, Live, Connecting
    <3>4. running => (PastStop' => PastStop)
      BY <3>1, <3>2 DEF PastStop
    <3> QED
      BY <1>2, <3>1, <3>2, <3>3, <3>4 DEF PollInv, Single, Off
  <2>16. CASE UNCHANGED vars
    BY <1>2, <2>16 DEF PollInv, Typed, Jobs, Off, Live, Connecting, PastStop, Single,
                       vars, procVars, taskVars, clockVars
  <2> QED
    BY <1>2, <2>1, <2>2, <2>3, <2>4, <2>5, <2>6, <2>7, <2>8, <2>9, <2>10, <2>11,
       <2>12, <2>13, <2>14, <2>15, <2>16
    DEF Next, StartStep, StopStep
<1> QED
  BY <1>1, <1>2

(***************************************************************************)
(* At most one loop polls and _polling_task is it; after 15:35 none does.  *)
(* The one way out is a start that awaits connect() while another start or *)
(* the stop runs.                                                          *)
(***************************************************************************)
THEOREM PollerUnique == Spec => []OnePoller
<1>1. PollInv => OnePoller
  BY DEF PollInv, Single, PastStop, OnePoller, NoJoin, Stoppers
<1> QED
  BY <1>1, Inductive, PTL DEF Spec

----------------------------------------------------------------------------
(* The identities: a task is created only while at most two are in use, so *)
(* there is always a third.                                                *)

Booting == at["boot"] # "idle"
JobConnecting == at["job"] = "connecting"

\* No task runs and none is awaited, but o.
Only(o) == Live \subseteq {o} /\ \A w \in Stoppers : joins[w] \in {0, o}

FewTasks ==
    /\ joins["job"] # 0 => phase = "after"
    /\ Booting \/ JobConnecting => \E o \in Tasks \cup {0} : Only(o)
    /\ Booting => Live \subseteq {pollingTask}
    /\ Booting /\ JobConnecting => Only(0)
    /\ running /\ ~Booting /\ ~JobConnecting
       => \E o \in Tasks \cup {0} : /\ Live \subseteq {o, pollingTask}
                                    /\ joins["job"] \in {0, o, pollingTask}

\* A task that can be created.
Free(t) == /\ t \in Tasks /\ loop[t] = "idle" /\ t # pollingTask
           /\ \A w \in Stoppers : joins[w] # t

LEMMA Third ==
    ASSUME NEW a, NEW b
    PROVE  \E t \in Tasks : t # a /\ t # b
<1> DEFINE S == Tasks \ {a}
           R == S \ {b}
<1>1. IsFiniteSet(S) /\ Cardinality(S) >= 2
  <2>1. IsFiniteSet(Tasks) /\ Cardinality(Tasks) \in Nat /\ Cardinality(Tasks) >= 3
    BY PollingAssumption, FS_CardinalityType
  <2> QED
    BY <2>1, FS_RemoveElement
<1>2. IsFiniteSet(R) /\ Cardinality(R) >= 1
  <2>1. Cardinality(S) \in Nat
    BY <1>1, FS_CardinalityType
  <2> HIDE DEF S
  <2> QED
    BY <1>1, <2>1, FS_RemoveElement
<1>3. R # {}
  BY <1>2, FS_EmptySet
<1> QED
  BY <1>3

\* The task the model creates is free when at most o and the handle are held.
LEMMA NewFits ==
    ASSUME Typed, NEW o, Live \subseteq {o, pollingTask},
           \A w \in Stoppers : joins[w] \in {0, o, pollingTask}
    PROVE  Free(NewTask)
<1>1. PICK t \in Tasks : t # o /\ t # pollingTask
  BY Third
<1>2. t # 0
  BY PollingAssumption
<1>3. loop[t] = "idle"
  BY <1>1 DEF Live
<1>4. \A w \in Stoppers : joins[w] # t
  BY <1>1, <1>2
<1> DEFINE P(u) == /\ loop[u] = "idle" /\ u # pollingTask
                   /\ \A w \in Stoppers : joins[w] # u
<1>5. NewTask = CHOOSE u \in Tasks : P(u)
  BY DEF NewTask
<1>6. P(t)
  BY <1>1, <1>3, <1>4
<1> HIDE DEF P
<1>7. NewTask \in Tasks /\ P(NewTask)
  BY <1>5, <1>6
<1> QED
  BY <1>7 DEF P, Free

\* A loop is created: the handle names it, and nothing else changes place.
LEMMA Creates ==
    ASSUME Typed, CreateLoop, Free(NewTask)
    PROVE  /\ pollingTask' = NewTask /\ pollingTask' \in Tasks
           /\ Live' = Live \cup {pollingTask'}
           /\ pollingActive' = TRUE /\ cancelled' = cancelled
BY DEF Typed, CreateLoop, Free, Live

\* Wherever a loop can be created there is a free task.
LEMMA Room ==
    ASSUME PollInv, FewTasks, Booting \/ JobConnecting \/ running
    PROVE  Free(NewTask)
<1>1. CASE Booting \/ JobConnecting
  <2>1. PICK o \in Tasks \cup {0} : Only(o)
    BY <1>1 DEF FewTasks
  <2> QED
    BY <2>1, NewFits DEF Only, PollInv
<1>2. CASE running /\ ~Booting /\ ~JobConnecting
  <2>1. PICK o \in Tasks \cup {0} : /\ Live \subseteq {o, pollingTask}
                                    /\ joins["job"] \in {0, o, pollingTask}
    BY <1>2 DEF FewTasks
  <2>2. \A w \in Stoppers : joins[w] \in {0, o, pollingTask}
    BY <1>2, <2>1 DEF PollInv, Stoppers
  <2> QED
    BY <2>1, <2>2, NewFits DEF PollInv
<1> QED
  BY <1>1, <1>2

\* The steps that create no task and await none.
LEMMA Fewer ==
    ASSUME FewTasks, UNCHANGED <<joins, pollingTask>>, Live' \subseteq Live,
           Booting' => Booting, JobConnecting' => JobConnecting,
           running' => running, joins["job"] # 0 => phase' = phase
    PROVE  FewTasks'
<1>1. \A o : Only(o) => Only(o)'
  BY DEF Only
<1>2. Booting \/ JobConnecting => \E o \in Tasks \cup {0} : Only(o) /\ Only(o)'
  BY <1>1 DEF FewTasks
<1>3. Only(0) => Only(0)'
  BY <1>1
<1>4. running' /\ ~Booting' /\ ~JobConnecting'
      => \E o \in Tasks \cup {0} : /\ Live \subseteq {o, pollingTask}
                                   /\ joins["job"] \in {0, o, pollingTask}
  BY <1>2 DEF FewTasks, Only, Stoppers
<1> QED
  BY <1>2, <1>3, <1>4 DEF FewTasks

\* A start goes on to connect, or begins its loop, where nothing is polled.
LEMMA StartFew ==
    ASSUME PollInv, FewTasks, phase = "session", running \/ Booting,
           NEW w \in Starters, at[w] # "connecting", w = "boot" => Booting,
           w = "job" => running,
           StartPolling(w), UNCHANGED <<running, joins, phase>>
    PROVE  FewTasks'
<1> USE DEF Starters
<1>1. w \in Callers /\ at \in [Callers -> Places] /\ joins["job"] = 0
  BY DEF Callers, PollInv, Typed, FewTasks
<1>2. CASE ~trading \/ HandleLive
  <2>1. at' = [at EXCEPT ![w] = "idle"] /\ UNCHANGED <<loop, pollingTask>>
    BY <1>2 DEF StartPolling, taskVars
  <2>2. /\ Live' = Live
        /\ Booting' => Booting
        /\ JobConnecting' => JobConnecting
    BY <1>1, <2>1 DEF Live, Booting, JobConnecting, Callers
  <2> QED
    BY <2>1, <2>2, Fewer
<1>3. CASE trading /\ ~HandleLive
  <2>1. pollingTask \notin Live
    BY <1>3 DEF HandleLive
  <2>2. PICK o \in Tasks \cup {0} : Only(o)
    <3>1. CASE Booting \/ JobConnecting
      BY <3>1 DEF FewTasks
    <3>2. CASE running /\ ~Booting /\ ~JobConnecting
      <4>1. PICK o \in Tasks \cup {0} : Live \subseteq {o, pollingTask}
        BY <3>2 DEF FewTasks
      <4>2. Live \subseteq {o} /\ joins["gui"] = 0
        BY <2>1, <3>2, <4>1 DEF PollInv
      <4> QED
        BY <1>1, <4>2 DEF Only, Stoppers
    <3> QED
      BY <3>1, <3>2
  <2>3. Booting => Live = {}
    BY <2>1 DEF FewTasks
  <2>4. w = "job" /\ Booting => Only(0)
    <3>1. running /\ w = "job" => joins["gui"] = 0
      BY DEF PollInv
    <3> QED
      BY <1>1, <2>3, <3>1 DEF Only, Stoppers
  <2>5. CASE connected
    <3>1. at' = [at EXCEPT ![w] = "idle"] /\ CreateLoop /\ Free(NewTask)
      BY <1>3, <2>5, Room DEF StartPolling
    <3>2. /\ pollingTask' \in Tasks /\ Live' = Live \cup {pollingTask'}
      BY <3>1, Creates DEF PollInv
    <3>3. CASE w = "boot"
      <4>1. ~Booting' /\ JobConnecting' = JobConnecting /\ Booting
        BY <1>1, <3>1, <3>3 DEF Booting, JobConnecting, Callers
      <4>2. JobConnecting' => Only(pollingTask)'
        BY <2>3, <3>2, <4>1 DEF FewTasks, Only
      <4>3. Live' \subseteq {o, pollingTask'} /\ joins'["job"] = 0
        BY <1>1, <2>2, <3>2 DEF Only
      <4> QED
        BY <1>1, <3>2, <4>1, <4>2, <4>3 DEF FewTasks
    <3>4. CASE w = "job"
      <4>1. ~JobConnecting' /\ Booting' = Booting
        BY <1>1, <3>1, <3>4 DEF Booting, JobConnecting, Callers
      <4>2. Booting' => Only(pollingTask)'
        BY <2>3, <2>4, <3>2, <3>4, <4>1 DEF Only
      <4>3. Live' \subseteq {o, pollingTask'} /\ joins'["job"] = 0
        BY <1>1, <2>2, <3>2 DEF Only
      <4>4. Booting' => Live' \subseteq {pollingTask'}
        BY <2>3, <3>2, <4>1
      <4> QED
        BY <1>1, <3>2, <4>1, <4>2, <4>3, <4>4 DEF FewTasks
    <3> QED
      BY <3>3, <3>4
  <2>6. CASE ~connected
    <3>1. at' = [at EXCEPT ![w] = "connecting"] /\ UNCHANGED <<loop, pollingTask>>
      BY <1>3, <2>6 DEF StartPolling, taskVars
    <3>2. Live' = Live /\ \A u : Only(u)' = Only(u)
      BY <3>1 DEF Live, Only
    <3>3. CASE w = "boot"
      <4>1. Booting /\ JobConnecting' = JobConnecting /\ Booting'
        BY <1>1, <3>1, <3>3 DEF Booting, JobConnecting, Callers
      <4> QED
        BY <1>1, <2>2, <3>1, <3>2, <4>1 DEF FewTasks
    <3>4. CASE w = "job"
      <4>1. JobConnecting' /\ Booting' = Booting
        BY <1>1, <3>1, <3>4 DEF Booting, JobConnecting, Callers
      <4> QED
        BY <1>1, <2>2, <2>3, <2>4, <3>1, <3>2, <3>4, <4>1 DEF FewTasks
    <3> QED
      BY <3>3, <3>4
  <2> QED
    BY <2>5, <2>6
<1> QED
  BY <1>2, <1>3

\* No process holds more than two tasks when it may create another.
LEMMA FewKept ==
    ASSUME PollInv, FewTasks, pollingTask \in Tasks \cup {0}, [Next]_vars
    PROVE  FewTasks'
<1> USE Awake
<1>1. CASE Boot
  <2>1. /\ ~up /\ Off /\ Ensure("boot")
        /\ UNCHANGED <<loop, pollingTask, joins>>
    BY <1>1 DEF Boot, PollInv, taskVars
  <2>2. Live' = {} /\ joins' = NoJoin /\ JobConnecting' = FALSE
    BY <2>1 DEF Off, Live, Idle, Ensure, JobConnecting, Callers, Starters
  <2>3. Booting'
    BY <2>1 DEF Off, Idle, Ensure, Booting, Callers, Starters
  <2>4. Only(0)'
    BY <2>2 DEF Only, NoJoin
  <2> QED
    BY <2>2, <2>3, <2>4 DEF FewTasks, NoJoin, Stoppers
<1>2. CASE BootScreened
  <2>1. /\ Booting /\ at["boot"] # "connecting"
        /\ UNCHANGED <<running, joins, phase>>
    BY <1>2 DEF BootScreened, Booting, procVars, clockVars
  <2>2. CASE phase = "session"
    BY <1>2, <2>1, <2>2, StartFew DEF BootScreened, InPollingWindow, Starters
  <2>3. CASE phase # "session"
    <3>1. at' = [at EXCEPT !["boot"] = "idle"] /\ UNCHANGED <<loop, pollingTask>>
      BY <1>2, <2>3 DEF BootScreened, InPollingWindow, taskVars
    <3>2. Live' = Live /\ JobConnecting' = JobConnecting /\ Booting
      BY <2>1, <3>1 DEF Live, JobConnecting, PollInv, Typed
    <3> QED
      BY <2>1, <3>1, <3>2, Fewer
  <2> QED
    BY <2>2, <2>3
<1>3. CASE ScreenJob
  <2>1. Ensure("screen") /\ UNCHANGED <<running, loop, pollingTask, joins, phase>>
    BY <1>3 DEF ScreenJob, procVars, taskVars, clockVars
  <2>2. Live' = Live /\ Booting' = Booting /\ JobConnecting' = JobConnecting
    BY <2>1 DEF Live, Booting, JobConnecting, Ensure, PollInv, Typed
  <2> QED
    BY <2>1, <2>2, Fewer
<1>4. CASE StartJob
  <2>1. /\ running /\ phase = "session" /\ at["job"] # "connecting"
        /\ StartPolling("job") /\ UNCHANGED <<running, joins, phase>>
    BY <1>4 DEF StartJob, Job, PollInv, Jobs, procVars, clockVars
  <2> QED
    BY <2>1, StartFew DEF Starters
<1>5. ASSUME NEW w \in Callers, Connected(w) PROVE FewTasks'
  <2>1. UNCHANGED <<running, joins, phase>>
    BY <1>5 DEF Connected, procVars, clockVars
  <2>2. CASE at[w] = "connecting" /\ CreateLoop /\ at' = [at EXCEPT ![w] = "idle"]
    <3>1. w \in Starters
      BY <2>2 DEF PollInv, Typed, Callers
    <3>2. Booting \/ JobConnecting
      BY <2>2, <3>1 DEF Booting, JobConnecting, Starters
    <3>3. /\ pollingTask' \in Tasks /\ Live' = Live \cup {pollingTask'}
      BY <2>2, <3>2, Room, Creates DEF PollInv
    <3>4. PICK o \in Tasks \cup {0} : Only(o)
      BY <3>2 DEF FewTasks
    <3>5. Booting /\ JobConnecting => Only(pollingTask)'
      BY <2>1, <3>3, PollingAssumption DEF FewTasks, Only, Live
    <3>6. /\ Live' \subseteq {o, pollingTask'}
          /\ joins'["job"] \in {0, o, pollingTask'}
      BY <2>1, <3>3, <3>4 DEF Only, Stoppers
    <3>7. CASE w = "boot"
      <4>1. ~Booting' /\ JobConnecting' = JobConnecting /\ Booting
        BY <2>2, <3>7 DEF Booting, JobConnecting, PollInv, Typed, Callers, Starters
      <4> QED
        BY <2>1, <3>3, <3>5, <3>6, <4>1 DEF FewTasks
    <3>8. CASE w = "job"
      <4>1. ~JobConnecting' /\ Booting' = Booting /\ JobConnecting
        BY <2>2, <3>8 DEF Booting, JobConnecting, PollInv, Typed, Callers, Starters
      <4>2. Booting' => Live' \subseteq {pollingTask'}
        BY <3>5, <4>1 DEF Only
      <4> QED
        BY <2>1, <3>3, <3>5, <3>6, <4>1, <4>2 DEF FewTasks
    <3> QED
      BY <3>1, <3>7, <3>8 DEF Starters
  <2>3. CASE /\ at[w] = "ensuring"
             /\ at' = [at EXCEPT ![w] = IF w = "boot" THEN "screening" ELSE "idle"]
             /\ UNCHANGED <<taskVars, pollingActive>>
    <3>1. /\ Live' = Live /\ pollingTask' = pollingTask
          /\ Booting' => Booting
          /\ JobConnecting' => JobConnecting
      BY <2>3 DEF Live, taskVars, Booting, JobConnecting, PollInv, Typed, Callers,
                  Starters
    <3> QED
      BY <2>1, <3>1, Fewer
  <2> QED
    BY <1>5, <2>2, <2>3 DEF Connected
<1>6. ASSUME NEW w \in Callers, ConnectFails(w) PROVE FewTasks'
  <2>1. /\ at[w] \in {"ensuring", "connecting"}
        /\ \E place \in {"idle", "screening"} : at' = [at EXCEPT ![w] = place]
        /\ UNCHANGED <<running, loop, pollingTask, joins, phase>>
    BY <1>6 DEF ConnectFails, procVars, taskVars, clockVars
  <2>2. /\ Live' = Live
        /\ Booting' => Booting
        /\ JobConnecting' => JobConnecting
    BY <2>1 DEF Live, Booting, JobConnecting, PollInv, Typed, Callers, Starters
  <2> QED
    BY <2>1, <2>2, Fewer
<1>7. ASSUME NEW t \in Tasks, LoopStep(t) PROVE FewTasks'
  <2>1. /\ loop[t] # "idle"
        /\ UNCHANGED <<running, at, pollingTask, joins, phase>>
    BY <1>7 DEF LoopStep, Cycle, CycleSucceeds, CycleFails, CycleEnds, LoopEnded,
                LoopEnds, LoopFails, procVars, clockVars
  <2>2. \/ loop' = loop
        \/ \E place \in {"idle", "resting", "polling"} :
               loop' = [loop EXCEPT ![t] = place]
    BY <1>7 DEF LoopStep, Cycle, CycleSucceeds, CycleFails, CycleEnds, LoopEnded,
                LoopFails
  <2>3. Live' \subseteq Live /\ Booting' = Booting /\ JobConnecting' = JobConnecting
    BY <2>1, <2>2 DEF Live, PollInv, Typed, Booting, JobConnecting
  <2> QED
    BY <2>1, <2>3, Fewer
<1>8. CASE GuiStop
  <2>1. ~running' /\ UNCHANGED <<at, loop, pollingTask, phase>> /\ StopPolling("gui")
    BY <1>8 DEF GuiStop, clockVars
  <2>2. Live' = Live /\ Booting' = Booting /\ JobConnecting' = JobConnecting
    BY <2>1 DEF Live, Booting, JobConnecting
  <2>3. \A o \in Tasks \cup {0} : Only(o) => Only(o)'
    BY <2>1, <2>2 DEF StopPolling, HandleLive, Only, PollInv, Typed
  <2>4. joins'["job"] = joins["job"]
    BY <2>1 DEF StopPolling, PollInv, Typed, Stoppers
  <2> QED
    BY <2>1, <2>2, <2>3, <2>4 DEF FewTasks
<1>9. CASE StopJob
  <2>1. /\ phase = "after" /\ StopPolling("job")
        /\ UNCHANGED <<running, at, loop, pollingTask, phase>>
    BY <1>9 DEF StopJob, Job, PollInv, Jobs, procVars, clockVars
  <2>2. Live' = Live /\ Booting' = Booting /\ JobConnecting' = JobConnecting
    BY <2>1 DEF Live, Booting, JobConnecting
  <2>3. \A o \in Tasks \cup {0} : Only(o) => Only(o)'
    BY <2>1, <2>2 DEF StopPolling, HandleLive, Only, PollInv, Typed
  <2>4. joins'["job"] \in {joins["job"], pollingTask}
    BY <2>1 DEF StopPolling, PollInv, Typed, Stoppers
  <2> QED
    BY <2>1, <2>2, <2>3, <2>4 DEF FewTasks
<1>10. ASSUME NEW w \in Stoppers, StopPolled(w) PROVE FewTasks'
  <2>1. /\ joins[w] # 0 /\ joins[w] \notin Live
        /\ joins' = [joins EXCEPT ![w] = 0] /\ pollingTask' = 0
        /\ UNCHANGED <<running, at, loop, phase>>
    BY <1>10 DEF StopPolled, Joined, procVars, clockVars
  <2>2. Live' = Live /\ Booting' = Booting /\ JobConnecting' = JobConnecting
    BY <2>1 DEF Live, Booting, JobConnecting
  <2>3. \A o \in Tasks \cup {0} : Only(o) => Only(o)' /\ Live = {}
    <3>1. SUFFICES ASSUME NEW o \in Tasks \cup {0}, Only(o)
                   PROVE  Only(o)' /\ Live = {}
      OBVIOUS
    <3>2. joins[w] = o
      BY <2>1, <3>1 DEF Only
    <3>3. Live = {}
      BY <2>1, <3>1, <3>2 DEF Only
    <3>4. \A v \in Stoppers : joins'[v] \in {0, o}
      BY <2>1, <3>1 DEF Only, PollInv, Typed
    <3> QED
      BY <2>2, <3>3, <3>4 DEF Only
  <2>4. joins'["job"] \in {0, joins["job"]}
    BY <2>1 DEF PollInv, Typed, Stoppers
  <2>5. running /\ ~Booting /\ ~JobConnecting
        => \E o \in Tasks \cup {0} : Live \subseteq {o} /\ joins'["job"] = 0
    <3>1. SUFFICES ASSUME running, ~Booting, ~JobConnecting
                   PROVE  \E o \in Tasks \cup {0} : Live \subseteq {o} /\ joins'["job"] = 0
      OBVIOUS
    <3>2. w = "job" /\ joins'["job"] = 0
      BY <2>1, <3>1 DEF PollInv, Typed, Stoppers
    <3>3. PICK o \in Tasks \cup {0} : /\ Live \subseteq {o, pollingTask}
                                      /\ joins["job"] \in {0, o, pollingTask}
      BY <3>1 DEF FewTasks
    <3>4. Live \subseteq {o} \/ Live \subseteq {pollingTask}
      BY <2>1, <3>2, <3>3
    <3> QED
      BY <3>2, <3>4
  <2> QED
    BY <2>1, <2>2, <2>3, <2>4, <2>5 DEF FewTasks
<1>11. CASE Closed
  BY <1>11, Fewer DEF Closed, taskVars, clockVars, Live, Booting, JobConnecting
<1>12. CASE Gone
  <2>1. /\ ~running' /\ at' = Idle /\ joins' = NoJoin
    BY <1>12 DEF Gone, Blank
  <2>2. ~Booting' /\ ~JobConnecting' /\ joins'["job"] = 0
    BY <2>1 DEF Booting, JobConnecting, Idle, NoJoin, Callers, Starters, Stoppers
  <2> QED
    BY <2>1, <2>2 DEF FewTasks
<1>13. CASE HealthCheck \/ TimePasses \/ ResetJob
  <2>1. UNCHANGED <<running, at, loop, pollingTask, joins, phase>>
    BY <1>13 DEF HealthCheck, TimePasses, ResetJob, procVars, taskVars, clockVars
  <2> QED
    BY <2>1, Fewer DEF Live, Booting, JobConnecting
<1>14. CASE Clock
  <2>1. joins["job"] = 0 /\ UNCHANGED <<running, at, loop, pollingTask, joins>>
    BY <1>14 DEF Clock, procVars, taskVars
  <2> QED
    BY <2>1, Fewer DEF Live, Booting, JobConnecting
<1>15. CASE UNCHANGED vars
  BY <1>15, Fewer DEF vars, procVars, taskVars, clockVars, Live, Booting, JobConnecting
<1> QED
  BY <1>1, <1>2, <1>3, <1>4, <1>5, <1>6, <1>7, <1>8, <1>9, <1>10, <1>11,
     <1>12, <1>13, <1>14, <1>15
  DEF Next, StartStep, StopStep

----------------------------------------------------------------------------
(* The other variables, and what keeps the session polled.                 *)

Flags == /\ up \in BOOLEAN /\ running \in BOOLEAN /\ closed \in BOOLEAN
         /\ connected \in BOOLEAN /\ pollingActive \in BOOLEAN
         /\ told \in BOOLEAN /\ crossed \in BOOLEAN /\ trading \in BOOLEAN

Counts == failures \in 0..FailThreshold /\ streak \in 0..FailThreshold

Marks == /\ alerted \subseteq {"POLL_FAIL", "HEARTBEAT_STALE"}
         /\ beat \in {"never", "fresh", "stale"} /\ phase \in Phases
         /\ due \subseteq {"screen", "reset", "start", "stop"}

Held == pollingTask \in Tasks \cup {0} /\ cancelled \subseteq Tasks

\* Only the stop cancels, and a session left without a loop has told of it.
Polls ==
    /\ ~up => cancelled = {}
    /\ running /\ phase # "after" => cancelled = {}
    /\ running /\ phase = "session" /\ trading /\ "start" \notin due
       => Live # {} \/ told \/ JobConnecting \/ Booting

DayInv == /\ PollInv /\ FewTasks /\ Polls
          /\ Flags /\ Counts /\ Marks /\ Held

LEMMA FlagsKept ==
    ASSUME Flags, [Next]_vars
    PROVE  Flags'
<1>1. UNCHANGED trading \/ trading' \in BOOLEAN
  BY DEF Next, Boot, StartStep, BootScreened, ScreenJob, StartJob, Connected,
         ConnectFails, LoopStep, Cycle, CycleSucceeds, CycleFails, CycleEnds,
         LoopEnded, LoopFails, GuiStop, StopStep, StopJob, StopPolled, Closed, Gone,
         HealthCheck, ResetJob, TimePasses, Clock, vars, clockVars
<1>2. /\ up' \in {up, TRUE, FALSE} /\ running' \in {running, TRUE, FALSE}
      /\ closed' \in {closed, TRUE, FALSE} /\ connected' \in {connected, TRUE, FALSE}
  BY DEF Next, Boot, StartStep, BootScreened, ScreenJob, StartJob, Connected,
         ConnectFails, LoopStep, Cycle, CycleSucceeds, CycleFails, CycleEnds,
         LoopEnded, LoopFails, GuiStop, StopStep, StopJob, StopPolled, Closed, Gone,
         Blank, HealthCheck, ResetJob, TimePasses, Clock, vars, procVars
<1>3. /\ pollingActive' \in {pollingActive, TRUE, FALSE}
      /\ told' \in {told, TRUE, FALSE}
  BY DEF Next, Boot, StartStep, BootScreened, ScreenJob, StartJob, Connected,
         ConnectFails, LoopStep, Cycle, CycleSucceeds, CycleFails, CycleEnds,
         LoopEnded, LoopFails, GuiStop, StopStep, StopJob, StopPolled, Closed, Gone,
         Blank, HealthCheck, ResetJob, TimePasses, Clock, vars, SystemError,
         StartPolling, CreateLoop
<1>4. crossed' \in {crossed, TRUE, FALSE}
  BY DEF Next, Boot, StartStep, BootScreened, ScreenJob, StartJob, Connected,
         ConnectFails, LoopStep, Cycle, CycleSucceeds, CycleFails, CycleEnds,
         LoopEnded, LoopFails, GuiStop, StopStep, StopJob, StopPolled, Closed, Gone,
         Blank, HealthCheck, ResetJob, TimePasses, Clock, vars, StartPolling,
         StopPolling
<1>5. \A a, b : a \in BOOLEAN /\ b \in {a, TRUE, FALSE} => b \in BOOLEAN
  OBVIOUS
<1>6. /\ up' \in BOOLEAN /\ running' \in BOOLEAN
      /\ closed' \in BOOLEAN /\ connected' \in BOOLEAN
  BY <1>2, <1>5, Zenon DEF Flags
<1>7. /\ pollingActive' \in BOOLEAN /\ told' \in BOOLEAN
      /\ crossed' \in BOOLEAN /\ trading' \in BOOLEAN
  BY <1>1, <1>3, <1>4, <1>5, Zenon DEF Flags
<1> QED
  BY <1>6, <1>7, Zenon DEF Flags

LEMMA CountsKept ==
    ASSUME Counts, [Next]_vars
    PROVE  Counts'
<1> USE PollingAssumption
<1>1. \/ UNCHANGED failures \/ failures' = 0
      \/ failures' = IF failures < FailThreshold THEN failures + 1 ELSE failures
  BY DEF Next, Boot, StartStep, BootScreened, ScreenJob, StartJob, Connected,
         ConnectFails, LoopStep, Cycle, CycleSucceeds, CycleFails, CycleEnds,
         LoopEnded, LoopFails, GuiStop, StopStep, StopJob, StopPolled, Closed, Gone,
         Blank, Beat, HealthCheck, ResetJob, TimePasses, Clock, vars, healthVars
<1>2. \/ UNCHANGED streak \/ streak' = 0
      \/ streak' = IF streak < FailThreshold THEN streak + 1 ELSE streak
  BY DEF Next, Boot, StartStep, BootScreened, ScreenJob, StartJob, Connected,
         ConnectFails, LoopStep, Cycle, CycleSucceeds, CycleFails, CycleEnds,
         LoopEnded, LoopFails, GuiStop, StopStep, StopJob, StopPolled, Closed, Gone,
         Blank, HealthCheck, ResetJob, TimePasses, Clock, vars
<1> QED
  BY <1>1, <1>2 DEF Counts

LEMMA MarksKept ==
    ASSUME Marks, [Next]_vars
    PROVE  Marks'
<1>1. \/ alerted' \in {alerted, {}}
      \/ \E key \in {"POLL_FAIL", "HEARTBEAT_STALE"} : alerted' = alerted \cup {key}
  BY DEF Next, Boot, StartStep, BootScreened, ScreenJob, StartJob, Connected,
         ConnectFails, LoopStep, Cycle, CycleSucceeds, CycleFails, CycleEnds,
         LoopEnded, LoopFails, GuiStop, StopStep, StopJob, StopPolled, Closed, Gone,
         Blank, Alert, HealthCheck, ResetJob, TimePasses, Clock, vars, healthVars
<1>2. beat' \in {beat, "never", "fresh", "stale"}
  BY DEF Next, Boot, StartStep, BootScreened, ScreenJob, StartJob, Connected,
         ConnectFails, LoopStep, Cycle, CycleSucceeds, CycleFails, CycleEnds,
         LoopEnded, LoopFails, GuiStop, StopStep, StopJob, StopPolled, Closed, Gone,
         Blank, Beat, HealthCheck, ResetJob, TimePasses, Clock, vars, healthVars
<1>3. phase' \in Phases \cup {phase}
  BY DEF Next, Boot, StartStep, BootScreened, ScreenJob, StartJob, Connected,
         ConnectFails, LoopStep, Cycle, CycleSucceeds, CycleFails, CycleEnds,
         LoopEnded, LoopFails, GuiStop, StopStep, StopJob, StopPolled, Closed, Gone,
         HealthCheck, ResetJob, TimePasses, Clock, At, vars, clockVars, Phases
<1>4. \/ due' \subseteq due
      \/ due' \in {{}, {"screen"}, {"reset"}, {"start"}, {"stop"}}
  BY DEF Next, Boot, StartStep, BootScreened, ScreenJob, StartJob, Job, Connected,
         ConnectFails, LoopStep, Cycle, CycleSucceeds, CycleFails, CycleEnds,
         LoopEnded, LoopFails, GuiStop, StopStep, StopJob, StopPolled, Closed, Gone,
         Blank, HealthCheck, ResetJob, TimePasses, Clock, At, vars
<1> QED
  BY <1>1, <1>2, <1>3, <1>4 DEF Marks

\* How the handle and the cancelled tasks move.
LEMMA HeldKept ==
    ASSUME PollInv, FewTasks, Held, [Next]_vars
    PROVE  Held'
<1>1. \/ UNCHANGED <<pollingTask, cancelled>>
      \/ CreateLoop /\ (Booting \/ JobConnecting \/ running)
      \/ HandleLive /\ cancelled' = cancelled \cup {pollingTask} /\ UNCHANGED pollingTask
      \/ cancelled' \subseteq cancelled /\ pollingTask' \in {0, pollingTask}
  BY DEF Next, Boot, StartStep, BootScreened, ScreenJob, StartJob, Job, Connected,
         ConnectFails, LoopStep, Cycle, CycleSucceeds, CycleFails, CycleEnds,
         LoopEnded, LoopFails, GuiStop, StopStep, StopJob, StopPolled, Closed, Gone,
         Blank, HealthCheck, ResetJob, TimePasses, Clock, vars, taskVars,
         StartPolling, StopPolling, Booting, JobConnecting, Callers, Starters,
         PollInv, Typed
<1>2. CreateLoop /\ (Booting \/ JobConnecting \/ running)
      => cancelled' = cancelled /\ pollingTask' \in Tasks
  BY Room, Creates DEF PollInv
<1> QED
  BY <1>1, <1>2 DEF Held, HandleLive, Live

LEMMA PollsKept ==
    ASSUME DayInv, [Next]_vars
    PROVE  Polls'
<1> USE Awake DEF DayInv
\* Unless a step says otherwise, it leaves a session as polled as it was.
<1>a. ASSUME UNCHANGED <<phase, trading>>, cancelled' \subseteq cancelled,
             up => up', running' => running,
             Live # {} => Live' # {}, told => told',
             "start" \in due => "start" \in due',
             JobConnecting => JobConnecting' \/ told',
             Booting => Booting' \/ told'
      PROVE  Polls'
  BY <1>a DEF Polls
<1>1. CASE Boot
  <2>1. ~up /\ up' /\ cancelled' = cancelled /\ Ensure("boot") /\ at = Idle
    BY <1>1 DEF Boot, PollInv, Off, taskVars
  <2>2. Booting' /\ cancelled' = {}
    BY <2>1 DEF Polls, Booting, Ensure, Idle, Callers, Starters
  <2> QED
    BY <2>1, <2>2 DEF Polls
<1>2. ASSUME NEW w \in Starters, StartPolling(w), running, phase = "session",
             UNCHANGED <<up, running, phase, trading, told>>
      PROVE  Polls'
  <2>1. cancelled' = cancelled /\ cancelled = {} /\ up
    BY <1>2 DEF StartPolling, CreateLoop, taskVars, Polls, PollInv
  <2>2. trading => Live' # {} \/ Booting' \/ JobConnecting'
    <3>1. CASE trading /\ HandleLive
      BY <1>2, <3>1 DEF StartPolling, HandleLive, Live, taskVars
    <3>2. CASE trading /\ ~HandleLive /\ connected
      <4>1. CreateLoop /\ Free(NewTask)
        BY <1>2, <3>2, Room DEF StartPolling
      <4> QED
        BY <4>1, Creates DEF PollInv
    <3>3. CASE trading /\ ~HandleLive /\ ~connected
      BY <1>2, <3>3 DEF StartPolling, Booting, JobConnecting, PollInv, Typed,
                        Callers, Starters
    <3> QED
      BY <3>1, <3>2, <3>3
  <2> QED
    BY <1>2, <2>1, <2>2 DEF Polls
<1>3. CASE BootScreened
  <2>1. /\ Booting /\ up /\ UNCHANGED <<up, running, phase, trading, told, due>>
    BY <1>3 DEF BootScreened, Booting, procVars, clockVars, Callers, Starters
  <2>2. CASE running /\ phase = "session"
    BY <1>2, <1>3, <2>1, <2>2 DEF BootScreened, InPollingWindow, Starters
  <2>3. CASE ~(running /\ phase = "session")
    <3>1. cancelled' = cancelled
      BY <1>3 DEF BootScreened, StartPolling, CreateLoop, taskVars
    <3> QED
      BY <2>1, <2>3, <3>1 DEF Polls
  <2> QED
    BY <2>2, <2>3
<1>4. CASE ScreenJob
  <2>1. /\ Ensure("screen") /\ due' = due \ {"screen"}
        /\ UNCHANGED <<up, running, loop, cancelled, phase, trading, told>>
    BY <1>4 DEF ScreenJob, Job, procVars, taskVars, clockVars
  <2>2. Live' = Live /\ Booting' = Booting /\ JobConnecting' = JobConnecting
    BY <2>1 DEF Live, Booting, JobConnecting, Ensure, PollInv, Typed
  <2> QED
    BY <1>a, <2>1, <2>2
<1>5. CASE StartJob
  <2>1. /\ running /\ phase = "session" /\ StartPolling("job")
        /\ UNCHANGED <<up, running, phase, trading, told>>
    BY <1>5 DEF StartJob, Job, PollInv, Jobs, procVars, clockVars
  <2> QED
    BY <1>2, <2>1 DEF Starters
<1>6. ASSUME NEW w \in Callers, Connected(w) PROVE Polls'
  <2>1. UNCHANGED <<up, running, phase, trading, told, due>>
    BY <1>6 DEF Connected, procVars, clockVars
  <2>2. CASE at[w] = "connecting" /\ CreateLoop
    <3>1. Booting \/ JobConnecting
      BY <2>2 DEF Booting, JobConnecting, Callers, Starters, PollInv, Typed
    <3>2. Live' # {} /\ cancelled' = cancelled
      BY <2>2, <3>1, Room, Creates DEF PollInv
    <3> QED
      BY <2>1, <3>2 DEF Polls
  <2>3. CASE /\ at[w] = "ensuring"
             /\ at' = [at EXCEPT ![w] = IF w = "boot" THEN "screening" ELSE "idle"]
             /\ UNCHANGED <<taskVars, pollingActive>>
    <3>1. /\ Live' = Live /\ cancelled' = cancelled
          /\ Booting => Booting'
          /\ JobConnecting => JobConnecting'
      BY <2>3 DEF Live, taskVars, Booting, JobConnecting, PollInv, Typed, Callers,
                  Starters
    <3> QED
      BY <1>a, <2>1, <3>1
  <2> QED
    BY <1>6, <2>2, <2>3 DEF Connected
<1>7. ASSUME NEW w \in Callers, ConnectFails(w) PROVE Polls'
  <2>1. told' /\ UNCHANGED <<up, running, loop, cancelled, phase, trading, due>>
    BY <1>7 DEF ConnectFails, SystemError, procVars, taskVars, clockVars
  <2> QED
    BY <2>1 DEF Polls
<1>8. ASSUME NEW t \in Tasks, LoopStep(t) PROVE Polls'
  <2>1. /\ UNCHANGED <<up, running, at, phase, trading, due>>
        /\ cancelled' \subseteq cancelled
    BY <1>8 DEF LoopStep, Cycle, CycleSucceeds, CycleFails, CycleEnds, LoopEnded,
                LoopFails, procVars, clockVars
  <2>2. CASE LoopEnded(t)
    <3>1. ~running \/ cancelled # {}
      BY <2>2 DEF LoopEnded, LoopEnds
    <3> QED
      BY <2>1, <3>1 DEF Polls
  <2>3. CASE LoopFails(t)
    BY <2>1, <2>3 DEF LoopFails, SystemError, Polls
  <2>4. CASE Cycle(t) \/ CycleSucceeds(t) \/ CycleFails(t)
    <3>1. /\ UNCHANGED told
          /\ \/ loop' = loop
             \/ \E place \in {"resting", "polling"} : loop' = [loop EXCEPT ![t] = place]
      BY <2>4 DEF Cycle, CycleSucceeds, CycleFails, CycleEnds
    <3>2. Live \subseteq Live'
      BY <3>1 DEF Live, PollInv, Typed
    <3>3. Booting' = Booting /\ JobConnecting' = JobConnecting
      BY <2>1 DEF Booting, JobConnecting
    <3> QED
      BY <1>a, <2>1, <3>1, <3>2, <3>3
  <2> QED
    BY <1>8, <2>2, <2>3, <2>4 DEF LoopStep
<1>9. CASE GuiStop
  <2>1. up' /\ ~running'
    BY <1>9 DEF GuiStop
  <2> QED
    BY <2>1 DEF Polls
<1>10. CASE StopJob
  <2>1. up' /\ phase' = "after"
    BY <1>10 DEF StopJob, Job, PollInv, Jobs, procVars, clockVars
  <2> QED
    BY <2>1 DEF Polls
<1>11. ASSUME NEW w \in Stoppers, StopPolled(w) PROVE Polls'
  <2>1. UNCHANGED <<up, running, at, loop, cancelled, phase, trading, told, due>>
    BY <1>11 DEF StopPolled, procVars, clockVars
  <2> QED
    BY <2>1 DEF Polls, Live, Booting, JobConnecting
<1>12. CASE Closed
  BY <1>12 DEF Closed, Polls, taskVars
<1>13. CASE Gone
  BY <1>13 DEF Gone, Blank, Polls
<1>14. CASE HealthCheck \/ TimePasses
  <2>1. UNCHANGED <<up, running, at, loop, cancelled, phase, trading, told, due>>
    BY <1>14 DEF HealthCheck, TimePasses, procVars, taskVars, clockVars
  <2> QED
    BY <2>1 DEF Polls, Live, Booting, JobConnecting
<1>15. CASE ResetJob
  <2>1. /\ UNCHANGED <<up, running, at, loop, cancelled, phase, trading, told>>
        /\ due' = due \ {"reset"}
    BY <1>15 DEF ResetJob, Job, procVars, taskVars, clockVars
  <2> QED
    BY <2>1 DEF Polls, Live, Booting, JobConnecting
<1>16. CASE Clock
  <2>1. cancelled' = {} /\ UNCHANGED running
    BY <1>16 DEF Clock, taskVars, procVars
  <2>2. phase' = "session" /\ running => "start" \in due'
    BY <1>16 DEF Clock, At
  <2> QED
    BY <2>1, <2>2 DEF Polls
<1>17. CASE UNCHANGED vars
  BY <1>17 DEF vars, procVars, taskVars, clockVars, Polls, Live, Booting, JobConnecting
<1> QED
  BY <1>1, <1>3, <1>4, <1>5, <1>6, <1>7, <1>8, <1>9, <1>10, <1>11, <1>12,
     <1>13, <1>14, <1>15, <1>16, <1>17
  DEF Next, StartStep, StopStep

LEMMA DayAlways == Spec => []DayInv
<1>1. ASSUME Init PROVE DayInv
  <2>1. Flags /\ Counts /\ Marks /\ Held
    <3>1. Flags
      BY <1>1, Zenon DEF Init, Flags
    <3>2. Counts
      BY <1>1, PollingAssumption DEF Init, Counts
    <3>3. Marks /\ Held
      BY <1>1, Zenon DEF Init, Marks, Held
    <3> QED
      BY <3>1, <3>2, <3>3
  <2>2. FewTasks /\ Polls
    <3>1. Live = {} /\ ~Booting /\ ~JobConnecting /\ joins["job"] = 0
      BY <1>1 DEF Init, Live, Booting, JobConnecting, Idle, NoJoin, Callers, Starters,
                  Stoppers
    <3>2. ~up /\ ~running /\ cancelled = {}
      BY <1>1 DEF Init
    <3> QED
      BY <3>1, <3>2 DEF FewTasks, Polls
  <2> QED
    BY <1>1, <2>1, <2>2, Inductive DEF DayInv
<1>2. ASSUME DayInv, [Next]_vars PROVE DayInv'
  BY <1>2, Inductive, FewKept, PollsKept, FlagsKept, CountsKept, MarksKept, HeldKept
  DEF DayInv, Held
<1> QED
  BY <1>1, <1>2, PTL DEF Spec

(***************************************************************************)
(* The types of the polling day.  The handle stays one of the tasks        *)
(* because a new one is never needed while more than two are in use.       *)
(***************************************************************************)
THEOREM PollingTypes == Spec => []TypeOK
<1>1. DayInv => TypeOK
  <2>1. ASSUME DayInv PROVE TypeOK
    BY <2>1, Zenon DEF DayInv, PollInv, Typed, Places, Flags, Counts, Marks, Held, TypeOK
  <2> QED
    BY <2>1
<1> QED
  BY <1>1, DayAlways, PTL

(***************************************************************************)
(* In the session of a trading day an engine that is past its start-up and *)
(* its 09:25 job polls, or has sent an error since 09:00.                  *)
(***************************************************************************)
THEOREM PolledOrToldHolds == Spec => []PolledOrTold
<1>1. DayInv => PolledOrTold
  BY DEF DayInv, Polls, PolledOrTold, Idle, Booting, JobConnecting, Callers, Starters
<1> QED
  BY <1>1, DayAlways, PTL
=============================================================================
