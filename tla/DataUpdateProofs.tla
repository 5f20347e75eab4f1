-------------------------- MODULE DataUpdateProofs --------------------------
(***************************************************************************)
(* Candles have no holes since the day their ticker was detected, and      *)
(* nothing stays in the queue the two runs share, for any tickers, days    *)
(* and length of the queue.                                                *)
(***************************************************************************)
EXTENDS DataUpdate, FunctionTheorems, FiniteSetTheorems, WellFoundedInduction, TLAPS

----------------------------------------------------------------------------
(* Types.                                                                  *)

LEMMA ItemIsItem ==
    /\ SENTINEL \notin Item /\ None \notin Item
    /\ \A x \in Item : x # SENTINEL /\ x # None
    /\ SENTINEL # None
<1>1. \A x \in Item : x.to \in Days
  BY DEF Item
<1>2. SENTINEL.to = -1 /\ None.to = -2
  BY DEF SENTINEL, None
<1>3. \A d \in Days : d # -1 /\ d # -2
  BY DEF Days
<1> QED
  BY <1>1, <1>2, <1>3

\* A set of days that is not empty has a last one.
LEMMA LastDayOfSet ==
    ASSUME NEW S \in SUBSET Days, S # {}
    PROVE  \E d \in S : \A e \in S : e <= d
<1> DEFINE T == {LastDay - d : d \in S}
<1>0. LastDay \in Nat
  BY UpdateAssumption
<1>1. T \subseteq Nat /\ T # {}
  <2>1. \A d \in S : LastDay - d \in Nat
    BY <1>0 DEF Days
  <2>2. PICK d \in S : TRUE
    OBVIOUS
  <2>3. LastDay - d \in T
    OBVIOUS
  <2> QED
    BY <2>1, <2>3
<1>2. PICK x \in T : \A y \in T : ~ (<<y, x>> \in OpToRel(<, Nat))
  BY <1>1, NatLessThanWellFounded, WFMin
<1>3. \A y \in T : ~ (y < x)
  BY <1>1, <1>2 DEF OpToRel
<1>4. PICK d \in S : x = LastDay - d
  OBVIOUS
<1>5. ASSUME NEW e \in S PROVE e <= d
  <2>1. ~ (LastDay - e < LastDay - d)
    BY <1>3, <1>4
  <2> QED
    BY <2>1, UpdateAssumption DEF Days
<1> QED
  BY <1>5

LEMMA LastIsLast ==
    ASSUME NEW t, candles[t] \in SUBSET Days, candles[t] # {}
    PROVE  Last(t) \in candles[t] /\ \A e \in candles[t] : e <= Last(t)
BY LastDayOfSet DEF Last

LEMMA ToFetchIsTasks == TypeOK => ToFetch \subseteq Task
<1> SUFFICES ASSUME TypeOK, NEW t \in Stocks, Start(t) <= day
             PROVE  [ticker |-> t, from |-> Start(t)] \in Task
  BY DEF ToFetch
<1>1. /\ t \in Tickers /\ candles[t] \in SUBSET Days
      /\ listed[t] \in Nat \ {0}
  BY UpdateAssumption DEF TypeOK, Stocks
<1>2. Start(t) \in Nat \ {0}
  BY <1>1, LastIsLast DEF Start, Days
<1>3. Start(t) \in Days
  BY <1>2, UpdateAssumption DEF TypeOK, Days
<1> QED
  BY <1>1, <1>3 DEF Task

LEMMA TypeInit == Init => TypeOK
BY UpdateAssumption DEF Init, TypeOK, Days, Runs

LEMMA TypeStep == TypeOK /\ [Next]_vars => TypeOK'
<1> SUFFICES ASSUME TypeOK, [Next]_vars PROVE TypeOK'
  OBVIOUS
<1> USE UpdateAssumption, ItemIsItem
<1>1. CASE EngineStarts
  BY <1>1 DEF EngineStarts, TypeOK, writerVars, Runs
<1>2. CASE GuiStarts
  BY <1>2 DEF GuiStarts, TypeOK, writerVars, Runs
<1>3. ASSUME NEW r \in Runs, Listed(r) PROVE TypeOK'
  <2>1. listed' \in [Tickers -> 0..LastDay]
    BY <1>3 DEF Listed, TypeOK, Days
  <2> QED
    BY <1>3, <2>1 DEF Listed, TypeOK, writerVars
<1>4. ASSUME NEW r \in Runs, ListingFails(r) PROVE TypeOK'
  BY <1>4 DEF ListingFails, TypeOK, writerVars
<1>5. ASSUME NEW r \in Runs, Collect(r) PROVE TypeOK'
  BY <1>5, ToFetchIsTasks DEF Collect, Begin, TypeOK
<1>6. ASSUME NEW r \in Runs, Fetch(r) PROVE TypeOK'
  <2>1. PICK task \in todo[r] :
          /\ todo' = [todo EXCEPT ![r] = @ \ {task}]
          /\ fetched' = [fetched EXCEPT ![r] = @ \cup
                {[ticker |-> task.ticker, from |-> task.from, to |-> day]}]
    BY <1>6 DEF Fetch
  <2>2. [ticker |-> task.ticker, from |-> task.from, to |-> day] \in Item
    BY DEF TypeOK, Task, Item
  <2> QED
    BY <1>6, <2>1, <2>2 DEF Fetch, TypeOK, writerVars
<1>7. ASSUME NEW r \in Runs, Put(r) PROVE TypeOK'
  BY <1>7 DEF Put, HasRoom, TypeOK
<1>8. ASSUME NEW r \in Runs, PutSentinel(r) PROVE TypeOK'
  BY <1>8 DEF PutSentinel, HasRoom, TypeOK
<1>9. ASSUME NEW r \in Runs, Joined(r) PROVE TypeOK'
  BY <1>9 DEF Joined, TypeOK, writerVars
<1>10. ASSUME NEW r \in Runs, Take(r) PROVE TypeOK'
  <2>1. Head(queue) \in Item \cup {SENTINEL}
    BY <1>10 DEF Take, TypeOK
  <2>2. queue' \in Seq(Item \cup {SENTINEL}) /\ Len(queue') <= QueueSize
    BY <1>10 DEF Take, TypeOK
  <2>3. writing' \subseteq Runs /\ held' \in [Runs -> Item \cup {None}]
    BY <1>10, <2>1 DEF Take, TypeOK
  <2> QED
    BY <1>10, <2>2, <2>3 DEF Take, TypeOK, runVars
<1>11. ASSUME NEW r \in Runs, Store(r) PROVE TypeOK'
  BY <1>11 DEF Store, TypeOK, runVars
<1>12. CASE NewDay
  BY <1>12 DEF NewDay, TypeOK, runVars, writerVars, Days
<1>13. CASE Restart
  BY <1>13 DEF Restart, TypeOK
<1>14. CASE UNCHANGED vars
  BY <1>14 DEF vars, TypeOK, runVars, writerVars
<1> QED
  BY <1>1, <1>2, <1>3, <1>4, <1>5, <1>6, <1>7, <1>8, <1>9, <1>10, <1>11, <1>12,
     <1>13, <1>14 DEF Next, RunStep, WriterStep

\* The variables keep their types, whatever the two runs do.
THEOREM UpdateTypeOK == Spec => []TypeOK
BY TypeInit, TypeStep, PTL DEF Spec

----------------------------------------------------------------------------
(* No holes.  Work in hand begins no later than the day after the days     *)
(* stored of its ticker since it was listed, and stored days stay.         *)

Covered(w) ==
    /\ w.ticker \in Stocks
    /\ \A d \in listed[w.ticker]..(w.from - 1) : d \in candles[w.ticker]

\* No ticker is detected before its first day.
DetectedLater == \A t \in Stocks : FirstDay(t) <= listed[t]

WorkCovered ==
    /\ \A r \in Runs : \A w \in todo[r] : Covered(w)
    /\ \A r \in Runs : \A w \in fetched[r] : Covered(w)
    /\ \A r \in Runs : held[r] # None => Covered(held[r])
    /\ \A i \in 1..Len(queue) : queue[i] # SENTINEL => Covered(queue[i])

HolesInv == TypeOK /\ NoHoles /\ WorkCovered /\ DetectedLater

LEMMA HolesInit == Init => HolesInv
<1> SUFFICES ASSUME Init PROVE HolesInv
  OBVIOUS
<1>1. NoHoles
  <2> SUFFICES ASSUME NEW t \in Tickers, NEW d \in candles[t]
               PROVE  listed[t]..d \subseteq candles[t]
    BY DEF NoHoles
  <2>1. listed[t] = 1 /\ candles[t] = {1}
    BY DEF Init
  <2> QED
    BY <2>1
<1>2. WorkCovered
  BY DEF Init, WorkCovered
<1>3. DetectedLater
  BY DEF Init, DetectedLater, Stocks, FirstDay
<1> QED
  BY <1>1, <1>2, <1>3, TypeInit DEF HolesInv

\* The first day wanted of a ticker leaves nothing out.
LEMMA ToFetchCovered == HolesInv => \A w \in ToFetch : Covered(w)
<1> SUFFICES ASSUME HolesInv, NEW t \in Stocks, Start(t) <= day
             PROVE  Covered([ticker |-> t, from |-> Start(t)])
  BY DEF ToFetch
<1>1. t \in Tickers /\ candles[t] \in SUBSET Days /\ listed[t] \in Nat
  BY DEF HolesInv, TypeOK, Stocks
<1>2. CASE candles[t] = {}
  BY <1>1, <1>2 DEF Start, Covered
<1>3. CASE candles[t] # {}
  <2>1. Last(t) \in candles[t] /\ Last(t) \in Nat
    BY <1>1, <1>3, LastIsLast DEF Days
  <2>2. listed[t]..Last(t) \subseteq candles[t]
    BY <1>1, <2>1 DEF HolesInv, NoHoles
  <2>3. Start(t) - 1 = Last(t)
    BY <1>3, <2>1 DEF Start
  <2> QED
    BY <2>2, <2>3 DEF Covered
<1> QED
  BY <1>2, <1>3

\* Candles that only grow leave what was covered covered.
LEMMA CoveredStays ==
    ASSUME NEW w, w.ticker \in Tickers, Covered(w),
           \A t \in Tickers : candles[t] \subseteq candles'[t],
           \A t \in Stocks : listed'[t] = listed[t]
    PROVE  Covered(w)'
BY DEF Covered, Stocks

LEMMA AppendedAt ==
    ASSUME NEW S, NEW q \in Seq(S), NEW x \in S, NEW p, p = Append(q, x)
    PROVE  /\ Len(q) \in Nat /\ Len(p) = Len(q) + 1
           /\ p[Len(q) + 1] = x
           /\ \A i \in 1..Len(q) : p[i] = q[i]
           /\ \A i \in 1..Len(p) : p[i] = x \/ (i \in 1..Len(q) /\ p[i] = q[i])
<1>1. /\ Len(q) \in Nat /\ Len(p) = Len(q) + 1
      /\ p[Len(q) + 1] = x
      /\ \A i \in 1..Len(q) : p[i] = q[i]
  OBVIOUS
<1>2. \A i \in 1..Len(p) : i = Len(q) + 1 \/ i \in 1..Len(q)
  BY <1>1
<1> QED
  BY <1>1, <1>2

LEMMA TypedQueue == TypeOK => queue \in Seq(Item \cup {SENTINEL})
BY DEF TypeOK

LEMMA WorkKept ==
    ASSUME TypeOK, WorkCovered, UNCHANGED <<listed, candles>>,
           UNCHANGED <<runVars, writerVars>>
    PROVE  WorkCovered'
BY DEF WorkCovered, Covered, Stocks, runVars, writerVars

LEMMA HolesStep == HolesInv /\ [Next]_vars => HolesInv'
<1> SUFFICES ASSUME HolesInv, [Next]_vars
             PROVE  NoHoles' /\ WorkCovered' /\ DetectedLater'
  BY TypeStep DEF HolesInv
<1> USE DEF HolesInv
<1>0. UNCHANGED <<listed, candles>> => NoHoles' /\ DetectedLater'
  BY DEF NoHoles, DetectedLater, Stocks, FirstDay
<1>1. CASE EngineStarts
  BY <1>0, <1>1 DEF EngineStarts, WorkCovered, Covered, Stocks, writerVars
<1>2. CASE GuiStarts
  BY <1>0, <1>2 DEF GuiStarts, WorkCovered, Covered, Stocks, writerVars
<1>3. ASSUME NEW r \in Runs, Listed(r) PROVE NoHoles' /\ WorkCovered' /\ DetectedLater'
  <2>1. PICK base \in 1..day :
          listed' = [t \in Tickers |->
              IF t \notin Stocks /\ FirstDay(t) <= base THEN day ELSE listed[t]]
    BY <1>3 DEF Listed
  <2>2. \A t \in Stocks : t \in Tickers /\ listed'[t] = listed[t]
    BY <2>1 DEF Stocks
  <2>3. \A t \in Tickers \ Stocks : candles[t] = {}
    <3>1. \A t \in Tickers \ Stocks : 0 \notin candles[t] /\ candles[t] \subseteq Nat
      BY DEF TypeOK, Days
    <3>2. \A t \in Tickers \ Stocks : \A d \in candles[t] : 0..d \subseteq candles[t]
      BY DEF NoHoles, Stocks
    <3>3. \A d \in Nat : 0 \in 0..d
      OBVIOUS
    <3> QED
      BY <3>1, <3>2, <3>3
  <2>4. UNCHANGED <<candles, todo, fetched, writerVars>>
    BY <1>3 DEF Listed
  <2>5. NoHoles'
    BY <2>2, <2>3, <2>4 DEF NoHoles
  <2>6. \A w : Covered(w) => Covered(w)'
    BY <2>2, <2>4 DEF Covered, Stocks
  <2>7. WorkCovered'
    BY <2>4, <2>6 DEF WorkCovered, writerVars
  <2>8. DetectedLater'
    <3> SUFFICES ASSUME NEW t \in Stocks' PROVE FirstDay(t) <= listed'[t]
      BY DEF DetectedLater, FirstDay
    <3>1. CASE t \in Stocks
      BY <2>2, <3>1 DEF DetectedLater
    <3>2. CASE t \notin Stocks
      <4>1. t \in Tickers /\ listed'[t] # 0
        BY DEF Stocks
      <4>2. listed'[t] = day /\ FirstDay(t) <= base
        BY <2>1, <3>2, <4>1 DEF Stocks
      <4> QED
        BY <4>2 DEF FirstDay, TypeOK, Days
    <3> QED
      BY <3>1, <3>2
  <2> QED
    BY <2>5, <2>7, <2>8
<1>4. ASSUME NEW r \in Runs, ListingFails(r) PROVE NoHoles' /\ WorkCovered' /\ DetectedLater'
  BY <1>0, <1>4 DEF ListingFails, WorkCovered, Covered, Stocks, writerVars
<1>5. ASSUME NEW r \in Runs, Collect(r) PROVE NoHoles' /\ WorkCovered' /\ DetectedLater'
  <2>1. \A s \in Runs : \A w \in todo'[s] : w \in todo[s] \/ w \in ToFetch
    BY <1>5 DEF Collect, Begin, TypeOK
  <2>2. \A w : Covered(w)' <=> Covered(w)
    BY <1>5 DEF Collect, Covered, Stocks
  <2> QED
    BY <1>0, <1>5, <2>1, <2>2, ToFetchCovered DEF Collect, WorkCovered
<1>6. ASSUME NEW r \in Runs, Fetch(r) PROVE NoHoles' /\ WorkCovered' /\ DetectedLater'
  <2>1. PICK task \in todo[r] :
          /\ todo' = [todo EXCEPT ![r] = @ \ {task}]
          /\ fetched' = [fetched EXCEPT ![r] = @ \cup
                {[ticker |-> task.ticker, from |-> task.from, to |-> day]}]
    BY <1>6 DEF Fetch
  <2> DEFINE item == [ticker |-> task.ticker, from |-> task.from, to |-> day]
  <2>2. Covered(item)
    BY DEF Covered, WorkCovered
  <2>3. \A w : Covered(w)' <=> Covered(w)
    BY <1>6 DEF Fetch, Covered, Stocks
  <2>4. /\ \A s \in Runs : \A w \in todo'[s] : w \in todo[s]
        /\ \A s \in Runs : \A w \in fetched'[s] : w \in fetched[s] \/ w = item
    BY <2>1 DEF TypeOK
  <2> QED
    BY <1>0, <1>6, <2>2, <2>3, <2>4 DEF Fetch, WorkCovered, writerVars
<1>7. ASSUME NEW r \in Runs, Put(r) PROVE NoHoles' /\ WorkCovered' /\ DetectedLater'
  <2>1. PICK item \in fetched[r] :
          /\ queue' = Append(queue, item)
          /\ fetched' = [fetched EXCEPT ![r] = @ \ {item}]
    BY <1>7 DEF Put
  <2>2. \A w : Covered(w)' <=> Covered(w)
    BY <1>7 DEF Put, Covered, Stocks
  <2>3. \A i \in 1..Len(queue') : \/ queue'[i] = item
                                  \/ i \in 1..Len(queue) /\ queue'[i] = queue[i]
    <3>1. item \in Item \cup {SENTINEL}
      BY DEF TypeOK
    <3> QED
      BY <2>1, <3>1, TypedQueue, AppendedAt
  <2>4. \A s \in Runs : \A w \in fetched'[s] : w \in fetched[s]
    BY <2>1 DEF TypeOK
  <2> QED
    BY <1>0, <1>7, <2>2, <2>3, <2>4 DEF Put, WorkCovered
<1>8. ASSUME NEW r \in Runs, PutSentinel(r) PROVE NoHoles' /\ WorkCovered' /\ DetectedLater'
  <2>1. \A w : Covered(w)' <=> Covered(w)
    BY <1>8 DEF PutSentinel, Covered, Stocks
  <2>2. \A i \in 1..Len(queue') : \/ queue'[i] = SENTINEL
                                  \/ i \in 1..Len(queue) /\ queue'[i] = queue[i]
    <3>1. queue' = Append(queue, SENTINEL)
      BY <1>8 DEF PutSentinel
    <3>2. SENTINEL \in Item \cup {SENTINEL}
      OBVIOUS
    <3> QED
      BY <3>1, <3>2, TypedQueue, AppendedAt
  <2> QED
    BY <1>0, <1>8, <2>1, <2>2 DEF PutSentinel, WorkCovered
<1>9. ASSUME NEW r \in Runs, Joined(r) PROVE NoHoles' /\ WorkCovered' /\ DetectedLater'
  BY <1>0, <1>9 DEF Joined, WorkCovered, Covered, Stocks, writerVars
<1>10. ASSUME NEW r \in Runs, Take(r) PROVE NoHoles' /\ WorkCovered' /\ DetectedLater'
  <2>1. \A w : Covered(w)' <=> Covered(w)
    BY <1>10 DEF Take, Covered, Stocks
  <2>2. \A i \in 1..Len(queue') : i + 1 \in 1..Len(queue) /\ queue'[i] = queue[i + 1]
    BY <1>10 DEF Take, TypeOK
  <2>3. Head(queue) = queue[1] /\ 1 \in 1..Len(queue)
    BY <1>10 DEF Take, TypeOK
  <2>4. \A s \in Runs : \/ held'[s] = held[s]
                        \/ held'[s] = queue[1] /\ queue[1] # SENTINEL
    <3>1. \/ held' = held
          \/ held' = [held EXCEPT ![r] = queue[1]] /\ queue[1] # SENTINEL
      BY <1>10, <2>3 DEF Take
    <3>2. held \in [Runs -> Item \cup {None}]
      BY DEF TypeOK
    <3> QED
      BY <3>1, <3>2, Zenon
  <2> QED
    BY <1>0, <1>10, <2>1, <2>2, <2>3, <2>4 DEF Take, WorkCovered, runVars
<1>11. ASSUME NEW r \in Runs, Store(r) PROVE NoHoles' /\ WorkCovered' /\ DetectedLater'
  <2> DEFINE t == held[r].ticker
             from == held[r].from
  <2>1. PICK to \in {d \in 0..LastDay : d <= held[r].to} :
          candles' = [candles EXCEPT ![t] = @ \cup
              {d \in Days : FirstDay(t) <= d /\ from <= d /\ d <= to}]
    BY <1>11 DEF Store
  <2>2. held[r] \in Item
    BY <1>11 DEF Store, TypeOK
  <2>3. t \in Tickers /\ from \in Nat /\ to \in Nat /\ LastDay \in Nat /\ to <= LastDay
    BY <2>1, <2>2, UpdateAssumption DEF Item, Days
  <2>4. Covered(held[r])
    BY <1>11 DEF Store, WorkCovered
  <2>5. \A u \in Tickers : candles[u] \subseteq candles'[u]
    BY <2>1 DEF TypeOK
  <2>6. NoHoles'
    <3> SUFFICES ASSUME NEW u \in Tickers, NEW d \in candles'[u], NEW e \in listed[u]..d
                 PROVE  e \in candles'[u]
      BY <1>11 DEF NoHoles, Store
    <3>1. CASE d \in candles[u]
      BY <2>5, <3>1 DEF NoHoles
    <3>2. CASE d \notin candles[u]
      <4>1. u = t /\ d \in Days /\ d <= to
        BY <2>1, <2>3, <3>2 DEF TypeOK
      <4>2. CASE e < from
        BY <2>3, <2>4, <2>5, <4>1, <4>2 DEF Covered, Days, TypeOK
      <4>3. CASE ~ (e < from)
        <5>1. e \in Days /\ FirstDay(t) <= e /\ from <= e /\ e <= to
          <6>1. FirstDay(t) <= listed[t] /\ FirstDay(t) \in Nat \ {0} /\ listed[t] \in Nat
            BY <2>3, <2>4 DEF Covered, DetectedLater, FirstDay, TypeOK
          <6> QED
            BY <2>3, <4>1, <4>3, <6>1 DEF Days
        <5>2. candles'[t] = candles[t] \cup
                  {f \in Days : FirstDay(t) <= f /\ from <= f /\ f <= to}
          BY <2>1, <2>3 DEF TypeOK
        <5> QED
          BY <4>1, <5>1, <5>2
      <4> QED
        BY <4>2, <4>3
    <3> QED
      BY <3>1, <3>2
  <2>7. WorkCovered'
    <3>1. /\ \A s \in Runs : \A w \in todo[s] : w.ticker \in Tickers
          /\ \A s \in Runs : \A w \in fetched[s] : w.ticker \in Tickers
          /\ \A s \in Runs : held[s] # None => held[s].ticker \in Tickers
          /\ \A i \in 1..Len(queue) : queue[i] # SENTINEL => queue[i].ticker \in Tickers
      <4>1. \A i \in 1..Len(queue) : queue[i] \in Item \cup {SENTINEL}
        BY DEF TypeOK
      <4> QED
        BY <4>1 DEF TypeOK, Task, Item
    <3>2. \A s \in Runs : held'[s] = held[s] \/ held'[s] = None
      BY <1>11 DEF Store, TypeOK
    <3>3. UNCHANGED <<listed, runVars, queue>>
      BY <1>11 DEF Store
    <3> QED
      BY <2>5, <3>1, <3>2, <3>3, CoveredStays DEF WorkCovered, runVars
  <2>8. DetectedLater' /\ UNCHANGED listed
    BY <1>11 DEF Store, DetectedLater, Stocks, FirstDay
  <2> QED
    BY <2>6, <2>7, <2>8
<1>12. CASE NewDay
  BY <1>0, <1>12, WorkKept DEF NewDay
<1>13. CASE Restart
  BY <1>0, <1>13 DEF Restart, WorkCovered
<1>14. CASE UNCHANGED vars
  BY <1>0, <1>14, WorkKept DEF vars
<1> QED
  BY <1>1, <1>2, <1>3, <1>4, <1>5, <1>6, <1>7, <1>8, <1>9, <1>10, <1>11, <1>12,
     <1>13, <1>14 DEF Next, RunStep, WriterStep

\* Two collections at once, lists that fail or come late, failed fetches and
\* writes, restarts: the candles of a ticker have no hole since its listed_date
\* (collect_daily_candles.py:273-298), the day it was detected.
THEOREM UpdateNoHoles == Spec => []NoHoles
BY HolesInit, HolesStep, PTL DEF Spec, HolesInv

----------------------------------------------------------------------------
(* Nothing left behind.  As many writers run as SENTINELs will come: one   *)
(* of each run that has not put its own, and those in the queue.           *)

Sentinels(q) == {i \in 1..Len(q) : q[i] = SENTINEL}
Owing == {r \in Runs : stage[r] = "collect"}

WritersOwed == Cardinality(writing) = Cardinality(Owing) + Cardinality(Sentinels(queue))
SentinelLast == Owing = {} /\ queue # <<>> => queue[Len(queue)] = SENTINEL
RunsTidy ==
    \A r \in Runs :
        /\ stage[r] \in {"idle", "listing", "candles"} => r \notin writing
        /\ stage[r] # "collect" => todo[r] = {} /\ fetched[r] = {}
        /\ r \notin writing => held[r] = None

QueueInv == TypeOK /\ WritersOwed /\ SentinelLast /\ RunsTidy

LEMMA RunsFinite == \A S \in SUBSET Runs : IsFiniteSet(S) /\ Cardinality(S) \in Nat
<1>1. IsFiniteSet({} \cup {"engine"} \cup {"gui"})
  BY FS_EmptySet, FS_AddElement
<1>2. Runs = {} \cup {"engine"} \cup {"gui"}
  BY DEF Runs
<1> QED
  BY <1>1, <1>2, FS_Subset, FS_CardinalityType

LEMMA SentinelsFinite ==
    ASSUME NEW S, NEW q \in Seq(S)
    PROVE  IsFiniteSet(Sentinels(q)) /\ Cardinality(Sentinels(q)) \in Nat
<1>1. IsFiniteSet(1..Len(q))
  BY FS_Interval
<1>2. Sentinels(q) \in SUBSET (1..Len(q))
  BY DEF Sentinels
<1> QED
  BY <1>1, <1>2, FS_Subset, FS_CardinalityType

LEMMA SentinelsAppended ==
    ASSUME NEW S, NEW q \in Seq(S), NEW x \in S, NEW p, p = Append(q, x)
    PROVE  Cardinality(Sentinels(p)) =
               Cardinality(Sentinels(q)) + (IF x = SENTINEL THEN 1 ELSE 0)
<1>1. CASE x = SENTINEL
  <2>1. Sentinels(p) = Sentinels(q) \cup {Len(q) + 1}
    BY <1>1, AppendedAt DEF Sentinels
  <2>2. Len(q) + 1 \notin Sentinels(q)
    BY DEF Sentinels
  <2> QED
    BY <1>1, <2>1, <2>2, SentinelsFinite, FS_AddElement
<1>2. CASE x # SENTINEL
  <2>1. Sentinels(p) = Sentinels(q)
    BY <1>2, AppendedAt DEF Sentinels
  <2> QED
    BY <1>2, <2>1, SentinelsFinite
<1> QED
  BY <1>1, <1>2

LEMMA SentinelsTaken ==
    ASSUME NEW S, NEW q \in Seq(S), q # <<>>, NEW p, p = Tail(q)
    PROVE  Cardinality(Sentinels(q)) =
               Cardinality(Sentinels(p)) + (IF q[1] = SENTINEL THEN 1 ELSE 0)
<1>1. /\ Len(q) \in Nat \ {0} /\ Len(p) = Len(q) - 1 /\ p \in Seq(S)
      /\ \A i \in 1..Len(p) : p[i] = q[i + 1]
  OBVIOUS
<1> DEFINE Rest == Sentinels(q) \ {1}
           f == [i \in Sentinels(p) |-> i + 1]
<1>2. f \in Bijection(Sentinels(p), Rest)
  <2>1. \A i \in Sentinels(p) : i \in Nat /\ i + 1 \in Rest
    BY <1>1 DEF Sentinels
  <2>2. \A j \in Rest : j - 1 \in Sentinels(p) /\ f[j - 1] = j
    BY <1>1 DEF Sentinels
  <2>3. \A i, j \in Sentinels(p) : f[i] = f[j] => i = j
    BY <2>1
  <2>4. f \in [Sentinels(p) -> Rest]
    BY <2>1
  <2>5. \A j \in Rest : \E i \in Sentinels(p) : f[i] = j
    BY <2>2
  <2> HIDE DEF f, Rest
  <2> QED
    BY <2>3, <2>4, <2>5, Fun_IsBij
<1>3. Cardinality(Rest) = Cardinality(Sentinels(p))
  <2>1. ExistsBijection(Sentinels(p), Rest)
    BY <1>2 DEF ExistsBijection
  <2>2. IsFiniteSet(Sentinels(p))
    BY <1>1, SentinelsFinite
  <2> QED
    BY <2>1, <2>2, FS_Bijection
<1>4. 1 \in Sentinels(q) <=> q[1] = SENTINEL
  BY <1>1 DEF Sentinels
<1>5. IsFiniteSet(Sentinels(q)) /\ Cardinality(Sentinels(q)) \in Nat
  BY SentinelsFinite
<1>6. Cardinality(Rest) = IF 1 \in Sentinels(q) THEN Cardinality(Sentinels(q)) - 1
                                              ELSE Cardinality(Sentinels(q))
  BY <1>5, FS_RemoveElement
<1> QED
  BY <1>3, <1>4, <1>5, <1>6

LEMMA QueueInit == Init => QueueInv
<1> SUFFICES ASSUME Init PROVE QueueInv
  OBVIOUS
<1>1. writing = {} /\ Owing = {} /\ Sentinels(queue) = {}
  BY DEF Init, Owing, Sentinels
<1>2. WritersOwed
  BY <1>1, FS_EmptySet DEF WritersOwed
<1>3. SentinelLast
  BY DEF Init, SentinelLast
<1>4. RunsTidy
  BY DEF Init, RunsTidy
<1> QED
  BY <1>2, <1>3, <1>4, TypeInit DEF QueueInv

\* An action that leaves the queue, the writers and what runs owe alone.
LEMMA QueueKept ==
    ASSUME QueueInv, UNCHANGED writerVars, Owing' = Owing, RunsTidy'
    PROVE  WritersOwed' /\ SentinelLast'
BY DEF QueueInv, WritersOwed, SentinelLast, writerVars, Sentinels

LEMMA QueueStep == QueueInv /\ [Next]_vars => QueueInv'
<1> SUFFICES ASSUME QueueInv, [Next]_vars
             PROVE  WritersOwed' /\ SentinelLast' /\ RunsTidy'
  BY TypeStep DEF QueueInv
<1> USE DEF QueueInv
<1>1. CASE EngineStarts
  <2>1. RunsTidy' /\ Owing' = Owing
    BY <1>1 DEF EngineStarts, RunsTidy, Owing, writerVars, TypeOK, Runs
  <2> QED
    BY <1>1, <2>1, QueueKept DEF EngineStarts
<1>2. CASE GuiStarts
  <2>1. RunsTidy' /\ Owing' = Owing
    BY <1>2 DEF GuiStarts, RunsTidy, Owing, writerVars, TypeOK, Runs
  <2> QED
    BY <1>2, <2>1, QueueKept DEF GuiStarts
<1>3. ASSUME NEW r \in Runs, Listed(r) PROVE WritersOwed' /\ SentinelLast' /\ RunsTidy'
  <2>1. RunsTidy' /\ Owing' = Owing
    BY <1>3 DEF Listed, RunsTidy, Owing, writerVars, TypeOK
  <2> QED
    BY <1>3, <2>1, QueueKept DEF Listed
<1>4. ASSUME NEW r \in Runs, ListingFails(r)
      PROVE  WritersOwed' /\ SentinelLast' /\ RunsTidy'
  <2>1. RunsTidy' /\ Owing' = Owing
    BY <1>4 DEF ListingFails, RunsTidy, Owing, writerVars, TypeOK
  <2> QED
    BY <1>4, <2>1, QueueKept DEF ListingFails
<1>5. ASSUME NEW r \in Runs, Collect(r) PROVE WritersOwed' /\ SentinelLast' /\ RunsTidy'
  <2>1. CASE ToFetch = {}
    <3>1. /\ stage' = [stage EXCEPT ![r] = "idle"] /\ UNCHANGED <<todo, writing>>
          /\ UNCHANGED <<fetched, queue, held>> /\ stage[r] = "candles"
      BY <1>5, <2>1 DEF Collect, Begin
    <3>2. RunsTidy' /\ Owing' = Owing
      BY <3>1 DEF RunsTidy, Owing, TypeOK
    <3> QED
      BY <3>1, <3>2, QueueKept DEF writerVars
  <2>2. CASE ToFetch # {}
    <3>1. /\ stage' = [stage EXCEPT ![r] = "collect"]
          /\ todo' = [todo EXCEPT ![r] = ToFetch] /\ writing' = writing \cup {r}
          /\ UNCHANGED <<fetched, queue, held>> /\ stage[r] = "candles"
      BY <1>5, <2>2 DEF Collect, Begin
    <3>2. r \notin writing /\ r \notin Owing
      BY <3>1 DEF RunsTidy, Owing
    <3>3. Owing' = Owing \cup {r}
      BY <3>1 DEF Owing, TypeOK
    <3>4. writing \in SUBSET Runs /\ Owing \in SUBSET Runs
      BY DEF TypeOK, Owing
    <3>5. Cardinality(writing') = Cardinality(writing) + 1
          /\ Cardinality(Owing') = Cardinality(Owing) + 1
      BY <3>1, <3>2, <3>3, <3>4, RunsFinite, FS_AddElement
    <3>6. Sentinels(queue)' = Sentinels(queue)
      BY <3>1 DEF Sentinels
    <3>7. Cardinality(Sentinels(queue)) \in Nat
      BY SentinelsFinite DEF TypeOK
    <3>8. WritersOwed'
      BY <3>4, <3>5, <3>6, <3>7, RunsFinite DEF WritersOwed
    <3>9. SentinelLast'
      BY <3>3 DEF SentinelLast
    <3>10. RunsTidy'
      BY <3>1 DEF RunsTidy, TypeOK
    <3> QED
      BY <3>8, <3>9, <3>10
  <2> QED
    BY <2>1, <2>2
<1>6. ASSUME NEW r \in Runs, Fetch(r) PROVE WritersOwed' /\ SentinelLast' /\ RunsTidy'
  <2>1. RunsTidy' /\ Owing' = Owing
    BY <1>6 DEF Fetch, RunsTidy, Owing, writerVars, TypeOK
  <2> QED
    BY <1>6, <2>1, QueueKept DEF Fetch
<1>7. ASSUME NEW r \in Runs, Put(r) PROVE WritersOwed' /\ SentinelLast' /\ RunsTidy'
  <2>1. PICK item \in fetched[r] :
          /\ queue' = Append(queue, item)
          /\ fetched' = [fetched EXCEPT ![r] = @ \ {item}]
    BY <1>7 DEF Put
  <2>2. UNCHANGED <<stage, todo, writing, held>>
    BY <1>7 DEF Put
  <2>3. item \in Item
    BY DEF TypeOK
  <2>4. Cardinality(Sentinels(queue')) = Cardinality(Sentinels(queue))
    <3>1. item # SENTINEL /\ item \in Item \cup {SENTINEL}
      BY <2>3, ItemIsItem
    <3>2. Cardinality(Sentinels(queue)) \in Nat
      BY SentinelsFinite DEF TypeOK
    <3>3. queue \in Seq(Item \cup {SENTINEL})
      BY TypedQueue
    <3>4. Cardinality(Sentinels(queue')) =
              Cardinality(Sentinels(queue)) + (IF item = SENTINEL THEN 1 ELSE 0)
      BY <2>1, <3>1, <3>3, SentinelsAppended
    <3> QED
      BY <3>1, <3>2, <3>4
  <2>5. Owing' = Owing /\ r \in Owing
    BY <2>2 DEF Owing, RunsTidy
  <2>6. WritersOwed' /\ SentinelLast'
    BY <2>2, <2>4, <2>5 DEF WritersOwed, SentinelLast
  <2>7. RunsTidy'
    BY <2>1, <2>2 DEF RunsTidy, TypeOK
  <2> QED
    BY <2>6, <2>7
<1>8. ASSUME NEW r \in Runs, PutSentinel(r)
      PROVE  WritersOwed' /\ SentinelLast' /\ RunsTidy'
  <2>1. /\ stage[r] = "collect" /\ todo[r] = {} /\ fetched[r] = {}
        /\ queue' = Append(queue, SENTINEL)
        /\ stage' = [stage EXCEPT ![r] = "join"]
        /\ UNCHANGED <<todo, fetched, writing, held>>
    BY <1>8 DEF PutSentinel, AllPut
  <2>2. Cardinality(Sentinels(queue')) = Cardinality(Sentinels(queue)) + 1
    <3>1. SENTINEL \in Item \cup {SENTINEL}
      OBVIOUS
    <3> QED
      BY <2>1, <3>1, TypedQueue, SentinelsAppended
  <2>3. Owing' = Owing \ {r} /\ r \in Owing /\ Owing \in SUBSET Runs
    BY <2>1 DEF Owing, TypeOK
  <2>4. Cardinality(Owing') = Cardinality(Owing) - 1 /\ Cardinality(Owing) \in Nat
    BY <2>3, RunsFinite, FS_RemoveElement
  <2>5. Cardinality(Sentinels(queue)) \in Nat
    BY SentinelsFinite DEF TypeOK
  <2>6. WritersOwed'
    BY <2>1, <2>2, <2>4, <2>5 DEF WritersOwed
  <2>7. SentinelLast'
    BY <2>1, TypedQueue, AppendedAt DEF SentinelLast
  <2>8. RunsTidy'
    BY <2>1 DEF RunsTidy, TypeOK
  <2> QED
    BY <2>6, <2>7, <2>8
<1>9. ASSUME NEW r \in Runs, Joined(r) PROVE WritersOwed' /\ SentinelLast' /\ RunsTidy'
  <2>1. RunsTidy' /\ Owing' = Owing
    BY <1>9 DEF Joined, RunsTidy, Owing, writerVars, TypeOK
  <2> QED
    BY <1>9, <2>1, QueueKept DEF Joined
<1>10. ASSUME NEW r \in Runs, Take(r) PROVE WritersOwed' /\ SentinelLast' /\ RunsTidy'
  <2>1. /\ r \in writing /\ held[r] = None /\ queue # <<>> /\ queue' = Tail(queue)
        /\ UNCHANGED <<stage, todo, fetched>>
    BY <1>10 DEF Take, runVars
  <2>2. Cardinality(Sentinels(queue)) =
            Cardinality(Sentinels(queue')) + (IF queue[1] = SENTINEL THEN 1 ELSE 0)
    BY <2>1, TypedQueue, SentinelsTaken
  <2>3. Owing' = Owing /\ Owing \in SUBSET Runs /\ writing \in SUBSET Runs
    BY <2>1 DEF Owing, TypeOK
  <2>4. Head(queue) = queue[1]
    BY <2>1, TypedQueue
  <2>5. queue' \in Seq(Item \cup {SENTINEL})
    BY <2>1, TypedQueue
  <2>6. /\ Cardinality(Sentinels(queue')) \in Nat /\ Cardinality(Sentinels(queue)) \in Nat
        /\ Cardinality(Owing) \in Nat /\ Cardinality(writing) \in Nat
    BY <2>3, <2>5, TypedQueue, SentinelsFinite, RunsFinite
  <2>7. SentinelLast'
    <3>1. queue' # <<>> => queue'[Len(queue')] = queue[Len(queue)]
      BY <2>1, TypedQueue
    <3> QED
      BY <2>1, <2>3, <3>1 DEF SentinelLast
  <2>8. CASE queue[1] = SENTINEL
    <3>1. writing' = writing \ {r} /\ held' = held
      BY <1>10, <2>4, <2>8 DEF Take
    <3>2. Cardinality(writing') = Cardinality(writing) - 1
      BY <2>1, <2>3, <3>1, RunsFinite, FS_RemoveElement
    <3>3. WritersOwed'
      BY <2>2, <2>3, <2>6, <2>8, <3>2 DEF WritersOwed
    <3>4. RunsTidy'
      BY <2>1, <3>1 DEF RunsTidy
    <3> QED
      BY <2>7, <3>3, <3>4
  <2>9. CASE queue[1] # SENTINEL
    <3>1. writing' = writing /\ held' = [held EXCEPT ![r] = queue[1]]
      BY <1>10, <2>4, <2>9 DEF Take
    <3>2. WritersOwed'
      BY <2>2, <2>3, <2>6, <2>9, <3>1 DEF WritersOwed
    <3>3. RunsTidy'
      BY <2>1, <3>1 DEF RunsTidy, TypeOK
    <3> QED
      BY <2>7, <3>2, <3>3
  <2> QED
    BY <2>8, <2>9
<1>11. ASSUME NEW r \in Runs, Store(r) PROVE WritersOwed' /\ SentinelLast' /\ RunsTidy'
  <2>1. UNCHANGED <<stage, todo, fetched, queue, writing>>
        /\ held' = [held EXCEPT ![r] = None]
    BY <1>11 DEF Store, runVars
  <2>2. RunsTidy'
    BY <2>1 DEF RunsTidy, TypeOK
  <2>3. WritersOwed' /\ SentinelLast'
    BY <2>1 DEF WritersOwed, SentinelLast, Owing, Sentinels
  <2> QED
    BY <2>2, <2>3
<1>12. CASE NewDay
  <2>1. RunsTidy' /\ Owing' = Owing
    BY <1>12 DEF NewDay, RunsTidy, Owing, runVars, writerVars
  <2> QED
    BY <1>12, <2>1, QueueKept DEF NewDay
<1>13. CASE Restart
  <2>1. writing' = {} /\ Owing' = {} /\ Sentinels(queue)' = {}
    BY <1>13 DEF Restart, Owing, Sentinels
  <2>2. WritersOwed'
    BY <2>1, FS_EmptySet DEF WritersOwed
  <2> QED
    BY <1>13, <2>1, <2>2 DEF Restart, SentinelLast, RunsTidy
<1>14. CASE UNCHANGED vars
  <2>1. RunsTidy' /\ Owing' = Owing
    BY <1>14 DEF vars, RunsTidy, Owing, runVars, writerVars
  <2> QED
    BY <1>14, <2>1, QueueKept DEF vars
<1> QED
  BY <1>1, <1>2, <1>3, <1>4, <1>5, <1>6, <1>7, <1>8, <1>9, <1>10, <1>11, <1>12,
     <1>13, <1>14 DEF Next, RunStep, WriterStep

LEMMA QueueInvDrained == QueueInv => QueueDrained
<1> SUFFICES ASSUME QueueInv, \A r \in Runs : stage[r] = "idle"
             PROVE  queue = <<>> /\ writing = {} /\ \A r \in Runs : held[r] = None
  BY DEF QueueDrained
<1>1. writing = {} /\ Owing = {} /\ \A r \in Runs : held[r] = None
  BY DEF QueueInv, RunsTidy, TypeOK, Owing
<1>2. Sentinels(queue) = {}
  <2>1. IsFiniteSet(Sentinels(queue)) /\ Cardinality(Sentinels(queue)) \in Nat
    BY TypedQueue, SentinelsFinite DEF QueueInv
  <2>2. Cardinality(Sentinels(queue)) = 0
    BY <1>1, <2>1, FS_EmptySet DEF QueueInv, WritersOwed
  <2> QED
    BY <2>1, <2>2, FS_EmptySet
<1>3. ASSUME queue # <<>> PROVE FALSE
  <2>1. queue[Len(queue)] = SENTINEL
    BY <1>1, <1>3 DEF QueueInv, SentinelLast
  <2>2. Len(queue) \in 1..Len(queue)
    BY <1>3, TypedQueue DEF QueueInv
  <2> QED
    BY <1>2, <2>1, <2>2 DEF Sentinels
<1> QED
  BY <1>1, <1>3

\* When no collection is at work the shared queue is empty and no writer is
\* left, whoever took whose SENTINEL (collect_daily_candles.py:40-41).
THEOREM UpdateQueueDrained == Spec => []QueueDrained
BY QueueInit, QueueStep, QueueInvDrained, PTL DEF Spec
=============================================================================
