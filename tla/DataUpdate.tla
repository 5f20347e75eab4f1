----------------------------- MODULE DataUpdate -----------------------------
(***************************************************************************)
(* The daily collection of candles (src/data_pipeline/                     *)
(* detect_new_listings.py, collect_daily_candles.py) as two runs of one    *)
(* process share it: the 17:00 job of the engine (scheduler_jobs.py,       *)
(* _daily_data_update) and the "daily run" button of the GUI               *)
(* (daily_run_worker.py).  The engine's flag keeps out a second job, the   *)
(* GUI's a second worker, and nothing keeps the two apart: each starts a   *)
(* writer thread of its own on the one result_queue of the module.         *)
(*                                                                         *)
(* A bar is a day of a ticker; rows that filter_invalid_rows drops are no  *)
(* bars.  The collection of market caps and indices that follows writes    *)
(* other tables and is left out.                                           *)
(***************************************************************************)
EXTENDS Integers, Sequences, FiniteSets

CONSTANTS
    Tickers,   \* what the exchange lists in the end
    New,       \* tickers listed on the second day, the others on the first
    QueueSize, \* maxsize
    LastDay    \* bound: trading days looked at

ASSUME UpdateAssumption ==
    /\ New \subseteq Tickers
    /\ QueueSize \in Nat \ {0} /\ LastDay \in Nat \ 0..1

VARIABLES
    day,     \* date.today()
    due,     \* runs that may still be started today; bound: the button is used once a day
    listed,  \* listed_date of each row of stocks; 0: no row
    candles, \* rows of daily_candles: the days stored of each ticker
    stage,   \* where each run's main() stands
    todo,    \* what a run's executor has not fetched yet
    fetched, \* results its as_completed loop has not put yet
    queue,   \* result_queue
    writing, \* writer threads that run
    held     \* the item a writer has taken and not finished

runVars == <<stage, todo, fetched>>
writerVars == <<queue, writing, held>>
vars == <<day, due, listed, candles, runVars, writerVars>>

Runs == {"engine", "gui"}
Days == 1..LastDay
FirstDay(t) == IF t \in New THEN 2 ELSE 1
Stocks == {t \in Tickers : listed[t] # 0}

Task == [ticker : Tickers, from : Days]
Item == [ticker : Tickers, from : Days, to : Days]
SENTINEL == [to |-> -1]
None == [to |-> -2]

TypeOK ==
    /\ day \in Days /\ due \subseteq Runs
    /\ listed \in [Tickers -> 0..LastDay]
    /\ candles \in [Tickers -> SUBSET Days]
    /\ stage \in [Runs -> {"idle", "listing", "candles", "collect", "join"}]
    /\ todo \in [Runs -> SUBSET Task] /\ fetched \in [Runs -> SUBSET Item]
    /\ queue \in Seq(Item \cup {SENTINEL}) /\ Len(queue) <= QueueSize
    /\ writing \subseteq Runs
    /\ held \in [Runs -> Item \cup {None}]

\* On the second day, after a first whose run may have missed tickers.
Init ==
    /\ day = 2 /\ due = Runs
    /\ listed = [t \in Tickers |-> IF t \in New THEN 0 ELSE 1]
    /\ candles \in [Tickers -> {{}, {1}}] /\ \A t \in New : candles[t] = {}
    /\ stage = [r \in Runs |-> "idle"]
    /\ todo = [r \in Runs |-> {}] /\ fetched = [r \in Runs |-> {}]
    /\ queue = <<>> /\ writing = {}
    /\ held = [r \in Runs |-> None]

----------------------------------------------------------------------------
(* The runs.                                                               *)

\* 17:00; a job that finds the last one at work is skipped.
EngineStarts ==
    /\ "engine" \in due /\ due' = due \ {"engine"}
    /\ stage' = IF stage["engine"] = "idle" THEN [stage EXCEPT !["engine"] = "listing"] ELSE stage
    /\ UNCHANGED <<day, listed, candles, todo, fetched, writerVars>>

\* The button, at any hour.
GuiStarts ==
    /\ stage["gui"] = "idle"
    /\ "gui" \in due /\ due' = due \ {"gui"}
    /\ stage' = [stage EXCEPT !["gui"] = "listing"]
    /\ UNCHANGED <<day, listed, candles, todo, fetched, writerVars>>

\* Step 1.  The newest list the exchange hands out may be of an earlier day;
\* what is in it and not yet in stocks is entered as listed today.  A failure
\* ends the GUI's run; the engine's goes on.
Listed(r) ==
    /\ stage[r] = "listing"
    /\ \E base \in 1..day :
          listed' = [t \in Tickers |->
              IF t \notin Stocks /\ FirstDay(t) <= base THEN day ELSE listed[t]]
    /\ stage' = [stage EXCEPT ![r] = "candles"]
    /\ UNCHANGED <<day, due, candles, todo, fetched, writerVars>>

ListingFails(r) ==
    /\ stage[r] = "listing"
    /\ stage' = [stage EXCEPT ![r] = IF r = "gui" THEN "idle" ELSE "candles"]
    /\ UNCHANGED <<day, due, listed, candles, todo, fetched, writerVars>>

Last(t) == CHOOSE d \in candles[t] : \A e \in candles[t] : e <= d

\* Mutant: one start for all, after the latest candle of any ticker.
StartOfAll(t) ==
    IF candles[t] = {} THEN listed[t]
    ELSE LET Stored == UNION {candles[u] : u \in Tickers}
         IN  1 + (CHOOSE d \in Stored : \A e \in Stored : e <= d)

\* The day after the ticker's last candle, or its listed_date.
Start(t) == IF candles[t] = {} THEN listed[t] ELSE Last(t) + 1

ToFetch == {[ticker |-> t, from |-> Start(t)] : t \in {u \in Stocks : Start(u) <= day}}

\* Mutant: the writer is started before the list is looked at.
WriterFirst(r) ==
    /\ writing' = writing \cup {r}
    /\ stage' = [stage EXCEPT ![r] = IF ToFetch = {} THEN "idle" ELSE "collect"]
    /\ todo' = [todo EXCEPT ![r] = ToFetch]

\* With nothing to fetch main() returns, else it starts its writer.
Begin(r) ==
    \/ /\ ToFetch = {}
       /\ stage' = [stage EXCEPT ![r] = "idle"]
       /\ UNCHANGED <<todo, writing>>
    \/ /\ ToFetch # {}
       /\ stage' = [stage EXCEPT ![r] = "collect"]
       /\ todo' = [todo EXCEPT ![r] = ToFetch]
       /\ writing' = writing \cup {r}

Collect(r) ==
    /\ stage[r] = "candles"
    /\ Begin(r)
    /\ UNCHANGED <<day, due, listed, candles, fetched, queue, held>>

\* fetch_ticker_data in the executor: the days asked of the source.
Fetch(r) ==
    /\ \E task \in todo[r] :
           /\ todo' = [todo EXCEPT ![r] = @ \ {task}]
           /\ fetched' = [fetched EXCEPT ![r] = @ \cup
                  {[ticker |-> task.ticker, from |-> task.from, to |-> day]}]
    /\ UNCHANGED <<day, due, listed, candles, stage, writerVars>>

\* Mutant: the bound of the queue is forgotten.
NoBound == TRUE

HasRoom == Len(queue) < QueueSize

\* put() blocks while the queue is full.
Put(r) ==
    /\ HasRoom
    /\ \E item \in fetched[r] :
           /\ queue' = Append(queue, item)
           /\ fetched' = [fetched EXCEPT ![r] = @ \ {item}]
    /\ UNCHANGED <<day, due, listed, candles, stage, todo, writing, held>>

\* Mutant: the results on their way are not waited for.
AllSubmitted(r) == todo[r] = {}

AllPut(r) == todo[r] = {} /\ fetched[r] = {}

PutSentinel(r) ==
    /\ stage[r] = "collect" /\ AllPut(r)
    /\ HasRoom
    /\ queue' = Append(queue, SENTINEL)
    /\ stage' = [stage EXCEPT ![r] = "join"]
    /\ UNCHANGED <<day, due, listed, candles, todo, fetched, writing, held>>

\* writer.join() and the report.
Joined(r) ==
    /\ stage[r] = "join" /\ r \notin writing
    /\ stage' = [stage EXCEPT ![r] = "idle"]
    /\ UNCHANGED <<day, due, listed, candles, todo, fetched, writerVars>>

----------------------------------------------------------------------------
(* The writers.  Whose item or SENTINEL one takes, nobody looks at.  That  *)
(* a writer can open the database (collect_daily_candles.py:84) is         *)
(* assumed: without it nobody empties the queue and the run hangs.         *)

Take(r) ==
    /\ r \in writing /\ held[r] = None /\ queue # <<>>
    /\ queue' = Tail(queue)
    /\ \/ /\ Head(queue) = SENTINEL
          /\ writing' = writing \ {r} /\ UNCHANGED held
       \/ /\ Head(queue) # SENTINEL
          /\ held' = [held EXCEPT ![r] = Head(queue)] /\ UNCHANGED writing
    /\ UNCHANGED <<day, due, listed, candles, runVars>>

\* The source may have answered nothing, or all but the last days, and an
\* error ends the item; rows are written in the order of their days, and those
\* before an error are committed with the next item or not at all.
Store(r) ==
    /\ held[r] # None
    /\ \E to \in {d \in 0..LastDay : d <= held[r].to} :
           candles' = [candles EXCEPT ![held[r].ticker] = @ \cup
               {d \in Days : FirstDay(held[r].ticker) <= d /\ held[r].from <= d /\ d <= to}]
    /\ held' = [held EXCEPT ![r] = None]
    /\ UNCHANGED <<day, due, listed, runVars, queue, writing>>

----------------------------------------------------------------------------
(* The calendar and the process.                                           *)

NewDay ==
    /\ day < LastDay
    /\ day' = day + 1 /\ due' = Runs
    /\ UNCHANGED <<listed, candles, runVars, writerVars>>

\* The process ends and is started again; the database stays.
Restart ==
    /\ stage' = [r \in Runs |-> "idle"]
    /\ todo' = [r \in Runs |-> {}] /\ fetched' = [r \in Runs |-> {}]
    /\ queue' = <<>> /\ writing' = {} /\ held' = [r \in Runs |-> None]
    /\ UNCHANGED <<day, due, listed, candles>>

RunStep(r) ==
    \/ Listed(r) \/ ListingFails(r) \/ Collect(r)
    \/ Fetch(r) \/ Put(r) \/ PutSentinel(r) \/ Joined(r)

WriterStep(r) == Take(r) \/ Store(r)

Next ==
    \/ EngineStarts \/ GuiStarts
    \/ \E r \in Runs : RunStep(r) \/ WriterStep(r)
    \/ NewDay \/ Restart

\* Threads are scheduled, and the sources answer or time out.
Fairness == \A r \in Runs : WF_vars(RunStep(r)) /\ WF_vars(WriterStep(r))

Spec == Init /\ [][Next]_vars /\ Fairness

----------------------------------------------------------------------------
(* Properties.                                                             *)

\* However two runs and their writers mix, and wherever fetches and writes
\* fail or the process ends, a ticker has no candle after a day without one
\* since its listed_date (collect_daily_candles.py:273-298): incremental runs
\* never look back, so a hole would stay for ever.  Days before listed_date,
\* which is the day of detection (detect_new_listings.py:73), are not fetched.
NoHoles ==
    \A t \in Tickers : \A d \in candles[t] : listed[t]..d \subseteq candles[t]

\* When no run is at work none has left anything in the shared queue: an item
\* would be lost, and a SENTINEL would end the next run's writer at once
\* (collect_daily_candles.py:40-41, 404-405).
QueueDrained ==
    (\A r \in Runs : stage[r] = "idle") =>
        queue = <<>> /\ writing = {} /\ \A r \in Runs : held[r] = None

\* A run ends, whoever takes its SENTINEL and however full the queue is; only
\* then is _data_update_running reset (scheduler_jobs.py:273-297).
RunsEnd == \A r \in Runs : []<>(stage[r] = "idle")
=============================================================================
