--------------------------- MODULE MarketRequests ---------------------------
(***************************************************************************)
(* Market data over yfinance (services/market/market_data.py): quote polls *)
(* and refreshes of one ticker's stored daily history, by the threads of   *)
(* the web server.  All requests take turns behind one lock; an explicit   *)
(* rate limit pauses them for a while that doubles.                        *)
(*                                                                         *)
(* A history is a set of trading days; prices are left out.  The clock of  *)
(* the pause and the calendar are independent, but no call outlasts the    *)
(* day after the one it began on.                                          *)
(***************************************************************************)
EXTENDS Integers, FiniteSets, FiniteSetsExt

CONSTANTS
  Threads, NoThread,
  BaseCooldown, MaxCooldown,  \* of the pause, in ticks
  Periods,                    \* periods a full download tries, the longest first
  Reopens,                    \* trading days that follow a weekend or a holiday
  MaxCalls, MaxNow, MaxToday  \* bounds of the model

ASSUME MarketAssumption ==
  /\ NoThread \notin Threads
  /\ BaseCooldown \in Nat \ {0} /\ MaxCooldown \in Nat /\ BaseCooldown <= MaxCooldown
  /\ Periods \in Nat \ {0} /\ Reopens \subseteq Nat
  /\ {MaxCalls, MaxNow, MaxToday} \subseteq Nat

VARIABLES
  now, today,  \* the clock of the pause, the last completed trading day
  pause,       \* until, and limits in a row
  requestLock, \* YFINANCE_DOWNLOAD_LOCK
  place, task, \* place and locals of each thread
  history,     \* the stored days of the ticker
  calls,       \* calls so far
  leaks        \* requests each thread has sent during this pause (history)

marketVars == <<now, today, pause, requestLock, place, task, history, calls, leaks>>

\* period: the next one a full download tries; start: of an incremental one, 0
\* of a full one.
Blank == [job |-> "none", stage |-> "batch", start |-> 0, period |-> 1, rows |-> {},
          limited |-> FALSE, night |-> FALSE]

MarketInit ==
  /\ now = 0 /\ today = 2
  /\ pause = [until |-> 0, failures |-> 0]
  /\ requestLock = NoThread
  /\ place = [t \in Threads |-> "idle"] /\ task = [t \in Threads |-> Blank]
  /\ history \in {{}, 1..2}
  /\ calls = 0 /\ leaks = [t \in Threads |-> 0]

Paused == now < pause.until

\* A limit within a pause changes nothing.
Activated ==
  IF Paused THEN pause
  ELSE [until |-> now + Min({BaseCooldown * 2 ^ pause.failures, MaxCooldown}),
        failures |-> pause.failures + 1]

Go(t, l) == place' = [place EXCEPT ![t] = l]
Keep(t, l, m) == Go(t, l) /\ task' = [task EXCEPT ![t] = m]
Done(t) == Keep(t, "idle", Blank)

-----------------------------------------------------------------------------
(* One request to Yahoo *)

\* Mutant of DownloadFailed: a poll that was limited goes on to the recovery.
FailedGoesOn(t, limited) ==
  LET m == [task[t] EXCEPT !.limited = limited]
  IN CASE m.job = "poll" /\ m.stage = "batch" -> Keep(t, "check", [m EXCEPT !.stage = "single"])
       [] m.job = "poll" /\ m.stage = "single" -> Done(t)
       [] m.job # "poll" /\ m.start = 0 /\ ~limited /\ m.period < Periods ->
            Keep(t, "check", [m EXCEPT !.period = @ + 1])
       [] OTHER -> Keep(t, "chart", m)

\* What a request that brought no data means to its caller.  The text of a
\* refusal for the pause counts as a limit.
DownloadFailed(t, limited) ==
  LET m == [task[t] EXCEPT !.limited = limited]
  IN CASE m.job = "poll" /\ limited -> Keep(t, "limited", m)
       [] m.job = "poll" /\ ~limited /\ m.stage = "batch" ->
            Keep(t, "check", [m EXCEPT !.stage = "single"])
       [] m.job = "poll" /\ ~limited /\ m.stage = "single" -> Done(t)
       [] m.job # "poll" /\ m.start = 0 /\ ~limited /\ m.period < Periods ->
            Keep(t, "check", [m EXCEPT !.period = @ + 1])
       [] OTHER -> Keep(t, "chart", m)

\* Mutant of Check: only the callers look at the pause.
CheckNothing(t) ==
  /\ place[t] = "check"
  /\ Go(t, "wait")
  /\ UNCHANGED <<now, today, pause, requestLock, task, history, calls, leaks>>

Check(t) ==
  /\ place[t] = "check"
  /\ IF Paused THEN DownloadFailed(t, TRUE) ELSE Go(t, "wait") /\ UNCHANGED task
  /\ UNCHANGED <<now, today, pause, requestLock, history, calls, leaks>>

Send(t) ==
  /\ place[t] = "wait" /\ requestLock = NoThread
  /\ requestLock' = t /\ Go(t, "sent")
  /\ leaks' = [leaks EXCEPT ![t] = IF Paused THEN @ + 1 ELSE @]
  /\ UNCHANGED <<now, today, pause, task, history, calls>>

\* The days that a download from its start, or of a period, brings.
Downloaded(m, period) ==
  IF m.start > 0 THEN m.start .. today
  ELSE IF period = 1 THEN 1 .. today ELSE {today}

\* An empty answer is an error.  A batch may lack a ticker, which is then asked for on its own.
Answer(t) ==
  /\ place[t] = "sent" /\ requestLock' = NoThread
  /\ \/ /\ pause' = [until |-> 0, failures |-> 0]
        /\ leaks' = [u \in Threads |-> 0]
        /\ \/ task[t].job = "poll" /\ Done(t)
           \/ /\ task[t].job = "poll" /\ task[t].stage = "batch"
              /\ Keep(t, "check", [task[t] EXCEPT !.stage = "single"])
           \/ /\ task[t].job # "poll" /\ Downloaded(task[t], task[t].period) # {}
              /\ Keep(t, "write", [task[t] EXCEPT !.rows = Downloaded(task[t], task[t].period)])
     \/ pause' = Activated /\ DownloadFailed(t, TRUE) /\ UNCHANGED leaks
     \/ DownloadFailed(t, FALSE) /\ UNCHANGED <<pause, leaks>>
  /\ UNCHANGED <<now, today, history, calls>>

-----------------------------------------------------------------------------
(* Callers *)

Call(t) ==
  /\ place[t] = "idle" /\ calls < MaxCalls /\ calls' = calls + 1
  /\ \/ ~Paused /\ Keep(t, "check", [Blank EXCEPT !.job = "poll"])
     \/ Keep(t, "inspect", [Blank EXCEPT !.job = "refresh"])
     \/ Keep(t, "check", [Blank EXCEPT !.job = "full"])
  /\ UNCHANGED <<now, today, pause, requestLock, history, leaks>>

\* A poll that was limited or refused starts the pause, if it is over, again.
HandleLimit(t) ==
  /\ place[t] = "limited"
  /\ pause' = Activated /\ Done(t)
  /\ UNCHANGED <<now, today, requestLock, history, calls, leaks>>

\* The first trading day since the calendar day before one: the day itself when
\* no trading day immediately precedes it.
Since(day) == IF day \in Reopens THEN day ELSE Max({1, day - 1})

\* Mutant of Inspect: an incremental refresh begins after the last day it has.
InspectAfter(t) ==
  /\ place[t] = "inspect"
  /\ Keep(t, "check", [task[t] EXCEPT !.start = IF history = {} THEN 0 ELSE Max(history) + 1])
  /\ UNCHANGED <<now, today, pause, requestLock, history, calls, leaks>>

\* An incremental refresh begins a calendar day before the last day it has.
Inspect(t) ==
  /\ place[t] = "inspect"
  /\ Keep(t, "check", [task[t] EXCEPT !.start = IF history = {} THEN 0
                                                ELSE Since(Max(history))])
  /\ UNCHANGED <<now, today, pause, requestLock, history, calls, leaks>>

\* Yahoo Chart, then Longbridge; an incremental refresh that gets nothing there
\* begins a full one.
Chart(t) ==
  /\ place[t] = "chart"
  /\ \/ \E p \in 1..Periods : Downloaded(task[t], p) # {} /\
          Keep(t, "write", [task[t] EXCEPT !.rows = Downloaded(task[t], p)])
     \/ task[t].start > 0 /\ Keep(t, "check", [task[t] EXCEPT !.start = 0])
     \/ task[t].start = 0 /\ Done(t)
  /\ UNCHANGED <<now, today, pause, requestLock, history, calls, leaks>>

\* Mutant of MergeDays: what was downloaded replaces all days since its start.
MergeOver(t) ==
  /\ place[t] = "write" /\ task[t].start > 0
  /\ history' = {d \in history : d < task[t].start} \union task[t].rows
  /\ Done(t)
  /\ UNCHANGED <<now, today, pause, requestLock, calls, leaks>>

\* Under the file lock: merged with the days stored by now, unless they are as new.
MergeDays(t) ==
  /\ place[t] = "write" /\ task[t].start > 0
  /\ history' = IF Max(task[t].rows) <= Max(history) THEN history
                ELSE history \union task[t].rows
  /\ Done(t)
  /\ UNCHANGED <<now, today, pause, requestLock, calls, leaks>>

ReplaceDays(t) ==
  /\ place[t] = "write" /\ task[t].start = 0
  /\ history' = task[t].rows
  /\ Done(t)
  /\ UNCHANGED <<now, today, pause, requestLock, calls, leaks>>

-----------------------------------------------------------------------------
(* Time *)

Tick ==
  /\ now < MaxNow /\ now' = now + 1
  /\ leaks' = IF now' < pause.until THEN leaks ELSE [t \in Threads |-> 0]
  /\ UNCHANGED <<today, pause, requestLock, place, task, history, calls>>

NewDay ==
  /\ today < MaxToday /\ today' = today + 1
  /\ \A t \in Threads : ~task[t].night
  /\ task' = [t \in Threads |-> [task[t] EXCEPT !.night = place[t] # "idle"]]
  /\ UNCHANGED <<now, pause, requestLock, place, history, calls, leaks>>

MarketNext ==
  \/ \E t \in Threads :
       \/ Call(t) \/ Check(t) \/ Send(t) \/ Answer(t) \/ HandleLimit(t)
       \/ Inspect(t) \/ Chart(t) \/ MergeDays(t) \/ ReplaceDays(t)
  \/ Tick \/ NewDay

MarketSpec == MarketInit /\ [][MarketNext]_marketVars

-----------------------------------------------------------------------------
(* Properties *)

\* What is left of the pause under interleaving: a thread that has looked at the
\* pause and waits for the lock still sends its one request, and no thread sends
\* a second one.  "Investment polling must not bypass it with per-ticker request
\* fan-out": a poll that was limited or refused sends no more, even if another
\* thread's success has ended the pause.
LimitObeyed ==
  \A t \in Threads :
    /\ leaks[t] <= 1
    /\ task[t].job = "poll" /\ task[t].limited => place[t] = "limited"

\* "A Yahoo rate-limit signal pauses every yfinance request routed through the
\* shared market-data service": no request is sent within a pause.  The code
\* looks at the pause before it waits for the lock, not when it has it.
PausesAll == \A t \in Threads : leaks[t] = 0

\* "go back 1 day to ensure overlap and consistency": the stored history never
\* has a hole, although after a weekend the overlap is the last stored day only,
\* refreshes overlap and a full download may bring back an older table than the
\* one an incremental refresh began with.
NoHole == history # {} => history = Min(history) .. Max(history)

\* An incremental refresh loses no day that another one has stored.
MergeKeeps ==
  [][\A t \in Threads :
       place[t] = "write" /\ task[t].start > 0 /\ place'[t] = "idle" => history \subseteq history'
    ]_marketVars
=============================================================================
