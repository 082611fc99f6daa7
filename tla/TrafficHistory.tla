--------------------------- MODULE TrafficHistory ---------------------------
(***************************************************************************)
(* The traffic of the last days: the counter of pkg/util/metric, which     *)
(* keeps one number per day and moves them when it is asked, the handler   *)
(* of /api/traffic/:name, and the bar chart that the dashboard labels with *)
(* dates of its own (web/frps Traffic.vue and chart.js).                   *)
(*                                                                         *)
(* One direction is modelled; traffic in and out are two counters of this  *)
(* kind that are read and drawn together.                                  *)
(***************************************************************************)
EXTENDS Integers

CONSTANTS
    ReserveDays,   \* mem.ReserveDays, and the number of bars of the chart (7)
    DayHours,      \* how long a day may be, in hours
    MaxDay,        \* bound: the last day that is modelled
    MaxBytes,      \* bound: traffic of a day
    Req,           \* bound: requests for the chart in flight
    Nil

ASSUME HistoryAssumption ==
    /\ ReserveDays \in Nat \ {0}
    /\ DayHours \subseteq Nat \ {0}
    /\ MaxDay \in Nat /\ MaxBytes \in Nat
    /\ Nil \notin Int

VARIABLES
    day,          \* the date
    midnight,     \* when it began, in hours
    entry,        \* ProxyStatistics has the proxy
    counts,       \* c.counts
    lastUpdate,   \* c.lastUpdateDate, in hours
    traffic,      \* history: what was counted on each day, since the entry was made
    short,        \* history: the last date that began less than 24 hours after
                  \* the one before, since the entry was made
    mounted,      \* the row is expanded: the element of the chart exists
    reqs,         \* requests for the chart
    chart         \* the bars that are drawn

counter == <<entry, counts, lastUpdate, traffic, short>>
browser == <<mounted, reqs, chart>>
vars == <<day, midnight, counter, browser>>

Index == 0 .. ReserveDays - 1
Zero == [i \in Index |-> 0]
None == -ReserveDays
NoTraffic == [d \in 0 .. MaxDay |-> 0]

(* Days before the first one saw no traffic.                                *)
TrafficOn(t, d) == IF d < 0 THEN 0 ELSE t[d]

(* An answer, with the day and the histories at that moment; none in the    *)
(* 404 of a proxy without statistics.                                       *)
Answer == [data : [Index -> Nat], day : 0 .. MaxDay,
           truth : [0 .. MaxDay -> Nat], short : None .. MaxDay]
Request == [at : {"sent", "answered"}, answer : Answer \cup {Nil}]
Chart == [bars : [Index -> Nat], day : 0 .. MaxDay, answer : Answer]

TypeOK ==
    /\ day \in 0 .. MaxDay
    /\ midnight \in Nat
    /\ entry \in BOOLEAN
    /\ counts \in [Index -> Nat]
    /\ lastUpdate \in Nat
    /\ traffic \in [0 .. MaxDay -> Nat]
    /\ short \in None .. day
    /\ mounted \in BOOLEAN
    /\ reqs \in [Req -> Request \cup {Nil}]
    /\ chart \in Chart \cup {Nil}
    /\ ~mounted => chart = Nil

Init ==
    /\ day = 0 /\ midnight = 0
    /\ entry = FALSE
    /\ counts = Zero
    /\ lastUpdate = 0
    /\ traffic = NoTraffic /\ short = None
    /\ mounted = FALSE
    /\ reqs = [q \in Req |-> Nil]
    /\ chart = Nil

-----------------------------------------------------------------------------
NextDay(hours) ==
    /\ day < MaxDay
    /\ day' = day + 1
    /\ midnight' = midnight + hours
    /\ short' = IF hours < 24 THEN day + 1 ELSE short
    /\ UNCHANGED <<entry, counts, lastUpdate, traffic, browser>>

(* Mutant of Rotate: every update moves the counts by one day at most.    *)
RotateOne ==
    LET days == (midnight - lastUpdate) \div 24
    IN  IF days <= 0 THEN counts
        ELSE [i \in Index |-> IF i = 0 THEN 0 ELSE counts[i - 1]]

(* rotate, for the date of today: how the counts are moved.  lastUpdateDate *)
(* is set to today's in every case.                                         *)
Rotate ==
    LET days == (midnight - lastUpdate) \div 24
    IN  IF days <= 0 THEN counts
        ELSE [i \in Index |-> IF i < days THEN 0 ELSE counts[i - days]]

(* NewProxy of a name without statistics.                                   *)
NewProxy ==
    /\ ~entry
    /\ entry' = TRUE
    /\ counts' = Zero
    /\ lastUpdate' = midnight
    /\ traffic' = NoTraffic /\ short' = None
    /\ UNCHANGED <<day, midnight, browser>>

(* clearUselessInfo drops the statistics of a proxy closed long ago.        *)
ClearUselessInfo ==
    /\ entry
    /\ entry' = FALSE
    /\ UNCHANGED <<day, midnight, counts, lastUpdate, traffic, short, browser>>

(* AddTrafficIn, AddTrafficOut: Inc.                                        *)
Inc(bytes) ==
    /\ entry
    /\ traffic[day] + bytes <= MaxBytes
    /\ counts' = [Rotate EXCEPT ![0] = @ + bytes]
    /\ lastUpdate' = midnight
    /\ traffic' = [traffic EXCEPT ![day] = @ + bytes]
    /\ UNCHANGED <<day, midnight, entry, short, browser>>

(* TodayCount, for the list pages: it moves the counts, too.                *)
TodayCount ==
    /\ entry
    /\ counts' = Rotate
    /\ lastUpdate' = midnight
    /\ UNCHANGED <<day, midnight, entry, traffic, short, browser>>

-----------------------------------------------------------------------------
(* The row is expanded: Traffic.vue is created and asks.                    *)
Expand(q) ==
    /\ ~mounted
    /\ reqs[q] = Nil
    /\ mounted' = TRUE
    /\ reqs' = [reqs EXCEPT ![q] = [at |-> "sent", answer |-> Nil]]
    /\ UNCHANGED <<day, midnight, counter, chart>>

Collapse ==
    /\ mounted
    /\ mounted' = FALSE
    /\ chart' = Nil
    /\ UNCHANGED <<day, midnight, counter, reqs>>

(* APIProxyTraffic: GetLastDaysCount, or 404.                               *)
APIProxyTraffic(q) ==
    /\ reqs[q] # Nil
    /\ reqs[q].at = "sent"
    /\ LET days == [data |-> Rotate, day |-> day, truth |-> traffic, short |-> short]
       IN  reqs' = [reqs EXCEPT ![q] = [at |-> "answered", answer |-> IF entry THEN days ELSE Nil]]
    /\ IF entry THEN counts' = Rotate /\ lastUpdate' = midnight
                ELSE UNCHANGED <<counts, lastUpdate>>
    /\ UNCHANGED <<day, midnight, entry, traffic, short, mounted, chart>>

(* Mutant of Bars: the array is not reversed.                             *)
BarsInOrder(data) == [i \in Index |-> data[i]]

(* DrawProxyTrafficChart reverses the array: the oldest day comes first.    *)
Bars(data) == [i \in Index |-> data[ReserveDays - 1 - i]]

(* The answer is drawn into the element that has the name of the proxy, if  *)
(* there is one; the labels are the last days as the browser sees them now. *)
DrawProxyTrafficChart(q) ==
    /\ reqs[q] # Nil
    /\ reqs[q].answer # Nil
    /\ LET answer == reqs[q].answer
       IN  chart' = IF mounted THEN [bars |-> Bars(answer.data), day |-> day, answer |-> answer]
                    ELSE chart
    /\ reqs' = [reqs EXCEPT ![q] = Nil]
    /\ UNCHANGED <<day, midnight, counter, mounted>>

(* A 404 or a failed request: the catch of Traffic.vue calls a $message     *)
(* that main.js does not install; the element stays as it is.               *)
FetchFails(q) ==
    /\ reqs[q] # Nil
    /\ reqs[q].answer = Nil
    /\ reqs' = [reqs EXCEPT ![q] = Nil]
    /\ UNCHANGED <<day, midnight, counter, mounted, chart>>

-----------------------------------------------------------------------------
Next ==
    \/ \E h \in DayHours : NextDay(h)
    \/ NewProxy
    \/ ClearUselessInfo
    \/ Inc(1)
    \/ TodayCount
    \/ Collapse
    \/ \E q \in Req : Expand(q) \/ APIProxyTraffic(q) \/ DrawProxyTrafficChart(q) \/ FetchFails(q)

Spec == Init /\ [][Next]_vars

-----------------------------------------------------------------------------
(* Whenever the counter is asked, after any number of days without traffic  *)
(* and of questions in between, it answers the traffic of each of the last  *)
(* days (TodayCount and GetLastDaysCount of date_counter.go).  A day of     *)
(* less than 24 hours, which rotate does not count, spoils no date after    *)
(* the one that follows it.                                                 *)
CounterExact ==
    entry => \A i \in Index : day - i > short => Rotate[i] = TrafficOn(traffic, day - i)

(* The bar above a date is the traffic of that date, unless midnight has    *)
(* passed between the answer and the drawing, or the date is spoiled by a   *)
(* short day.                                                               *)
ChartRight ==
    chart # Nil /\ chart.day = chart.answer.day =>
        \A i \in Index :
            LET date == chart.day - (ReserveDays - 1) + i
            IN  date > chart.answer.short => chart.bars[i] = TrafficOn(chart.answer.truth, date)
=============================================================================
