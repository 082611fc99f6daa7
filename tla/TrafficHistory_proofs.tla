----------------------- MODULE TrafficHistory_proofs -----------------------
(***************************************************************************)
(* The counter of the days and the chart made of it, for any number of     *)
(* bytes, of days without traffic and of requests, where a day may be as   *)
(* short as it likes, has at most 25 hours, and at most 24 are kept.       *)
(***************************************************************************)
EXTENDS TrafficHistory, TLAPS

LEMMA Bounds ==
    /\ ReserveDays \in Nat /\ ReserveDays > 0
    /\ MaxDay \in Nat
    /\ Index = 0 .. ReserveDays - 1
    /\ 0 \in Index
  BY HistoryAssumption DEF Index

(* However long the days were, Rotate makes one number per day.             *)
LEMMA RotateType ==
    ASSUME TypeOK
    PROVE  Rotate \in [Index -> Nat]
<1> DEFINE days == (midnight - lastUpdate) \div 24
<1>1. days \in Int /\ counts \in [Index -> Nat]
  BY DEF TypeOK
<1> HIDE DEF days
<1>2. CASE days <= 0
  BY <1>1, <1>2 DEF Rotate, days
<1>3. CASE ~(days <= 0)
  <2>1. Rotate = [i \in Index |-> IF i < days THEN 0 ELSE counts[i - days]]
    BY <1>3 DEF Rotate, days
  <2>2. \A i \in Index : ~(i < days) => i - days \in Index
    BY <1>1, <1>3, Bounds
  <2> QED BY <1>1, <2>1, <2>2
<1> QED BY <1>2, <1>3

LEMMA BarsType ==
    ASSUME NEW data \in [Index -> Nat]
    PROVE  Bars(data) \in [Index -> Nat]
<1>1. \A i \in Index : ReserveDays - 1 - i \in Index
  BY Bounds
<1> QED BY <1>1 DEF Bars

(* The counter and the browser keep their types, however long a day is, and *)
(* no chart outlives the element it was drawn into.                         *)
THEOREM TypeCorrect == Spec => []TypeOK
<1> USE Bounds
<1>1. Init => TypeOK
  <2> SUFFICES ASSUME Init PROVE TypeOK
    OBVIOUS
  <2>1. day \in 0 .. MaxDay /\ midnight \in Nat /\ lastUpdate \in Nat
    BY DEF Init
  <2>2. /\ counts \in [Index -> Nat] /\ traffic \in [0 .. MaxDay -> Nat]
        /\ short \in None .. day
    BY DEF Init, Zero, NoTraffic, None
  <2>3. mounted \in BOOLEAN /\ entry \in BOOLEAN
    BY DEF Init
  <2>4. reqs \in [Req -> Request \cup {Nil}] /\ chart \in Chart \cup {Nil} /\ chart = Nil
    BY DEF Init
  <2> QED BY <2>1, <2>2, <2>3, <2>4 DEF TypeOK
<1>2. TypeOK /\ [Next]_vars => TypeOK'
  <2> SUFFICES ASSUME TypeOK, [Next]_vars PROVE TypeOK'
    OBVIOUS
  <2>1. CASE UNCHANGED vars
    BY <2>1 DEF vars, counter, browser, TypeOK
  <2>2. ASSUME NEW h \in DayHours, NextDay(h) PROVE TypeOK'
    <3>1. h \in Nat
      BY HistoryAssumption
    <3>2. /\ day' = day + 1 /\ day < MaxDay /\ midnight' = midnight + h
          /\ short' = (IF h < 24 THEN day + 1 ELSE short)
          /\ UNCHANGED <<entry, counts, lastUpdate, traffic, mounted, reqs, chart>>
      BY <2>2 DEF NextDay, browser
    <3>3. /\ day' \in 0 .. MaxDay /\ midnight' \in Nat
          /\ short' \in None .. day'
      BY <3>1, <3>2 DEF TypeOK, None
    <3> QED BY <3>2, <3>3 DEF TypeOK
  <2>3. CASE NewProxy
    BY <2>3 DEF NewProxy, browser, TypeOK, Zero, NoTraffic, None
  <2>4. CASE ClearUselessInfo
    BY <2>4 DEF ClearUselessInfo, browser, TypeOK
  <2>5. CASE Inc(1)
    <3>1. Rotate \in [Index -> Nat] /\ day \in 0 .. MaxDay /\ traffic[day] \in Nat
      BY RotateType DEF TypeOK
    <3>2. counts' \in [Index -> Nat]
      BY <2>5, <3>1 DEF Inc
    <3>3. traffic' \in [0 .. MaxDay -> Nat]
      BY <2>5, <3>1 DEF Inc, TypeOK
    <3> QED BY <2>5, <3>2, <3>3 DEF Inc, browser, TypeOK
  <2>6. CASE TodayCount
    BY <2>6, RotateType DEF TodayCount, browser, TypeOK
  <2>7. CASE Collapse
    BY <2>7 DEF Collapse, counter, TypeOK
  <2>8. ASSUME NEW q \in Req, Expand(q) PROVE TypeOK'
    <3>1. [at |-> "sent", answer |-> Nil] \in Request
      BY DEF Request
    <3> QED BY <2>8, <3>1 DEF Expand, counter, TypeOK
  <2>9. ASSUME NEW q \in Req, APIProxyTraffic(q) PROVE TypeOK'
    <3> DEFINE a == [data |-> Rotate, day |-> day, truth |-> traffic, short |-> short]
               r == [at |-> "answered", answer |-> IF entry THEN a ELSE Nil]
    <3>1. a \in Answer
      BY RotateType DEF Answer, TypeOK, None
    <3> HIDE DEF a
    <3>2. r \in Request
      BY <3>1 DEF Request
    <3>3. reqs' = [reqs EXCEPT ![q] = r]
      BY <2>9 DEF APIProxyTraffic, a
    <3> HIDE DEF r
    <3> QED BY <2>9, <3>2, <3>3, RotateType DEF APIProxyTraffic, TypeOK
  <2>10. ASSUME NEW q \in Req, DrawProxyTrafficChart(q) PROVE TypeOK'
    <3> DEFINE a == reqs[q].answer
               c == [bars |-> Bars(a.data), day |-> day, answer |-> a]
    <3>1. a \in Answer
      BY <2>10 DEF DrawProxyTrafficChart, TypeOK, Request
    <3>2. c \in Chart
      BY <3>1, BarsType DEF Chart, Answer, TypeOK
    <3>3. chart' = (IF mounted THEN c ELSE chart) /\ reqs' = [reqs EXCEPT ![q] = Nil]
          /\ UNCHANGED <<day, midnight, counter, mounted>>
      BY <2>10 DEF DrawProxyTrafficChart
    <3> HIDE DEF c
    <3> QED BY <3>2, <3>3 DEF counter, TypeOK
  <2>11. ASSUME NEW q \in Req, FetchFails(q) PROVE TypeOK'
    BY <2>11 DEF FetchFails, counter, TypeOK
  <2> QED
    BY <2>1, <2>2, <2>3, <2>4, <2>5, <2>6, <2>7, <2>8, <2>9, <2>10, <2>11 DEF Next
<1> QED BY <1>1, <1>2, PTL DEF Spec

-----------------------------------------------------------------------------
(* The counts are right for the day of the last update, back to the last    *)
(* short day, and nothing was counted since.  The hours between are those   *)
(* of the days since the update, or since a later short day, at least.      *)
UpTo(d) ==
    /\ lastUpdate <= midnight
    /\ midnight - lastUpdate <= 25 * (day - d)
    /\ short <= d => 24 * (day - d) <= midnight - lastUpdate
    /\ d < short => 24 * (day - short) <= midnight - lastUpdate
    /\ \A i \in Index : d - i > short => counts[i] = TrafficOn(traffic, d - i)
    /\ \A e \in d + 1 .. MaxDay : traffic[e] = 0

CounterInv == entry => \E d \in 0 .. day : UpTo(d)

(* An answer is right about the traffic at the time it was given.           *)
RightAnswer(a) ==
    /\ a.day \in 0 .. MaxDay
    /\ \A i \in Index : a.day - i > a.short => a.data[i] = TrafficOn(a.truth, a.day - i)

AnswersInv ==
    /\ \A q \in Req : reqs[q] # Nil /\ reqs[q].answer # Nil => RightAnswer(reqs[q].answer)
    /\ chart # Nil => chart.bars = Bars(chart.answer.data) /\ RightAnswer(chart.answer)

(* The hours tell the days: an hour more in each of fewer than 24 days does *)
(* not add up to a day, and after 24 days nothing is left of the counts.    *)
LEMMA WholeDays ==
    ASSUME ReserveDays <= 24, NEW k \in Nat, NEW h \in Int, 24 * k <= h, h <= 25 * k
    PROVE  /\ h \div 24 \in Nat /\ h \div 24 >= k
           /\ k = 0 => h \div 24 = 0
           /\ h \div 24 = k \/ k >= ReserveDays
<1> DEFINE n == h \div 24
<1>1. n \in Int /\ 24 * n <= h /\ h < 24 * n + 24
  OBVIOUS
<1> HIDE DEF n
<1>2. n >= k
  BY <1>1
<1>3. k = 0 => n = 0
  BY <1>1
<1>4. n = k \/ k >= 24
  BY <1>1
<1> QED BY <1>1, <1>2, <1>3, <1>4, Bounds DEF n

(* Rotate moves the counts of the last update to where they belong today.   *)
(* When a short day came since, at least the days after it are moved.       *)
LEMMA RotateRight ==
    ASSUME ReserveDays <= 24, TypeOK, CounterInv, entry
    PROVE  /\ \A i \in Index : day - i > short => Rotate[i] = TrafficOn(traffic, day - i)
           /\ \A e \in day + 1 .. MaxDay : traffic[e] = 0
<1>1. PICK d \in 0 .. day : UpTo(d)
  BY DEF CounterInv
<1>2. day \in Nat /\ d \in Nat /\ d <= day /\ MaxDay \in Nat /\ day - d \in Nat /\ day <= MaxDay
  BY Bounds DEF TypeOK
<1> DEFINE days == (midnight - lastUpdate) \div 24
<1>3. days \in Int /\ short \in Int /\ midnight - lastUpdate \in Int
  BY DEF TypeOK, None
<1>4. \A e \in day + 1 .. MaxDay : traffic[e] = 0
  BY <1>1, <1>2 DEF UpTo
<1>5. ASSUME short <= d PROVE /\ days \in Nat /\ days >= day - d
                              /\ day - d = 0 => days = 0
                              /\ days = day - d \/ day - d >= ReserveDays
  <2>1. 24 * (day - d) <= midnight - lastUpdate /\ midnight - lastUpdate <= 25 * (day - d)
    BY <1>1, <1>5 DEF UpTo
  <2> QED BY <1>2, <1>3, <2>1, WholeDays
<1>6. ASSUME d < short PROVE days >= day - short
  <2>1. 24 * (day - short) <= midnight - lastUpdate
    BY <1>1, <1>6 DEF UpTo
  <2> QED BY <1>2, <1>3, <2>1
<1> HIDE DEF days
<1>7. ASSUME NEW i \in Index, day - i > d PROVE TrafficOn(traffic, day - i) = 0
  <2>1. day - i \in d + 1 .. MaxDay /\ ~(day - i < 0)
    BY <1>2, <1>7, Bounds
  <2> QED BY <1>1, <2>1 DEF UpTo, TrafficOn
<1>8. ASSUME NEW i \in Index, days > 0
      PROVE  Rotate[i] = IF i < days THEN 0 ELSE counts[i - days]
  BY <1>3, <1>8 DEF Rotate, days
<1>9. ASSUME NEW i \in Index, day - i > short PROVE Rotate[i] = TrafficOn(traffic, day - i)
  <2>1. i \in Nat /\ i < ReserveDays
    BY Bounds
  <2>2. CASE d < short
    <3>1. days > 0 /\ i < days /\ day - i > d
      BY <1>2, <1>3, <1>6, <1>9, <2>1, <2>2
    <3> QED BY <1>7, <1>8, <3>1
  <2>3. CASE short <= d /\ i < day - d
    <3>1. days > 0 /\ i < days /\ day - i > d
      BY <1>2, <1>5, <2>1, <2>3
    <3> QED BY <1>7, <1>8, <3>1
  <2>4. CASE short <= d /\ day = d
    <3>1. days = 0 /\ d - i > short
      BY <1>2, <1>5, <1>9, <2>4
    <3>2. Rotate = counts
      BY <3>1 DEF Rotate, days
    <3> QED BY <1>1, <2>4, <3>1, <3>2 DEF UpTo
  <2>5. CASE short <= d /\ day # d /\ ~(i < day - d)
    <3>1. days = day - d /\ days > 0
      BY <1>2, <1>5, <2>1, <2>5, Bounds
    <3>2. i - days \in Index /\ ~(i < days) /\ d - (i - days) = day - i
      BY <1>2, <2>1, <2>5, <3>1, Bounds
    <3>3. counts[i - days] = TrafficOn(traffic, d - (i - days))
      BY <1>1, <1>9, <3>2 DEF UpTo
    <3> QED BY <1>8, <3>1, <3>2, <3>3
  <2> QED BY <1>2, <1>3, <2>2, <2>3, <2>4, <2>5
<1> QED BY <1>4, <1>9

(* After an update of today the counter is right for today.                 *)
LEMMA UpdateRight ==
    ASSUME TypeOK', lastUpdate' = midnight',
           \A i \in Index : day' - i > short' => counts'[i] = TrafficOn(traffic', day' - i),
           \A e \in day' + 1 .. MaxDay : traffic'[e] = 0
    PROVE  CounterInv'
<1>1. day' \in Nat /\ midnight' \in Nat /\ lastUpdate' \in Nat
  BY Bounds DEF TypeOK
<1>2. short' \in Int /\ short' <= day'
  BY <1>1 DEF TypeOK, None
<1>3. UpTo(day)'
  <2>1. \A n \in Nat, m \in Nat : 24 * (n - n) <= m - m /\ m - m <= 25 * (n - n) /\ m <= m
    OBVIOUS
  <2>2. /\ 24 * (day' - day') <= midnight' - lastUpdate'
        /\ midnight' - lastUpdate' <= 25 * (day' - day')
        /\ lastUpdate' <= midnight'
    BY <1>1, <2>1
  <2>3. ~(day' < short')
    BY <1>1, <1>2
  <2> QED BY <2>2, <2>3 DEF UpTo
<1> QED BY <1>1, <1>3 DEF CounterInv

HistoryInv == CounterInv /\ AnswersInv

LEMMA HistoryStep ==
    ASSUME \A h \in DayHours : h <= 25, ReserveDays <= 24,
           TypeOK, TypeOK', HistoryInv, [Next]_vars
    PROVE  HistoryInv'
<1> USE Bounds DEF HistoryInv
<1>1. ASSUME UNCHANGED <<day, counts, lastUpdate, traffic, short, midnight, entry>> PROVE CounterInv'
  BY <1>1 DEF CounterInv, UpTo
<1>2. ASSUME UNCHANGED <<reqs, chart>> PROVE AnswersInv'
  BY <1>2 DEF AnswersInv
<1>3. CASE UNCHANGED vars
  BY <1>1, <1>2, <1>3 DEF vars, counter, browser
<1>4. ASSUME NEW h \in DayHours, NextDay(h) PROVE HistoryInv'
  <2>1. h \in Nat /\ h <= 25 /\ day \in Nat /\ midnight \in Nat /\ lastUpdate \in Nat /\ short \in Int
        /\ short <= day
    BY HistoryAssumption DEF TypeOK, None
  <2>2. day' = day + 1 /\ midnight' = midnight + h /\ day < MaxDay
        /\ short' = (IF h < 24 THEN day + 1 ELSE short)
        /\ UNCHANGED <<entry, counts, lastUpdate, traffic, mounted, reqs, chart>>
    BY <1>4 DEF NextDay, browser
  <2>3. ASSUME NEW d \in 0 .. day, UpTo(d) PROVE d \in 0 .. day' /\ UpTo(d)'
    <3>1. /\ lastUpdate' <= midnight'
          /\ midnight' - lastUpdate' <= 25 * (day' - d)
      BY <2>1, <2>2, <2>3 DEF UpTo
    <3>2. short' <= d => 24 * (day' - d) <= midnight' - lastUpdate'
      BY <2>1, <2>2, <2>3 DEF UpTo
    <3>3. d < short' => 24 * (day' - short') <= midnight' - lastUpdate'
      BY <2>1, <2>2, <2>3 DEF UpTo
    <3>4. \A i \in Index : d - i > short' => counts'[i] = TrafficOn(traffic', d - i)
      BY <2>1, <2>2, <2>3 DEF UpTo
    <3>5. \A e \in d + 1 .. MaxDay : traffic'[e] = 0
      BY <2>2, <2>3 DEF UpTo
    <3> QED BY <2>1, <2>2, <3>1, <3>2, <3>3, <3>4, <3>5 DEF UpTo
  <2>4. CounterInv'
    BY <2>2, <2>3 DEF CounterInv
  <2> QED BY <1>2, <2>2, <2>4
<1>5. CASE NewProxy
  <2>1. \A i \in Index : counts'[i] = 0
    BY <1>5 DEF NewProxy, Zero
  <2>2. \A e \in 0 .. MaxDay : traffic'[e] = 0
    BY <1>5 DEF NewProxy, NoTraffic
  <2>3. day' = day /\ lastUpdate' = midnight' /\ day \in 0 .. MaxDay
    BY <1>5 DEF NewProxy, TypeOK
  <2>4. \A i \in Index : TrafficOn(traffic', day - i) = 0
    BY <2>2, <2>3 DEF TrafficOn
  <2>5. \A e \in day + 1 .. MaxDay : traffic'[e] = 0
    BY <2>2, <2>3
  <2>6. CounterInv'
    BY <2>1, <2>3, <2>4, <2>5, UpdateRight
  <2> QED BY <1>2, <1>5, <2>6 DEF NewProxy, browser
<1>6. CASE ClearUselessInfo
  BY <1>2, <1>6 DEF ClearUselessInfo, CounterInv, browser
<1>7. CASE Inc(1)
  <2>1. entry /\ day \in 0 .. MaxDay /\ day \in Nat /\ Rotate \in [Index -> Nat]
    <3>1. entry
      BY <1>7 DEF Inc
    <3>2. day \in 0 .. MaxDay /\ day \in Nat
      BY DEF TypeOK
    <3> QED BY <3>1, <3>2, RotateType
  <2>2. /\ \A i \in Index : day - i > short => Rotate[i] = TrafficOn(traffic, day - i)
        /\ \A e \in day + 1 .. MaxDay : traffic[e] = 0
    BY <2>1, RotateRight
  <2>3. /\ counts' = [Rotate EXCEPT ![0] = Rotate[0] + 1]
        /\ traffic' = [traffic EXCEPT ![day] = traffic[day] + 1]
        /\ lastUpdate' = midnight
        /\ UNCHANGED <<day, midnight, entry, short, mounted, reqs, chart>>
    BY <1>7 DEF Inc, browser
  <2>4. ASSUME NEW i \in Index, day - i > short PROVE counts'[i] = TrafficOn(traffic', day - i)
    <3>1. CASE i = 0
      BY <2>1, <2>2, <2>3, <2>4, <3>1 DEF TrafficOn, TypeOK
    <3>2. CASE i # 0
      <4>1. i \in Nat /\ day - i # day /\ counts'[i] = Rotate[i]
        BY <2>1, <2>2, <2>3, <3>2
      <4>2. CASE day - i < 0
        BY <2>2, <2>4, <4>1, <4>2 DEF TrafficOn
      <4>3. CASE ~(day - i < 0)
        <5>1. day - i \in 0 .. MaxDay
          BY <2>1, <4>1, <4>3
        <5>2. traffic'[day - i] = traffic[day - i]
          BY <2>3, <4>1, <5>1 DEF TypeOK
        <5> QED BY <2>2, <2>4, <4>1, <4>3, <5>2 DEF TrafficOn
      <4> QED BY <4>2, <4>3
    <3> QED BY <3>1, <3>2
  <2>5. \A e \in day + 1 .. MaxDay : traffic'[e] = 0
    BY <2>1, <2>2, <2>3 DEF TypeOK
  <2>6. CounterInv'
    BY <2>3, <2>4, <2>5, UpdateRight
  <2> QED BY <1>2, <2>3, <2>6
<1>8. ASSUME entry, counts' = Rotate, lastUpdate' = midnight,
             UNCHANGED <<day, midnight, entry, traffic, short>>
      PROVE  CounterInv'
  BY <1>8, RotateRight, UpdateRight
<1>9. CASE TodayCount
  BY <1>2, <1>8, <1>9 DEF TodayCount, browser
<1>10. CASE Collapse
  BY <1>1, <1>10 DEF Collapse, AnswersInv, counter
<1>11. ASSUME NEW q \in Req, Expand(q) PROVE HistoryInv'
  <2>1. AnswersInv'
    BY <1>11 DEF Expand, AnswersInv, TypeOK
  <2> QED BY <1>1, <1>11, <2>1 DEF Expand, counter
<1>12. ASSUME NEW q \in Req, APIProxyTraffic(q) PROVE HistoryInv'
  <2> DEFINE a == [data |-> Rotate, day |-> day, truth |-> traffic, short |-> short]
  <2>1. CASE entry
    <3>1. RightAnswer(a)
      BY <2>1, RotateRight DEF RightAnswer, TypeOK
    <3>2. reqs' = [reqs EXCEPT ![q] = [at |-> "answered", answer |-> a]]
      BY <1>12, <2>1 DEF APIProxyTraffic
    <3> HIDE DEF a
    <3>3. AnswersInv'
      BY <1>12, <3>1, <3>2 DEF APIProxyTraffic, AnswersInv, TypeOK
    <3> QED BY <1>8, <1>12, <2>1, <3>3 DEF APIProxyTraffic
  <2>2. CASE ~entry
    <3>1. reqs' = [reqs EXCEPT ![q] = [at |-> "answered", answer |-> Nil]]
      BY <1>12, <2>2 DEF APIProxyTraffic
    <3>2. AnswersInv'
      BY <1>12, <3>1 DEF APIProxyTraffic, AnswersInv, TypeOK
    <3> QED BY <1>1, <1>12, <2>2, <3>2 DEF APIProxyTraffic
  <2> QED BY <2>1, <2>2 DEF TypeOK
<1>13. ASSUME NEW q \in Req, DrawProxyTrafficChart(q) \/ FetchFails(q) PROVE HistoryInv'
  <2> DEFINE RightChart(c) == c # Nil => c.bars = Bars(c.answer.data) /\ RightAnswer(c.answer)
  <2>1. AnswersInv'
    <3>1. reqs' = [reqs EXCEPT ![q] = Nil] /\ reqs \in [Req -> Request \cup {Nil}]
      BY <1>13 DEF DrawProxyTrafficChart, FetchFails, TypeOK
    <3>2. \A x \in Req : reqs'[x] # Nil /\ reqs'[x].answer # Nil => RightAnswer(reqs'[x].answer)
      BY <3>1 DEF AnswersInv
    <3>3. RightChart(chart)
      BY DEF AnswersInv
    <3>4. CASE chart' = chart
      BY <3>2, <3>3, <3>4 DEF AnswersInv, RightAnswer
    <3>5. CASE chart' # chart
      <4>1. PICK a : a = reqs[q].answer
        OBVIOUS
      <4>2. RightAnswer(a) /\ chart' = [bars |-> Bars(a.data), day |-> day, answer |-> a]
        BY <1>13, <3>5, <4>1 DEF DrawProxyTrafficChart, FetchFails, AnswersInv
      <4>3. chart'.bars = Bars(chart'.answer.data) /\ RightAnswer(chart'.answer)
        BY <4>2
      <4> QED BY <3>2, <4>3 DEF AnswersInv, RightAnswer, Bars
    <3> QED BY <3>4, <3>5
  <2> QED BY <1>1, <1>13, <2>1 DEF DrawProxyTrafficChart, FetchFails, counter
<1> QED BY <1>3, <1>4, <1>5, <1>6, <1>7, <1>9, <1>10, <1>11, <1>12, <1>13 DEF Next

LEMMA HistoryInvariant ==
    ASSUME \A h \in DayHours : h <= 25, ReserveDays <= 24
    PROVE  Spec => [](TypeOK /\ HistoryInv)
<1>1. Init => HistoryInv
  BY DEF Init, HistoryInv, CounterInv, AnswersInv
<1>2. TypeOK /\ TypeOK' /\ HistoryInv /\ [Next]_vars => HistoryInv'
  BY HistoryStep
<1> QED BY <1>1, <1>2, TypeCorrect, PTL DEF Spec

(* The counter is right whenever it is asked, any number of days without    *)
(* traffic and without a question later, about every date after the last    *)
(* short day; days have 25 hours at most and no more than 24 of them are    *)
(* kept (mem.ReserveDays is 7).                                             *)
THEOREM CounterExactCorrect ==
    ASSUME \A h \in DayHours : h <= 25, ReserveDays <= 24
    PROVE  Spec => []CounterExact
<1>1. TypeOK /\ HistoryInv => CounterExact
  BY RotateRight DEF HistoryInv, CounterExact
<1> QED BY <1>1, HistoryInvariant, PTL

(* And the chart has the traffic of each day above its date, back to the    *)
(* last short day, unless it was answered before midnight and drawn after.  *)
THEOREM ChartRightCorrect ==
    ASSUME \A h \in DayHours : h <= 25, ReserveDays <= 24
    PROVE  Spec => []ChartRight
<1>1. HistoryInv => ChartRight
  <2> SUFFICES ASSUME AnswersInv, chart # Nil, chart.day = chart.answer.day, NEW i \in Index,
                      chart.day - (ReserveDays - 1) + i > chart.answer.short
               PROVE  chart.bars[i] = TrafficOn(chart.answer.truth, chart.day - (ReserveDays - 1) + i)
    BY DEF HistoryInv, ChartRight
  <2>1. RightAnswer(chart.answer) /\ chart.bars[i] = chart.answer.data[ReserveDays - 1 - i]
    BY DEF AnswersInv, Bars
  <2>2. ReserveDays - 1 - i \in Index
    BY Bounds
  <2>3. chart.answer.day - (ReserveDays - 1 - i) = chart.day - (ReserveDays - 1) + i
    BY <2>1, Bounds DEF RightAnswer
  <2> QED BY <2>1, <2>2, <2>3 DEF RightAnswer
<1> QED BY <1>1, HistoryInvariant, PTL
=============================================================================
