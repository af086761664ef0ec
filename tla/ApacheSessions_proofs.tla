------------------------ MODULE ApacheSessions_proofs ------------------------
(***************************************************************************)
(* Proofs about Timestamps, for every date of the calendar from 1970 on    *)
(* and every second of a day, and about ApacheSessions, for any hosts,     *)
(* clients and entries, any length of a session and of a part, and any     *)
(* number of faults.                                                       *)
(***************************************************************************)
EXTENDS ApacheSessions, FiniteSetTheorems, TLAPS

-----------------------------------------------------------------------------
(* Dates and times: what the parts that sort and compare them rely on.     *)

LEMMA DaysInMonth ==
    ASSUME NEW m \in 1..12, NEW y \in Nat
    PROVE  GetNumberOfDayInMonth(m, y) \in 28..31
BY DEF GetNumberOfDayInMonth

LEMMA December == \A y \in Nat : GetNumberOfDayInMonth(12, y) = 31
BY DEF GetNumberOfDayInMonth

LEMMA RealDateFields ==
    ASSUME NEW d \in RealDates
    PROVE  /\ d = [day |-> d.day, month |-> d.month, year |-> d.year]
           /\ d.day \in 1..31 /\ d.month \in 1..12 /\ d.year \in Nat /\ d.year >= 1970
           /\ d.day <= GetNumberOfDayInMonth(d.month, d.year)
BY DEF RealDates, Dates

-----------------------------------------------------------------------------
\* The day after a date of the calendar is a date of the calendar: Date::Set does not
\* throw in GetTomorrowDate.
THEOREM TomorrowIsADate == \A d \in RealDates : GetTomorrowDate(d) \in RealDates
<1> SUFFICES ASSUME NEW d \in RealDates PROVE GetTomorrowDate(d) \in RealDates
  OBVIOUS
<1>1. /\ d.day \in 1..31 /\ d.month \in 1..12 /\ d.year \in Nat /\ d.year >= 1970
      /\ d.day <= GetNumberOfDayInMonth(d.month, d.year)
      /\ d = [day |-> d.day, month |-> d.month, year |-> d.year]
  BY RealDateFields
<1>2. GetNumberOfDayInMonth(d.month, d.year) \in 28..31
  BY <1>1, DaysInMonth
<1>3. CASE d.day # GetNumberOfDayInMonth(d.month, d.year)
  <2>1. GetTomorrowDate(d) = [day |-> d.day + 1, month |-> d.month, year |-> d.year]
    BY <1>1, <1>3 DEF GetTomorrowDate
  <2> QED BY <1>1, <1>2, <1>3, <2>1 DEF RealDates, Dates
<1>4. CASE d.day = GetNumberOfDayInMonth(d.month, d.year) /\ d.month # 12
  <2>1. GetTomorrowDate(d) = [day |-> 1, month |-> d.month + 1, year |-> d.year]
    BY <1>4 DEF GetTomorrowDate
  <2>2. GetNumberOfDayInMonth(d.month + 1, d.year) \in 28..31
    BY <1>1, <1>4, DaysInMonth
  <2> QED BY <1>1, <1>4, <2>1, <2>2 DEF RealDates, Dates
<1>5. CASE d.day = GetNumberOfDayInMonth(d.month, d.year) /\ d.month = 12
  <2>1. GetTomorrowDate(d) = [day |-> 1, month |-> 1, year |-> d.year + 1]
    BY <1>5 DEF GetTomorrowDate
  <2>2. GetNumberOfDayInMonth(1, d.year + 1) \in 28..31
    BY <1>1, DaysInMonth
  <2> QED BY <1>1, <2>1, <2>2 DEF RealDates, Dates
<1> QED BY <1>3, <1>4, <1>5

\* GetYesterdayDate undoes GetTomorrowDate, over the ends of months, of leap Februaries
\* and of years.
THEOREM YesterdayOfTomorrow == \A d \in RealDates : GetYesterdayDate(GetTomorrowDate(d)) = d
<1> SUFFICES ASSUME NEW d \in RealDates PROVE GetYesterdayDate(GetTomorrowDate(d)) = d
  OBVIOUS
<1>1. /\ d.day \in 1..31 /\ d.month \in 1..12 /\ d.year \in Nat
      /\ d = [day |-> d.day, month |-> d.month, year |-> d.year]
  BY RealDateFields
<1>2. CASE d.day # GetNumberOfDayInMonth(d.month, d.year)
  <2>1. GetTomorrowDate(d) = [day |-> d.day + 1, month |-> d.month, year |-> d.year]
    BY <1>1, <1>2 DEF GetTomorrowDate
  <2>2. GetYesterdayDate([day |-> d.day + 1, month |-> d.month, year |-> d.year])
          = [day |-> d.day, month |-> d.month, year |-> d.year]
    BY <1>1 DEF GetYesterdayDate
  <2> QED BY <1>1, <2>1, <2>2
<1>3. CASE d.day = GetNumberOfDayInMonth(d.month, d.year) /\ d.month # 12
  <2>1. GetTomorrowDate(d) = [day |-> 1, month |-> d.month + 1, year |-> d.year]
    BY <1>3 DEF GetTomorrowDate
  <2>2. d.month + 1 > 1 /\ d.month + 1 - 1 = d.month
    BY <1>1
  <2>3. GetYesterdayDate([day |-> 1, month |-> d.month + 1, year |-> d.year])
          = [day |-> GetNumberOfDayInMonth(d.month, d.year), month |-> d.month, year |-> d.year]
    BY <1>1, <2>2 DEF GetYesterdayDate
  <2> QED BY <1>1, <1>3, <2>1, <2>3
<1>4. CASE d.day = GetNumberOfDayInMonth(d.month, d.year) /\ d.month = 12
  <2>1. GetTomorrowDate(d) = [day |-> 1, month |-> 1, year |-> d.year + 1]
    BY <1>4 DEF GetTomorrowDate
  <2>2. GetYesterdayDate([day |-> 1, month |-> 1, year |-> d.year + 1])
          = [day |-> 31, month |-> 12, year |-> d.year]
    BY <1>1, December DEF GetYesterdayDate
  <2>3. d.day = 31
    BY <1>1, <1>4, December
  <2> QED BY <1>1, <1>4, <2>1, <2>2, <2>3
<1> QED BY <1>2, <1>3, <1>4

\* Nothing of the calendar lies between a date and its GetTomorrowDate, in the order the
\* dates are compared in.
THEOREM TomorrowIsNext ==
    \A d, e \in RealDates :
        /\ DateBefore(d, GetTomorrowDate(d))
        /\ ~ (DateBefore(d, e) /\ DateBefore(e, GetTomorrowDate(d)))
<1> SUFFICES ASSUME NEW d \in RealDates, NEW e \in RealDates
             PROVE  /\ DateBefore(d, GetTomorrowDate(d))
                    /\ ~ (DateBefore(d, e) /\ DateBefore(e, GetTomorrowDate(d)))
  OBVIOUS
<1>1. /\ d.day \in 1..31 /\ d.month \in 1..12 /\ d.year \in Nat
      /\ e.day \in 1..31 /\ e.month \in 1..12 /\ e.year \in Nat
      /\ e.day <= GetNumberOfDayInMonth(e.month, e.year)
      /\ d = [day |-> d.day, month |-> d.month, year |-> d.year]
  BY RealDateFields
<1>2. CASE d.day # GetNumberOfDayInMonth(d.month, d.year)
  <2>1. GetTomorrowDate(d) = [day |-> d.day + 1, month |-> d.month, year |-> d.year]
    BY <1>1, <1>2 DEF GetTomorrowDate
  <2> QED BY <1>1, <2>1 DEF DateBefore
<1>3. CASE d.day = GetNumberOfDayInMonth(d.month, d.year) /\ d.month # 12
  <2>1. GetTomorrowDate(d) = [day |-> 1, month |-> d.month + 1, year |-> d.year]
    BY <1>3 DEF GetTomorrowDate
  <2>2. e.month = d.month /\ e.year = d.year => e.day <= d.day
    BY <1>1, <1>3
  <2> QED BY <1>1, <2>1, <2>2 DEF DateBefore
<1>4. CASE d.day = GetNumberOfDayInMonth(d.month, d.year) /\ d.month = 12
  <2>1. GetTomorrowDate(d) = [day |-> 1, month |-> 1, year |-> d.year + 1]
    BY <1>4 DEF GetTomorrowDate
  <2>2. e.month = d.month /\ e.year = d.year => e.day <= d.day
    BY <1>1, <1>4
  <2>3. d.month = 12
    BY <1>4
  <2> QED BY <1>1, <2>1, <2>2, <2>3 DEF DateBefore
<1> QED BY <1>2, <1>3, <1>4

\* The order of the dates is total: what "order by year, month, day" and operator< agree on.
THEOREM DatesAreOrdered ==
    \A a, b \in Dates : DateBefore(a, b) \/ DateBefore(b, a) \/ a = b
<1> SUFFICES ASSUME NEW a \in Dates, NEW b \in Dates
             PROVE  DateBefore(a, b) \/ DateBefore(b, a) \/ a = b
  OBVIOUS
<1>1. /\ a = [day |-> a.day, month |-> a.month, year |-> a.year]
      /\ b = [day |-> b.day, month |-> b.month, year |-> b.year]
      /\ a.day \in Int /\ a.month \in Int /\ a.year \in Int
      /\ b.day \in Int /\ b.month \in Int /\ b.year \in Int
  BY DEF Dates
<1>2. a.day = b.day /\ a.month = b.month /\ a.year = b.year => a = b
  BY <1>1
<1> QED BY <1>1, <1>2 DEF DateBefore

-----------------------------------------------------------------------------
\* TimeMinus and TimePlus give times, and are inverse to each other but where one of them
\* stops at an end of the day.
THEOREM TimesStayInTheDay ==
    \A t \in Times, n \in Nat :
        /\ TimeMinus(t, n) \in Times /\ TimePlus(t, n) \in Times
        /\ t + n < LastSecond => TimeMinus(TimePlus(t, n), n) = t
<1> SUFFICES ASSUME NEW t \in Times, NEW n \in Nat
             PROVE  /\ TimeMinus(t, n) \in Times /\ TimePlus(t, n) \in Times
                    /\ t + n < LastSecond => TimeMinus(TimePlus(t, n), n) = t
  OBVIOUS
<1>1. t \in Int /\ n \in Int /\ LastSecond \in Int /\ 0 <= t /\ 0 <= n /\ t <= LastSecond
  <2>1. LastSecond \in Int
    BY DEF LastSecond
  <2> QED BY <2>1 DEF Times
<1>2. \A k \in Int : 0 <= k /\ k <= LastSecond => k \in Times
  BY <1>1 DEF Times
<1>3. t - n \in Int /\ t + n \in Int /\ t - n <= t /\ 0 <= t + n /\ n <= t + n
  BY <1>1
<1>4. TimeMinus(t, n) \in Times
  <2>1. CASE t - n > 0
    BY <1>1, <1>2, <1>3, <2>1 DEF TimeMinus
  <2>2. CASE ~ (t - n > 0)
    BY <1>1, <1>2, <1>3, <2>2 DEF TimeMinus
  <2> QED BY <2>1, <2>2
<1>5. TimePlus(t, n) \in Times
  <2>1. CASE n < LastSecond /\ t + n < LastSecond
    BY <1>1, <1>2, <1>3, <2>1 DEF TimePlus
  <2>2. CASE ~ (n < LastSecond /\ t + n < LastSecond)
    BY <1>1, <1>2, <2>2 DEF TimePlus
  <2> QED BY <2>1, <2>2
<1>6. ASSUME t + n < LastSecond PROVE TimeMinus(TimePlus(t, n), n) = t
  <2>1. n < LastSecond
    BY <1>1, <1>3, <1>6
  <2>2. TimePlus(t, n) = t + n
    BY <1>6, <2>1 DEF TimePlus
  <2>3. (t + n) - n = t
    BY <1>1
  <2>4. TimeMinus(t + n, n) = IF t > 0 THEN t ELSE 0
    BY <2>3 DEF TimeMinus
  <2>5. t = IF t > 0 THEN t ELSE 0
    BY <1>1
  <2> QED BY <2>2, <2>4, <2>5
<1> QED BY <1>4, <1>5, <1>6

\* The distance of two times is a number of seconds less than a day, in either direction,
\* and two requests on the same side of the start of a session are no further apart than
\* the further of them is from it.
THEOREM DistanceOfTimes ==
    \A s, t, u \in Times :
        /\ Distance(s, t) \in Times /\ Distance(s, t) = Distance(t, s)
        /\ Distance(s, t) = 0 <=> s = t
        /\ Distance(s, u) <= Distance(s, t) + Distance(t, u)
        /\ s <= t /\ t <= u => Distance(t, u) <= Distance(s, u)
<1> SUFFICES ASSUME NEW s \in Times, NEW t \in Times, NEW u \in Times
             PROVE  /\ Distance(s, t) \in Times /\ Distance(s, t) = Distance(t, s)
                    /\ Distance(s, t) = 0 <=> s = t
                    /\ Distance(s, u) <= Distance(s, t) + Distance(t, u)
                    /\ s <= t /\ t <= u => Distance(t, u) <= Distance(s, u)
  OBVIOUS
<1>1. /\ LastSecond \in Int /\ s \in Int /\ t \in Int /\ u \in Int
      /\ 0 <= s /\ s <= LastSecond /\ 0 <= t /\ t <= LastSecond
  <2>1. LastSecond \in Int
    BY DEF LastSecond
  <2> QED BY <2>1 DEF Times
<1>2. Distance(s, t) \in Int /\ 0 <= Distance(s, t) /\ Distance(s, t) <= LastSecond
  BY <1>1 DEF Distance
<1>3. Distance(s, t) \in Times
  BY <1>1, <1>2 DEF Times
<1>4. Distance(s, t) = Distance(t, s)
  BY <1>1 DEF Distance
<1>5. Distance(s, t) = 0 <=> s = t
  BY <1>1 DEF Distance
<1>6. Distance(s, u) <= Distance(s, t) + Distance(t, u)
  BY <1>1 DEF Distance
<1>7. s <= t /\ t <= u => Distance(t, u) <= Distance(s, u)
  BY <1>1 DEF Distance
<1> QED BY <1>3, <1>4, <1>5, <1>6, <1>7

-----------------------------------------------------------------------------
(* Sessions.                                                               *)

\* What the analyzer has in its hands at each of its steps.
AtStep ==
    /\ at # "gather" => part = {}
    /\ at \in {"idle", "host"} => (\A c \in Clients : open[c] = NoSession) /\ closed = {} /\ left = 0
    /\ at # "idle" => analyses # 0

\* The session in memory of a client is of the client and of the host at hand, and nowhere
\* else; only what is marked as used was saved.
Memory ==
    /\ \A c \in Clients : open[c] # NoSession =>
         open[c].client = c /\ open[c].host = host /\ open[c] \notin closed
    /\ MembersOf(saved) \subseteq used
    /\ MembersOf(saved) \cap MembersOf(InMemory) = {}
    /\ \A s \in Sessions : s.members # {}

IInv == TypeOK /\ AtStep /\ Memory /\ EachEntryInOneSession /\ SessionsAreOfOneClient

-----------------------------------------------------------------------------
LEMMA TimesAreInts == LastSecond \in Int /\ LastSecond >= 0
BY DEF LastSecond

\* The rows of the table.
LEMMA LogFields ==
    ASSUME TypeOK, NEW e \in DOMAIN logs
    PROVE  /\ logs[e].host \in Hosts /\ logs[e].client \in Clients /\ logs[e].day \in Nat
           /\ logs[e].second \in Times /\ logs[e].error \in BOOLEAN
BY SessionsAssumption DEF TypeOK

\* Any set of rows is finite.
LEMMA RowsAreFinite ==
    ASSUME TypeOK, NEW S \in SUBSET DOMAIN logs
    PROVE  IsFiniteSet(S) /\ Cardinality(S) \in Nat
<1>1. DOMAIN logs = 1..Len(logs) /\ Len(logs) \in Nat
  BY DEF TypeOK
<1>2. IsFiniteSet(DOMAIN logs)
  BY <1>1, FS_Interval
<1> QED BY <1>2, FS_Subset, FS_CardinalityType

\* Taking rows out of a set takes away as many as they are.
LEMMA CardinalityOfRest ==
    ASSUME NEW U, IsFiniteSet(U), NEW S \in SUBSET U
    PROVE  Cardinality(U \ S) = Cardinality(U) - Cardinality(S)
<1>1. IsFiniteSet(S) /\ IsFiniteSet(U \ S)
  BY FS_Subset
<1>2. S \cup (U \ S) = U /\ S \cap (U \ S) = {}
  OBVIOUS
<1>3. Cardinality(U) = Cardinality(S) + Cardinality(U \ S) - Cardinality({})
  BY <1>1, <1>2, FS_Union
<1>4. Cardinality(S) \in Nat /\ Cardinality(U \ S) \in Nat /\ Cardinality({}) = 0
  BY <1>1, FS_CardinalityType, FS_EmptySet
<1> QED BY <1>3, <1>4

LEMMA LeftIsThere ==
    ASSUME TypeOK, NEW h PROVE Cardinality(UnusedLogs(h) \ part) \in Nat /\ Cardinality(UnusedLogs(h)) \in Nat
BY RowsAreFinite DEF UnusedLogs

LEMMA SessionFields ==
    ASSUME NEW s \in SessionType
    PROVE  /\ s.host \in Hosts /\ s.client \in Clients /\ s.day \in Nat /\ s.start \in Times
           /\ s.requests \in Nat /\ s.errors \in Nat /\ s.members \subseteq DOMAIN logs
           /\ s = [host |-> s.host, client |-> s.client, day |-> s.day, start |-> s.start,
                   length |-> s.length, requests |-> s.requests, errors |-> s.errors,
                   members |-> s.members, analysis |-> s.analysis]
BY DEF SessionType

LEMMA SessionsAreTyped == TypeOK => Sessions \subseteq SessionType
BY DEF TypeOK, Sessions, InMemory

-----------------------------------------------------------------------------
LEMMA InitInv == Init => IInv
<1> SUFFICES ASSUME Init PROVE IInv
  OBVIOUS
<1>1. Sessions = {} /\ InMemory = {} /\ MembersOf({}) = {} /\ UnusedLogs(host) = {}
  BY DEF Init, Sessions, InMemory, MembersOf, UnusedLogs
<1>2. Cardinality(UnusedLogs(host) \ part) = 0
  BY <1>1, FS_EmptySet
<1>3. TypeOK
  BY <1>1, <1>2, SessionsAssumption DEF Init, TypeOK
<1> QED BY <1>1, <1>3 DEF Init, IInv, AtStep, Memory, EachEntryInOneSession, SessionsAreOfOneClient

\* An entry is added: the sessions are as they were.
LEMMA InvAddLog == IInv /\ AddLog => IInv'
<1> SUFFICES ASSUME IInv, AddLog PROVE IInv'
  OBVIOUS
<1>1. PICK k \in Kinds : logs' = Append(logs, k)
  BY DEF AddLog
<1>2. /\ logs' \in Seq(Kinds) /\ Len(logs') = Len(logs) + 1 /\ DOMAIN logs \subseteq DOMAIN logs'
      /\ \A e \in DOMAIN logs : logs'[e] = logs[e]
  BY <1>1 DEF IInv, TypeOK
<1>3. UNCHANGED <<used, saved, at, toVisit, host, left, part, rows, open, closed, reached, horizon,
                  lost, late, analyses, faults>>
  BY DEF AddLog, partVars, memory, boundVars
<1>4. Sessions' = Sessions /\ InMemory' = InMemory
  BY <1>3 DEF Sessions, InMemory
<1>5. UnusedLogs(host) \subseteq UnusedLogs(host)'
  BY <1>2, <1>3 DEF UnusedLogs
<1>6. IsFiniteSet((UnusedLogs(host) \ part)') /\ Cardinality((UnusedLogs(host) \ part)') \in Nat
  <2>1. IsFiniteSet(DOMAIN logs')
    BY <1>2, FS_Interval
  <2> QED BY <2>1, FS_Subset, FS_CardinalityType DEF UnusedLogs
<1>7. left \in 0..Cardinality((UnusedLogs(host) \ part)')
  <2>1. (UnusedLogs(host) \ part) \in SUBSET ((UnusedLogs(host) \ part)')
    BY <1>3, <1>5
  <2>2. Cardinality(UnusedLogs(host) \ part) <= Cardinality((UnusedLogs(host) \ part)')
    BY <1>6, <2>1, FS_Subset
  <2> QED BY <1>6, <2>2, LeftIsThere DEF IInv, TypeOK
<1>8. SessionType \subseteq SessionType'
  BY <1>2 DEF SessionType
<1>9. Len(logs) \in Nat
  BY DEF IInv, TypeOK
<1>10. TypeOK'
  BY <1>2, <1>3, <1>5, <1>7, <1>8, <1>9 DEF IInv, TypeOK
<1>11. SessionsAreOfOneClient'
  <2>1. \A s \in Sessions : s.members \subseteq DOMAIN logs
    BY SessionsAreTyped, SessionFields DEF IInv
  <2>2. \A s \in Sessions : \A e \in s.members : logs'[e] = logs[e]
    BY <1>2, <2>1
  <2>3. \A s \in Sessions : {e \in s.members : logs'[e].error} = {e \in s.members : logs[e].error}
    BY <2>2
  <2> QED BY <1>4, <2>2, <2>3 DEF IInv, SessionsAreOfOneClient
<1> QED BY <1>3, <1>4, <1>10, <1>11 DEF IInv, AtStep, Memory, EachEntryInOneSession, MembersOf

\* The steps that only choose what to do next.
LEMMA InvChoose == IInv /\ (Prepare \/ PrepareEnds \/ \E h \in Hosts : CreateStatistics(h)) => IInv'
<1> SUFFICES ASSUME IInv, Prepare \/ PrepareEnds \/ \E h \in Hosts : CreateStatistics(h) PROVE IInv'
  OBVIOUS
<1>1. UNCHANGED <<logs, used, saved, part, rows, open, closed, reached, horizon, lost, late, faults>>
  BY DEF Prepare, PrepareEnds, CreateStatistics, tableVars, partVars, memory, boundVars
<1>2. Sessions' = Sessions /\ InMemory' = InMemory /\ SessionType' = SessionType
  BY <1>1 DEF Sessions, InMemory, SessionType
<1>3. SessionsAreOfOneClient' /\ EachEntryInOneSession'
  BY <1>1, <1>2 DEF IInv, SessionsAreOfOneClient, EachEntryInOneSession, MembersOf
<1>4. CASE Prepare
  <2>1. toVisit' \subseteq Hosts
    BY <1>4, LogFields DEF IInv, Prepare
  <2>2. UNCHANGED <<host, left>> /\ UnusedLogs(host)' = UnusedLogs(host)
    BY <1>1, <1>4 DEF Prepare, partVars, UnusedLogs
  <2>3. at = "idle" /\ at' = "host" /\ analyses' = analyses + 1 /\ analyses < MaxAnalyses
    BY <1>4 DEF Prepare
  <2>4. analyses' \in 1..MaxAnalyses
    BY <2>3, SessionsAssumption DEF IInv, TypeOK
  <2> QED BY <1>1, <1>2, <1>3, <2>1, <2>2, <2>3, <2>4 DEF IInv, TypeOK, AtStep, Memory, MembersOf
<1>5. CASE PrepareEnds
  <2>1. UNCHANGED <<host, left, toVisit, analyses>> /\ UnusedLogs(host)' = UnusedLogs(host)
    BY <1>1, <1>5 DEF PrepareEnds, partVars, boundVars, UnusedLogs
  <2>2. at = "host" /\ at' = "idle"
    BY <1>5 DEF PrepareEnds
  <2> QED BY <1>1, <1>2, <1>3, <2>1, <2>2 DEF IInv, TypeOK, AtStep, Memory, MembersOf
<1>6. ASSUME NEW h \in Hosts, CreateStatistics(h) PROVE IInv'
  <2>1. /\ at = "host" /\ at' = "part" /\ host' = h /\ left' = Cardinality(UnusedLogs(h))
        /\ toVisit' \subseteq toVisit /\ analyses' = analyses
    BY <1>6 DEF CreateStatistics, boundVars
  <2>2. UnusedLogs(host)' = UnusedLogs(h) /\ part = {} /\ rows = {}
    BY <1>1, <2>1 DEF IInv, TypeOK, AtStep, UnusedLogs
  <2>3. left' \in 0..Cardinality((UnusedLogs(host) \ part)')
    BY <1>1, <2>1, <2>2, LeftIsThere DEF IInv
  <2>4. TypeOK'
    BY <1>1, <1>2, <2>1, <2>2, <2>3, SessionsAssumption DEF IInv, TypeOK
  <2> QED BY <1>1, <1>2, <1>3, <2>1, <2>2, <2>4 DEF IInv, AtStep, Memory, MembersOf
<1> QED BY <1>4, <1>5, <1>6

LEMMA PartCountBounds == TypeOK => PartCount \in 0..left
BY LeftIsThere, SessionsAssumption DEF TypeOK, PartCount

\* A part is read: nothing is gathered yet.
LEMMA InvGetUnusedLogs == IInv /\ GetUnusedLogs => IInv'
<1> SUFFICES ASSUME IInv, GetUnusedLogs PROVE IInv'
  OBVIOUS
<1>1. /\ at = "part" /\ at' = "gather" /\ left > 0 /\ left' = left - PartCount
      /\ UNCHANGED <<logs, used, saved, toVisit, host, open, closed, lost, analyses, faults>>
  BY DEF GetUnusedLogs, tableVars, boundVars
<1>2. PICK S \in FirstUnused(host, PartCount) : \E last \in S :
        /\ part' = S /\ rows' = S /\ late' = late \cup {e \in S : IsLate(e)}
        /\ \/ UNCHANGED <<reached, horizon>>
           \/ reached' = last /\ horizon' = Len(logs)
  BY DEF GetUnusedLogs
<1>3. S \subseteq UnusedLogs(host) /\ Cardinality(S) = PartCount /\ S \subseteq DOMAIN logs
  BY DEF FirstUnused, UnusedLogs
<1>4. part = {} /\ rows = {}
  BY <1>1 DEF IInv, TypeOK, AtStep
<1>5. Sessions' = Sessions /\ InMemory' = InMemory /\ SessionType' = SessionType
      /\ UnusedLogs(host)' = UnusedLogs(host)
  BY <1>1 DEF Sessions, InMemory, SessionType, UnusedLogs
<1>6. left' \in 0..Cardinality(UnusedLogs(host) \ S)
  <2>1. IsFiniteSet(UnusedLogs(host)) /\ Cardinality(UnusedLogs(host)) \in Nat
    BY RowsAreFinite DEF IInv, UnusedLogs
  <2>2. Cardinality(UnusedLogs(host) \ S) = Cardinality(UnusedLogs(host)) - PartCount
    BY <1>3, <2>1, CardinalityOfRest
  <2>3. left \in 0..Cardinality(UnusedLogs(host)) /\ PartCount \in 0..left
    BY <1>4, PartCountBounds DEF IInv, TypeOK
  <2> QED BY <1>1, <2>1, <2>2, <2>3
<1>7. /\ reached' \in {0} \cup DOMAIN logs /\ horizon' \in 0..Len(logs) /\ late' \subseteq DOMAIN logs
  BY <1>2, <1>3 DEF IInv, TypeOK
<1>8. TypeOK'
  BY <1>1, <1>2, <1>3, <1>5, <1>6, <1>7 DEF IInv, TypeOK
<1>9. part' \ rows' = part \ rows
  BY <1>2, <1>4
<1>10. SessionsAreOfOneClient'
  BY <1>1, <1>5 DEF IInv, SessionsAreOfOneClient
<1>11. EachEntryInOneSession'
  BY <1>1, <1>5, <1>9, Zenon DEF IInv, EachEntryInOneSession, MembersOf
<1> QED BY <1>1, <1>5, <1>8, <1>10, <1>11 DEF IInv, AtStep, Memory, MembersOf

\* The part is marked: its entries change from gathered to used.
LEMMA InvMarkLogsAsUsed == IInv /\ MarkLogsAsUsed => IInv'
<1> SUFFICES ASSUME IInv, MarkLogsAsUsed PROVE IInv'
  OBVIOUS
<1>1. /\ at = "gather" /\ rows = {} /\ used' = used \cup part /\ part' = {} /\ at' = "part"
      /\ UNCHANGED <<logs, saved, toVisit, host, left, rows, open, closed, reached, horizon, lost,
                     late, analyses, faults>>
  BY DEF MarkLogsAsUsed, memory, boundVars
<1>2. Sessions' = Sessions /\ InMemory' = InMemory /\ SessionType' = SessionType
  BY <1>1 DEF Sessions, InMemory, SessionType
<1>3. UnusedLogs(host)' = UnusedLogs(host) \ part
  BY <1>1 DEF UnusedLogs
<1>4. part \subseteq DOMAIN logs /\ part \cap used = {} /\ lost \subseteq used
  BY DEF IInv, TypeOK, UnusedLogs
<1>5. UnusedLogs(host)' \ part' = UnusedLogs(host) \ part
  BY <1>1, <1>3
<1>6. TypeOK'
  BY <1>1, <1>2, <1>3, <1>4, <1>5 DEF IInv, TypeOK
<1>7. (used' \ lost') \cup (part' \ rows') = (used \ lost) \cup (part \ rows)
  BY <1>1, <1>4
<1>8. SessionsAreOfOneClient'
  BY <1>1, <1>2 DEF IInv, SessionsAreOfOneClient
<1>9. EachEntryInOneSession'
  BY <1>2, <1>7, Zenon DEF IInv, EachEntryInOneSession, MembersOf
<1> QED BY <1>1, <1>2, <1>6, <1>8, <1>9 DEF IInv, AtStep, Memory, MembersOf

-----------------------------------------------------------------------------
\* The memory is cleared between hosts and at a crash; what is left to show is that the
\* sessions saved by then account for the used entries.
LEMMA InvCleared ==
    ASSUME IInv, Cleared, UNCHANGED <<logs, used>>, at' \in {"idle", "host"}, left' = 0,
           toVisit' \subseteq Hosts, lost' \subseteq used, late' \subseteq DOMAIN logs,
           analyses' \in 0..MaxAnalyses, faults' \in 0..MaxFaults,
           at' # "idle" => analyses' # 0,
           saved' \subseteq Sessions, MembersOf(saved') = used \ lost'
    PROVE  IInv'
<1>1. /\ open' = [c \in Clients |-> NoSession] /\ closed' = {} /\ reached' = 0 /\ horizon' = 0
      /\ host' = NoHost /\ part' = {} /\ rows' = {}
  BY DEF Cleared
<1>2. InMemory' = {} /\ Sessions' = saved' /\ SessionType' = SessionType
  BY <1>1 DEF InMemory, Sessions, SessionType
<1>3. UnusedLogs(host)' = {}
  BY <1>1, LogFields, SessionsAssumption DEF IInv, UnusedLogs
<1>4. Cardinality((UnusedLogs(host) \ part)') = 0
  BY <1>3, FS_EmptySet
<1>5. Len(logs') \in Nat
  BY DEF IInv, TypeOK
<1>6. TypeOK'
  BY <1>1, <1>2, <1>3, <1>4, <1>5, SessionsAreTyped DEF IInv, TypeOK
<1>7. EachEntryInOneSession'
  <2>1. MembersOf(Sessions') = (used' \ lost') \cup (part' \ rows')
    BY <1>1, <1>2
  <2>2. \A s, t \in Sessions' : s # t => s.members \cap t.members = {}
    BY <1>2 DEF IInv, EachEntryInOneSession
  <2> QED BY <2>1, <2>2 DEF EachEntryInOneSession, MembersOf
<1>8. SessionsAreOfOneClient'
  BY <1>2 DEF IInv, SessionsAreOfOneClient
<1>9. Memory'
  <2>1. MembersOf(saved') \subseteq used' /\ MembersOf(InMemory') = {}
    BY <1>2 DEF MembersOf
  <2>2. \A s \in Sessions' : s.members # {}
    BY <1>2 DEF IInv, Memory
  <2> QED BY <1>1, <2>1, <2>2 DEF Memory, MembersOf
<1> QED BY <1>1, <1>6, <1>7, <1>8, <1>9 DEF IInv, AtStep

\* The members of the two parts of Sessions.
LEMMA MembersOfBoth ==
    /\ MembersOf(Sessions) = MembersOf(saved) \cup MembersOf(InMemory)
    /\ MembersOf(saved \cup InMemory) = MembersOf(Sessions)
BY DEF MembersOf, Sessions

LEMMA InvSaveAllSessions == IInv /\ SaveAllSessions => IInv'
<1> SUFFICES ASSUME IInv, SaveAllSessions PROVE IInv'
  OBVIOUS
<1>1. /\ at = "part" /\ left = 0 /\ at' = "host" /\ saved' = saved \cup InMemory /\ Cleared
      /\ UNCHANGED <<logs, used, toVisit, left, lost, late, analyses, faults>>
  BY DEF SaveAllSessions, boundVars
<1>2. part = {} /\ rows = {}
  BY <1>1 DEF IInv, TypeOK, AtStep
<1>3. saved' \subseteq Sessions /\ MembersOf(saved') = used \ lost'
  BY <1>1, <1>2, MembersOfBoth DEF IInv, EachEntryInOneSession, Sessions
<1> QED BY <1>1, <1>3, InvCleared DEF IInv, TypeOK, AtStep

\* The sessions are lost, and their entries stay used.
LEMMA InvSaveFails == IInv /\ SaveFails => IInv'
<1> SUFFICES ASSUME IInv, SaveFails PROVE IInv'
  OBVIOUS
<1>1. /\ at = "part" /\ at' = "host" /\ left = 0 /\ faults < MaxFaults /\ faults' = faults + 1
      /\ lost' = lost \cup MembersOf(InMemory) /\ Cleared
      /\ UNCHANGED <<logs, used, saved, toVisit, left, late, analyses>>
  BY DEF SaveFails, tableVars
<1>2. part = {} /\ rows = {}
  BY <1>1 DEF IInv, TypeOK, AtStep
<1>3. MembersOf(saved) \cup MembersOf(InMemory) = used \ lost
  BY <1>2, MembersOfBoth DEF IInv, EachEntryInOneSession
<1>4. lost' \subseteq used /\ MembersOf(saved') = used \ lost' /\ saved' \subseteq Sessions
  BY <1>1, <1>3 DEF IInv, TypeOK, Memory, Sessions
<1>5. faults' \in 0..MaxFaults
  BY <1>1, SessionsAssumption DEF IInv, TypeOK
<1> QED BY <1>1, <1>4, <1>5, InvCleared DEF IInv, TypeOK, AtStep

\* What was marked is lost; what was only gathered is gathered again after the restart.
LEMMA InvCrash == IInv /\ Crash => IInv'
<1> SUFFICES ASSUME IInv, Crash PROVE IInv'
  OBVIOUS
<1>1. /\ at' = "idle" /\ left' = 0 /\ faults < MaxFaults /\ faults' = faults + 1
      /\ lost' = lost \cup (MembersOf(InMemory) \cap used) /\ Cleared
      /\ late' = late \cap used /\ toVisit' = {}
      /\ UNCHANGED <<logs, used, saved, analyses>>
  BY DEF Crash, tableVars
<1>2. part \cap used = {} /\ lost \subseteq used /\ used \subseteq DOMAIN logs
  BY DEF IInv, TypeOK, UnusedLogs
<1>3. MembersOf(saved) \cup MembersOf(InMemory) = (used \ lost) \cup (part \ rows)
  BY MembersOfBoth DEF IInv, EachEntryInOneSession
<1>4. lost' \subseteq used /\ MembersOf(saved') = used \ lost' /\ saved' \subseteq Sessions
  BY <1>1, <1>2, <1>3 DEF IInv, Memory, Sessions
<1>5. faults' \in 0..MaxFaults
  BY <1>1, SessionsAssumption DEF IInv, TypeOK
<1> QED BY <1>1, <1>2, <1>4, <1>5, InvCleared DEF IInv, TypeOK, AtStep

-----------------------------------------------------------------------------
(* Gather replaces a session by one that has one entry more, or adds a     *)
(* session of one entry.                                                   *)

\* What the invariant says of one session.
OfOneClient(s) ==
    /\ \A e \in s.members :
         /\ logs[e].host = s.host /\ logs[e].client = s.client /\ logs[e].day = s.day
         /\ Distance(s.start, logs[e].second) < SessionLength
    /\ s.requests = Cardinality(s.members)
    /\ s.errors = Cardinality({e \in s.members : logs[e].error})

LEMMA NewSession ==
    ASSUME TypeOK, at # "idle", analyses # 0, NEW e \in DOMAIN logs
    PROVE  /\ CreateSession(e) \in SessionType /\ OfOneClient(CreateSession(e))
           /\ CreateSession(e) # NoSession /\ CreateSession(e).members = {e}
           /\ CreateSession(e).client = logs[e].client /\ CreateSession(e).host = logs[e].host
<1> DEFINE s == CreateSession(e)
<1>1. /\ logs[e].host \in Hosts /\ logs[e].client \in Clients /\ logs[e].day \in Nat
      /\ logs[e].second \in Times /\ logs[e].error \in BOOLEAN
  BY LogFields
<1>2. /\ s.host = logs[e].host /\ s.client = logs[e].client /\ s.day = logs[e].day
      /\ s.start = logs[e].second /\ s.requests = 1 /\ s.errors = IsErrorCode(e) /\ s.members = {e}
  BY DEF CreateSession
<1>3. analyses \in 1..MaxAnalyses
  BY SessionsAssumption DEF TypeOK
<1>4. 0 \in 0..LastSecond
  BY <1>1, TimesAreInts DEF Times
<1>5. s \in SessionType
  BY <1>1, <1>3, <1>4 DEF CreateSession, SessionType, IsErrorCode
<1>6. Distance(s.start, logs[e].second) = 0
  BY <1>1, <1>2, DistanceOfTimes
<1>7. s.requests = Cardinality(s.members)
  BY <1>2, FS_Singleton
<1>8. s.errors = Cardinality({x \in s.members : logs[x].error})
  <2>1. CASE logs[e].error
    <3>1. {x \in s.members : logs[x].error} = {e}
      BY <1>2, <2>1
    <3> QED BY <1>2, <2>1, <3>1, FS_Singleton DEF IsErrorCode
  <2>2. CASE ~ logs[e].error
    <3>1. {x \in s.members : logs[x].error} = {}
      BY <1>2, <2>2
    <3> QED BY <1>2, <2>2, <3>1, FS_EmptySet DEF IsErrorCode
  <2> QED BY <2>1, <2>2
<1>9. OfOneClient(s)
  BY <1>2, <1>6, <1>7, <1>8, SessionsAssumption DEF OfOneClient
<1>10. s # NoSession
  BY <1>2 DEF NoSession
<1> QED BY <1>2, <1>5, <1>9, <1>10

LEMMA LongerSession ==
    ASSUME TypeOK, NEW s \in SessionType, OfOneClient(s), NEW e \in DOMAIN logs \ s.members,
           IsInThisSameSession(s, e), s.host = logs[e].host, s.client = logs[e].client
    PROVE  /\ Extend(s, e) \in SessionType /\ OfOneClient(Extend(s, e))
           /\ Extend(s, e) # NoSession /\ Extend(s, e).members = s.members \cup {e}
           /\ Extend(s, e).client = s.client /\ Extend(s, e).host = s.host
<1> DEFINE n == Extend(s, e)
<1>1. /\ logs[e].second \in Times /\ logs[e].error \in BOOLEAN
  BY LogFields
<1>2. /\ s.start \in Times /\ s.requests \in Nat /\ s.errors \in Nat /\ s.members \subseteq DOMAIN logs
  BY SessionFields
<1>3. /\ n.host = s.host /\ n.client = s.client /\ n.day = s.day /\ n.start = s.start
      /\ n.requests = s.requests + 1 /\ n.errors = s.errors + IsErrorCode(e)
      /\ n.members = s.members \cup {e}
  BY SessionFields DEF Extend
<1>4. Distance(s.start, logs[e].second) \in 0..LastSecond
  BY <1>1, <1>2, DistanceOfTimes DEF Times
<1>5. n \in SessionType
  <2>1. n = [s EXCEPT !.requests = s.requests + 1, !.errors = s.errors + IsErrorCode(e),
                      !.length = Distance(s.start, logs[e].second), !.members = s.members \cup {e}]
    BY DEF Extend
  <2>2. s.requests + 1 \in Nat /\ s.errors + IsErrorCode(e) \in Nat
    BY <1>2 DEF IsErrorCode
  <2>3. s.members \cup {e} \in SUBSET DOMAIN logs
    BY <1>2
  <2> QED BY <1>4, <2>1, <2>2, <2>3 DEF SessionType
<1>6. IsFiniteSet(s.members) /\ IsFiniteSet({x \in s.members : logs[x].error})
  BY <1>2, RowsAreFinite
<1>7. n.requests = Cardinality(n.members)
  BY <1>2, <1>3, <1>6, FS_AddElement DEF OfOneClient
<1>8. n.errors = Cardinality({x \in n.members : logs[x].error})
  <2>0. s.errors = Cardinality({x \in s.members : logs[x].error})
    BY DEF OfOneClient
  <2>1. CASE logs[e].error
    <3>1. {x \in n.members : logs[x].error} = {x \in s.members : logs[x].error} \cup {e}
      BY <1>3, <2>1
    <3>2. e \notin {x \in s.members : logs[x].error}
      OBVIOUS
    <3>3. Cardinality({x \in n.members : logs[x].error}) = s.errors + 1
      BY <1>6, <2>0, <3>1, <3>2, FS_AddElement
    <3>4. n.errors = s.errors + 1
      BY <1>3, <2>1 DEF IsErrorCode
    <3> QED BY <3>3, <3>4
  <2>2. CASE ~ logs[e].error
    <3>1. {x \in n.members : logs[x].error} = {x \in s.members : logs[x].error}
      BY <1>3, <2>2
    <3>2. n.errors = s.errors
      BY <1>2, <1>3, <2>2 DEF IsErrorCode
    <3> QED BY <2>0, <3>1, <3>2
  <2> QED BY <2>1, <2>2
<1>9. OfOneClient(n)
  BY <1>3, <1>7, <1>8 DEF OfOneClient, IsInThisSameSession
<1>10. n # NoSession
  BY <1>2, <1>3 DEF NoSession
<1> QED BY <1>3, <1>5, <1>9, <1>10

\* The family F of the sessions after n joined it.
LEMMA SessionJoins ==
    ASSUME NEW F, NEW n, NEW e, n.members = {e}, e \notin MembersOf(F),
           \A s, t \in F : s # t => s.members \cap t.members = {}
    PROVE  /\ MembersOf(F \cup {n}) = MembersOf(F) \cup {e}
           /\ \A s, t \in F \cup {n} : s # t => s.members \cap t.members = {}
<1>1. \A s \in F : e \notin s.members
  BY DEF MembersOf
<1>2. MembersOf(F \cup {n}) = MembersOf(F) \cup {e}
  BY DEF MembersOf
<1>3. ASSUME NEW s \in F \cup {n}, NEW t \in F \cup {n}, s # t PROVE s.members \cap t.members = {}
  BY <1>1, <1>3
<1> QED BY <1>2, <1>3

\* The family F of the sessions after its member o became n.
LEMMA SessionGrows ==
    ASSUME NEW F, NEW n, NEW e, NEW o \in F, n.members = o.members \cup {e}, e \notin MembersOf(F),
           \A s, t \in F : s # t => s.members \cap t.members = {}
    PROVE  /\ MembersOf((F \ {o}) \cup {n}) = MembersOf(F) \cup {e}
           /\ \A s, t \in (F \ {o}) \cup {n} : s # t => s.members \cap t.members = {}
<1>1. \A s \in F : e \notin s.members
  BY DEF MembersOf
<1>2. MembersOf((F \ {o}) \cup {n}) = MembersOf(F) \cup {e}
  <2>1. ASSUME NEW x, x \in MembersOf((F \ {o}) \cup {n}) PROVE x \in MembersOf(F) \cup {e}
    <3>1. PICK s \in (F \ {o}) \cup {n} : x \in s.members
      BY <2>1 DEF MembersOf
    <3> QED BY <3>1 DEF MembersOf
  <2>2. ASSUME NEW x, x \in MembersOf(F) \cup {e} PROVE x \in MembersOf((F \ {o}) \cup {n})
    <3>1. x \in n.members \/ \E s \in F \ {o} : x \in s.members
      BY <2>2 DEF MembersOf
    <3> QED BY <3>1 DEF MembersOf
  <2> QED BY <2>1, <2>2
<1>3. \A s \in F \ {o} : s.members \cap n.members = {}
  BY <1>1
<1>4. ASSUME NEW s \in (F \ {o}) \cup {n}, NEW t \in (F \ {o}) \cup {n}, s # t
      PROVE  s.members \cap t.members = {}
  <2>1. CASE s \in F \ {o} /\ t \in F \ {o}
    BY <1>4, <2>1
  <2>2. CASE s = n /\ t \in F \ {o}
    BY <1>3, <2>2
  <2>3. CASE t = n /\ s \in F \ {o}
    BY <1>3, <2>3
  <2> QED BY <1>4, <2>1, <2>2, <2>3
<1> QED BY <1>2, <1>4

\* How the memory changes: n takes the place of the open session of the client, or joins.
LEMMA MemoryAfterGather ==
    ASSUME Memory, NEW c \in Clients, NEW n, n # NoSession,
           DOMAIN open = Clients, open' = [open EXCEPT ![c] = n]
    PROVE  /\ open[c] = NoSession /\ closed' = closed => InMemory' = InMemory \cup {n}
           /\ open[c] # NoSession /\ closed' = closed \cup {open[c]} => InMemory' = InMemory \cup {n}
           /\ open[c] # NoSession /\ closed' = closed => InMemory' = (InMemory \ {open[c]}) \cup {n}
<1>1. open'[c] = n /\ \A d \in Clients \ {c} : open'[d] = open[d]
  OBVIOUS
<1>2. \A d \in Clients \ {c} : open[d] # NoSession /\ open[c] # NoSession => open[d] # open[c]
  BY DEF Memory
<1>3. open[c] # NoSession => open[c] \notin closed
  BY DEF Memory
<1> QED BY <1>1, <1>2, <1>3 DEF InMemory

LEMMA InvGather == IInv /\ Gather => IInv'
<1> SUFFICES ASSUME IInv, Gather PROVE IInv'
  OBVIOUS
<1>1. /\ at = "gather" /\ at' = "gather"
      /\ UNCHANGED <<logs, used, saved, toVisit, host, left, part, reached, horizon, lost, late,
                     analyses, faults>>
  BY DEF Gather, tableVars, boundVars
<1>2. PICK e \in rows :
        LET c == logs[e].client
        IN /\ rows' = rows \ {e}
           /\ \/ /\ open[c] = NoSession /\ closed' = closed
                 /\ open' = [open EXCEPT ![c] = CreateSession(e)]
              \/ /\ open[c] # NoSession /\ IsInThisSameSession(open[c], e) /\ closed' = closed
                 /\ open' = [open EXCEPT ![c] = Extend(open[c], e)]
              \/ /\ open[c] # NoSession /\ closed' = closed \cup {open[c]}
                 /\ open' = [open EXCEPT ![c] = CreateSession(e)]
  BY DEF Gather
<1> DEFINE c == logs[e].client
<1>3. /\ e \in part /\ e \in DOMAIN logs /\ e \notin used /\ logs[e].host = host /\ c \in Clients
      /\ part \cap used = {} /\ lost \subseteq used
  BY LogFields DEF IInv, TypeOK, UnusedLogs
<1>4. e \notin MembersOf(Sessions)
  BY <1>2, <1>3 DEF IInv, EachEntryInOneSession
<1>5. open[c] # NoSession =>
        /\ open[c] \in InMemory /\ open[c] \in SessionType /\ OfOneClient(open[c])
        /\ open[c].client = c /\ open[c].host = host
        /\ e \notin open[c].members /\ open[c].members # {} /\ open[c] \notin saved
  <2> SUFFICES ASSUME open[c] # NoSession
               PROVE  /\ open[c] \in InMemory /\ open[c] \in SessionType /\ OfOneClient(open[c])
                      /\ open[c].client = c /\ open[c].host = host
                      /\ e \notin open[c].members /\ open[c].members # {} /\ open[c] \notin saved
    OBVIOUS
  <2>1. open[c] \in InMemory /\ open[c] \in Sessions
    BY <1>3 DEF InMemory, Sessions
  <2>2. open[c] \in SessionType /\ OfOneClient(open[c])
    BY <2>1, SessionsAreTyped DEF IInv, SessionsAreOfOneClient, OfOneClient
  <2>3. e \notin open[c].members
    BY <1>4, <2>1 DEF MembersOf
  <2>4. open[c].members # {} /\ open[c].client = c /\ open[c].host = host
    BY <1>3, <2>1 DEF IInv, Memory
  <2>5. open[c].members \subseteq MembersOf(InMemory)
    BY <2>1 DEF MembersOf
  <2>6. ASSUME open[c] \in saved PROVE FALSE
    <3>1. open[c].members \subseteq MembersOf(saved)
      BY <2>6 DEF MembersOf
    <3> QED BY <2>4, <2>5, <3>1 DEF IInv, Memory
  <2> QED BY <2>1, <2>2, <2>3, <2>4, <2>6
<1>6. ASSUME NEW n, n = CreateSession(e), open' = [open EXCEPT ![c] = n],
             \/ open[c] = NoSession /\ closed' = closed
             \/ open[c] # NoSession /\ closed' = closed \cup {open[c]}
      PROVE  /\ n \in SessionType /\ OfOneClient(n) /\ n # NoSession
             /\ n.client = c /\ n.host = host /\ n.members = {e} /\ InMemory' = InMemory \cup {n}
  <2>1. /\ n \in SessionType /\ OfOneClient(n) /\ n # NoSession
        /\ n.client = c /\ n.host = host /\ n.members = {e}
    BY <1>1, <1>3, <1>6, NewSession DEF IInv, AtStep
  <2>2. DOMAIN open = Clients
    BY DEF IInv, TypeOK
  <2> QED BY <1>3, <1>6, <2>1, <2>2, MemoryAfterGather DEF IInv
<1>7. ASSUME open[c] # NoSession, IsInThisSameSession(open[c], e), closed' = closed,
             NEW n, n = Extend(open[c], e), open' = [open EXCEPT ![c] = n]
      PROVE  /\ n \in SessionType /\ OfOneClient(n) /\ n # NoSession
             /\ n.client = c /\ n.host = host /\ n.members = open[c].members \cup {e}
             /\ InMemory' = (InMemory \ {open[c]}) \cup {n}
  <2>1. /\ n \in SessionType /\ OfOneClient(n) /\ n # NoSession
        /\ n.client = c /\ n.host = host /\ n.members = open[c].members \cup {e}
    BY <1>3, <1>5, <1>7, LongerSession DEF IInv
  <2>2. DOMAIN open = Clients
    BY DEF IInv, TypeOK
  <2> QED BY <1>3, <1>7, <2>1, <2>2, MemoryAfterGather DEF IInv
\* In each of the three cases some n joins the sessions in memory in the place of Old.
<1>8. PICK n, Old :
        /\ n \in SessionType /\ OfOneClient(n) /\ n # NoSession /\ n.client = c /\ n.host = host
        /\ open' = [open EXCEPT ![c] = n] /\ closed' \subseteq InMemory \ Old
        /\ InMemory' = (InMemory \ Old) \cup {n}
        /\ Old \subseteq InMemory \ saved /\ e \in n.members /\ n.members \subseteq DOMAIN logs
        /\ \/ Old = {} /\ n.members = {e}
           \/ \E o \in Sessions : Old = {o} /\ n.members = o.members \cup {e}
  <2>1. closed \subseteq InMemory /\ InMemory \subseteq Sessions
    BY DEF InMemory, Sessions
  <2>2. CASE open[c] = NoSession /\ closed' = closed /\ open' = [open EXCEPT ![c] = CreateSession(e)]
    <3> DEFINE n == CreateSession(e)
    <3>1. InMemory' = (InMemory \ {}) \cup {n}
      BY <1>6, <2>2
    <3>2. n \in SessionType /\ OfOneClient(n) /\ n # NoSession /\ n.client = c /\ n.host = host /\ n.members = {e}
      BY <1>6, <2>2
    <3> HIDE DEF n
    <3>3. open' = [open EXCEPT ![c] = n]
      BY <2>2 DEF n
    <3> QED BY <1>3, <2>1, <2>2, <3>1, <3>2, <3>3
  <2>3. CASE open[c] # NoSession /\ closed' = closed \cup {open[c]} /\ open' = [open EXCEPT ![c] = CreateSession(e)]
    <3> DEFINE n == CreateSession(e)
    <3>1. InMemory' = (InMemory \ {}) \cup {n}
      BY <1>6, <2>3
    <3>2. n \in SessionType /\ OfOneClient(n) /\ n # NoSession /\ n.client = c /\ n.host = host /\ n.members = {e}
      BY <1>6, <2>3
    <3> HIDE DEF n
    <3>3. open' = [open EXCEPT ![c] = n]
      BY <2>3 DEF n
    <3> QED BY <1>3, <1>5, <2>1, <2>3, <3>1, <3>2, <3>3
  <2>4. CASE /\ open[c] # NoSession /\ IsInThisSameSession(open[c], e) /\ closed' = closed
             /\ open' = [open EXCEPT ![c] = Extend(open[c], e)]
    <3> DEFINE n == Extend(open[c], e)
    <3>1. InMemory' = (InMemory \ {open[c]}) \cup {n}
      BY <1>7, <2>4
    <3>2. /\ n \in SessionType /\ OfOneClient(n) /\ n # NoSession /\ n.client = c /\ n.host = host
          /\ n.members = open[c].members \cup {e}
      BY <1>7, <2>4
    <3> HIDE DEF n
    <3>3. open' = [open EXCEPT ![c] = n]
      BY <2>4 DEF n
    <3>4. open[c] \notin closed /\ n.members \subseteq DOMAIN logs
      BY <1>3, <2>4, <3>2, SessionFields DEF IInv, Memory
    <3>5. {open[c]} \subseteq InMemory \ saved /\ closed' \subseteq InMemory \ {open[c]}
      BY <1>5, <2>1, <2>4, <3>4
    <3>6. e \in n.members /\ \E o \in Sessions : {open[c]} = {o} /\ n.members = o.members \cup {e}
      BY <1>5, <2>1, <2>4, <3>2
    <3> QED BY <3>1, <3>2, <3>3, <3>4, <3>5, <3>6
  <2> QED BY <1>2, <2>2, <2>3, <2>4
<1>9. Sessions' = (Sessions \ Old) \cup {n} /\ Old \subseteq Sessions
  BY <1>1, <1>8 DEF Sessions
<1>10. MembersOf(Sessions') = MembersOf(Sessions) \cup {e}
       /\ \A s, t \in Sessions' : s # t => s.members \cap t.members = {}
  <2>1. \A s, t \in Sessions : s # t => s.members \cap t.members = {}
    BY DEF IInv, EachEntryInOneSession
  <2>2. CASE Old = {} /\ n.members = {e}
    <3>1. Sessions' = Sessions \cup {n}
      BY <1>9, <2>2
    <3> QED BY <1>4, <2>1, <2>2, <3>1, SessionJoins
  <2>3. ASSUME NEW o \in Sessions, Old = {o}, n.members = o.members \cup {e}
        PROVE  /\ MembersOf(Sessions') = MembersOf(Sessions) \cup {e}
               /\ \A s, t \in Sessions' : s # t => s.members \cap t.members = {}
    <3>1. Sessions' = (Sessions \ {o}) \cup {n}
      BY <1>9, <2>3
    <3> QED BY <1>4, <2>1, <2>3, <3>1, SessionGrows
  <2> QED BY <1>8, <2>2, <2>3
<1>11. EachEntryInOneSession'
  <2>1. part' \ rows' = (part \ rows) \cup {e}
    BY <1>1, <1>2, <1>3
  <2>2. MembersOf(Sessions') = (used' \ lost') \cup (part' \ rows')
    BY <1>1, <1>10, <2>1 DEF IInv, EachEntryInOneSession
  <2> QED BY <1>10, <2>2 DEF EachEntryInOneSession, MembersOf
<1>12. SessionsAreOfOneClient'
  <2>1. \A s \in Sessions' : OfOneClient(s)
    BY <1>8, <1>9 DEF IInv, SessionsAreOfOneClient, OfOneClient
  <2> QED BY <1>1, <2>1 DEF SessionsAreOfOneClient, OfOneClient
<1>13. TypeOK'
  <2>1. UnusedLogs(host)' = UnusedLogs(host) /\ SessionType' = SessionType
    BY <1>1 DEF UnusedLogs, SessionType
  <2>2. rows' \subseteq part'
    BY <1>1, <1>2 DEF IInv, TypeOK
  <2>3. closed' \subseteq SessionType
    BY <1>8, SessionsAreTyped DEF IInv, Sessions
  <2>4. open' \in [Clients -> SessionType \cup {NoSession}]
    BY <1>8 DEF IInv, TypeOK
  <2> QED BY <1>1, <2>1, <2>2, <2>3, <2>4 DEF IInv, TypeOK
<1>14. Memory'
  <2>1. n \notin closed' /\ n \notin closed
    <3>1. \A s \in Sessions : e \notin s.members
      BY <1>4 DEF MembersOf
    <3> QED BY <1>8, <3>1 DEF Sessions, InMemory
  <2>2. \A d \in Clients : open'[d] # NoSession =>
          open'[d].client = d /\ open'[d].host = host' /\ open'[d] \notin closed'
    <3>1. open'[c] = n /\ \A d \in Clients \ {c} : open'[d] = open[d]
      BY <1>3, <1>8 DEF IInv, TypeOK
    <3>2. \A d \in Clients \ {c} : open[d] # NoSession => open[d] \notin closed'
      BY <1>2, <1>3, <1>5 DEF IInv, Memory
    <3> QED BY <1>1, <1>8, <2>1, <3>1, <3>2 DEF IInv, Memory
  <2>3. MembersOf(InMemory') \subseteq MembersOf(InMemory) \cup {e}
    BY <1>8 DEF MembersOf, IInv, EachEntryInOneSession
  <2>4. MembersOf(saved) \subseteq used /\ MembersOf(saved) \cap MembersOf(InMemory) = {}
    BY DEF IInv, Memory
  <2>5. \A s \in Sessions' : s.members # {}
    BY <1>8, <1>9 DEF IInv, Memory
  <2> QED BY <1>1, <1>3, <2>2, <2>3, <2>4, <2>5 DEF Memory, MembersOf
<1> QED BY <1>1, <1>11, <1>12, <1>13, <1>14 DEF IInv, AtStep

-----------------------------------------------------------------------------
LEMMA Inductive == IInv /\ [Next]_vars => IInv'
<1> SUFFICES ASSUME IInv, [Next]_vars PROVE IInv'
  OBVIOUS
<1>1. CASE AddLog
  BY <1>1, InvAddLog
<1>2. CASE Prepare \/ PrepareEnds \/ \E h \in Hosts : CreateStatistics(h)
  BY <1>2, InvChoose
<1>3. CASE GetUnusedLogs
  BY <1>3, InvGetUnusedLogs
<1>4. CASE Gather
  BY <1>4, InvGather
<1>5. CASE MarkLogsAsUsed
  BY <1>5, InvMarkLogsAsUsed
<1>6. CASE SaveAllSessions \/ SaveFails \/ Crash
  BY <1>6, InvSaveAllSessions, InvSaveFails, InvCrash
<1>7. CASE UNCHANGED vars
  <2>1. UNCHANGED <<logs, used, saved, at, toVisit, host, left, part, rows, open, closed, reached,
                    horizon, lost, late, analyses, faults>>
    BY <1>7 DEF vars, tableVars, partVars, memory, boundVars
  <2>2. /\ Sessions' = Sessions /\ InMemory' = InMemory /\ SessionType' = SessionType
        /\ UnusedLogs(host)' = UnusedLogs(host)
    BY <2>1 DEF Sessions, InMemory, SessionType, UnusedLogs
  <2>3. TypeOK' /\ AtStep'
    BY <2>1, <2>2 DEF IInv, TypeOK, AtStep
  <2>4. Memory' /\ EachEntryInOneSession'
    BY <2>1, <2>2, Zenon DEF IInv, Memory, EachEntryInOneSession, MembersOf
  <2>5. SessionsAreOfOneClient'
    BY <2>1, <2>2 DEF IInv, SessionsAreOfOneClient
  <2> QED BY <2>3, <2>4, <2>5 DEF IInv
<1> QED BY <1>1, <1>2, <1>3, <1>4, <1>5, <1>6, <1>7 DEF Next

\* What the gatherer keeps in memory, in the part and in the table fits together in every
\* state, for every interleaving with the entries that arrive.
THEOREM Invariance == Spec => []IInv
BY InitInv, Inductive, PTL DEF Spec

\* The types, and the count of rows to ask for, hold for every size of a part: no part is
\* asked for that has fewer rows than RunPartially counted.
THEOREM TypeCorrect == Spec => []TypeOK
<1>1. IInv => TypeOK
  BY DEF IInv
<1> QED BY <1>1, Invariance, PTL

\* Every used entry is in exactly one session, saved or in memory, or its loss is known,
\* whatever is added while the parts are read.
THEOREM EntriesInOneSession == Spec => []EachEntryInOneSession
<1>1. IInv => EachEntryInOneSession
  BY DEF IInv
<1> QED BY <1>1, Invariance, PTL

\* Sessions never mix hosts, clients or days, and their counters count their requests.
THEOREM SessionsOfOneClient == Spec => []SessionsAreOfOneClient
<1>1. IInv => SessionsAreOfOneClient
  BY DEF IInv
<1> QED BY <1>1, Invariance, PTL

-----------------------------------------------------------------------------
(* What a session is.                                                      *)

\* What SessionsAsDefined asks of one session, and of two of a client and day.
Shaped(s) ==
    /\ \E e \in s.members : logs[e].second = s.start
    /\ \E e \in s.members : logs[e].second = s.start + s.length
    /\ \A e \in s.members : logs[e].second \in s.start..(s.start + s.length)

Alike(s, t) == <<t.host, t.client, t.day, t.analysis>> = <<s.host, s.client, s.day, s.analysis>>
Apart(s, t) == Distance(s.start, t.start) >= SessionLength

\* A late entry is in a session of the client of s, of the same analysis, in F.
Touched(F, s) ==
    \E e \in late : /\ logs[e].host = s.host /\ logs[e].client = s.client
                    /\ e \in MembersOf({t \in F : t.analysis = s.analysis})

DefinedIn(F) ==
    \A s \in F : ~ Touched(F, s) =>
        Shaped(s) /\ \A t \in F \ {s} : Alike(s, t) => Apart(s, t)

\* The parts are read in the order of the time, but for the late entries.
ReadInOrder ==
    /\ at \in {"idle", "host"} => reached = 0
    /\ reached = 0 => MembersOf(InMemory) = {} /\ part = {}
    /\ reached # 0 =>
          /\ \A e \in MembersOf(InMemory) \cup part : ~ Earlier(reached, e)
          /\ \A e \in UnusedLogs(host) \ part : e <= horizon => ~ Earlier(e, reached)
    /\ \A e \in rows \ late, f \in MembersOf(InMemory) : ~ Earlier(e, f)

\* A host is visited once by an analysis.
OncePerAnalysis ==
    /\ host \notin toVisit
    /\ \A s \in InMemory : s.host = host /\ s.analysis = analyses
    /\ \A s \in saved :
          /\ s.analysis <= analyses
          /\ at # "idle" /\ s.analysis = analyses => s.host \notin toVisit \cup {host}

\* t starts when s is over.
Follows(s, t) ==
    \/ s.day < t.day
    \/ s.day = t.day /\ s.start + SessionLength <= t.start

Clean(c) == \A e \in late \cap MembersOf(InMemory) : logs[e].client # c

\* The sessions in memory of a client without a late entry.
InOrder ==
    \A c \in Clients : Clean(c) =>
        /\ \A s \in InMemory : s.client = c => Shaped(s)
        /\ \A s, t \in closed :
              s # t /\ s.client = c /\ t.client = c /\ s.day = t.day => Apart(s, t)
        /\ \A s \in closed : s.client = c => open[c] # NoSession /\ Follows(s, open[c])

DInv == IInv /\ ReadInOrder /\ OncePerAnalysis /\ InOrder /\ DefinedIn(saved)

\* The order of the rows in time: of two, one is not earlier, and of three.
LEMMA EarlierIsAnOrder ==
    ASSUME TypeOK, NEW e \in DOMAIN logs, NEW f \in DOMAIN logs, NEW g \in DOMAIN logs
    PROVE  /\ ~ Earlier(e, e)
           /\ Earlier(e, f) => ~ Earlier(f, e)
           /\ ~ Earlier(e, f) /\ ~ Earlier(f, g) => ~ Earlier(e, g)
<1>1. /\ logs[e].day \in Nat /\ logs[f].day \in Nat /\ logs[g].day \in Nat
      /\ logs[e].second \in Nat /\ logs[f].second \in Nat /\ logs[g].second \in Nat
  BY LogFields, TimesAreInts DEF Times
<1> QED BY <1>1 DEF Earlier

LEMMA MembersAreRows ==
    ASSUME TypeOK
    PROVE  /\ MembersOf(Sessions) \subseteq DOMAIN logs
           /\ MembersOf(InMemory) \subseteq DOMAIN logs /\ MembersOf(saved) \subseteq DOMAIN logs
<1>1. \A s \in Sessions : s.members \subseteq DOMAIN logs
  BY SessionsAreTyped, SessionFields
<1>2. InMemory \subseteq Sessions /\ saved \subseteq Sessions
  BY DEF Sessions
<1> QED BY <1>1, <1>2 DEF MembersOf

\* Sessions stay defined while their rows and the late ones among them stay.
LEMMA DefinedStays ==
    ASSUME TypeOK, saved' = saved, \A e \in DOMAIN logs : logs'[e] = logs[e],
           late \cap MembersOf(saved) \subseteq late', DefinedIn(saved)
    PROVE  DefinedIn(saved)'
<1>1. ASSUME NEW s \in saved PROVE Touched(saved, s) => Touched(saved, s)'
  <2> SUFFICES ASSUME Touched(saved, s) PROVE Touched(saved, s)'
    OBVIOUS
  <2>1. PICK e \in late : /\ logs[e].host = s.host /\ logs[e].client = s.client
                          /\ e \in MembersOf({t \in saved : t.analysis = s.analysis})
    BY DEF Touched
  <2>2. e \in MembersOf(saved)
    BY <2>1 DEF MembersOf
  <2>3. e \in late' /\ logs'[e] = logs[e]
    BY <2>2, MembersAreRows
  <2>4. e \in MembersOf({t \in saved' : t.analysis = s.analysis})
    BY <2>1
  <2>5. Touched(saved, s)' <=>
          \E x \in late' : /\ logs'[x].host = s.host /\ logs'[x].client = s.client
                           /\ x \in MembersOf({t \in saved' : t.analysis = s.analysis})
    BY DEF Touched, MembersOf
  <2> QED BY <2>1, <2>3, <2>4, <2>5
<1>2. ASSUME NEW s \in saved PROVE Shaped(s) => Shaped(s)'
  <2>1. \A e \in s.members : logs'[e] = logs[e]
    BY MembersAreRows DEF MembersOf
  <2> QED BY <2>1 DEF Shaped
<1>3. DefinedIn(saved)' <=>
        \A s \in saved : ~ Touched(saved, s)' =>
           Shaped(s)' /\ \A t \in saved \ {s} : Alike(s, t) => Apart(s, t)
  BY DEF DefinedIn, Alike, Apart
<1> QED BY <1>1, <1>2, <1>3 DEF DefinedIn

\* And so do those in memory.
LEMMA InOrderStays ==
    ASSUME TypeOK, UNCHANGED <<open, closed>>, \A e \in DOMAIN logs : logs'[e] = logs[e],
           late \cap MembersOf(InMemory) \subseteq late', InOrder
    PROVE  InOrder'
<1>1. InMemory' = InMemory
  BY DEF InMemory
<1>2. ASSUME NEW c, Clean(c)' PROVE Clean(c)
  <2>1. \A e \in late' \cap MembersOf(InMemory) : logs'[e].client # c
    BY <1>1, <1>2 DEF Clean, MembersOf
  <2> QED BY <2>1, MembersAreRows DEF Clean
<1>3. ASSUME NEW s \in InMemory PROVE Shaped(s) => Shaped(s)'
  <2>1. \A e \in s.members : logs'[e] = logs[e]
    BY MembersAreRows DEF MembersOf
  <2> QED BY <2>1 DEF Shaped
<1>4. ASSUME NEW c \in Clients, Clean(c)'
      PROVE  /\ \A s \in InMemory : s.client = c => Shaped(s)
             /\ \A s, t \in closed :
                   s # t /\ s.client = c /\ t.client = c /\ s.day = t.day => Apart(s, t)
             /\ \A s \in closed : s.client = c => open[c] # NoSession /\ Follows(s, open[c])
  BY <1>2, <1>4 DEF InOrder
<1> QED BY <1>1, <1>3, <1>4 DEF InOrder, Apart, Follows

\* With the memory cleared there is nothing to show of it.
LEMMA ClearedIsInOrder ==
    ASSUME Cleared, NoHost \notin toVisit', at' \in {"idle", "host"}
    PROVE  /\ InOrder' /\ ReadInOrder' /\ InMemory' = {} /\ host' = NoHost
<1>1. /\ open' = [c \in Clients |-> NoSession] /\ closed' = {} /\ reached' = 0 /\ horizon' = 0
      /\ host' = NoHost /\ part' = {} /\ rows' = {}
  BY DEF Cleared
<1>2. InMemory' = {} /\ MembersOf({}) = {}
  BY <1>1 DEF InMemory, MembersOf
<1>3. InOrder'
  BY <1>1, <1>2 DEF InOrder
<1>4. MembersOf(InMemory)' = {}
  BY <1>2 DEF MembersOf
<1>5. ReadInOrder'
  BY <1>1, <1>4 DEF ReadInOrder
<1> QED BY <1>1, <1>2, <1>3, <1>5

LEMMA DefinedInit == Init => DInv
<1> SUFFICES ASSUME Init PROVE DInv
  OBVIOUS
<1>1. IInv
  BY InitInv
<1>2. InMemory = {} /\ saved = {} /\ closed = {} /\ MembersOf(InMemory) = {}
  BY DEF Init, InMemory, MembersOf
<1>3. ReadInOrder
  BY <1>2 DEF Init, ReadInOrder
<1>4. OncePerAnalysis /\ InOrder /\ DefinedIn(saved)
  BY <1>2 DEF Init, OncePerAnalysis, InOrder, DefinedIn
<1> QED BY <1>1, <1>3, <1>4 DEF DInv

\* A session that starts with an entry no earlier than what is in memory, one that grows by
\* it, and the one it closes.
LEMMA FirstOfASession ==
    ASSUME TypeOK, NEW e \in DOMAIN logs
    PROVE  Shaped(CreateSession(e)) /\ CreateSession(e).analysis = analyses
<1>1. /\ CreateSession(e).start = logs[e].second /\ CreateSession(e).length = 0
      /\ CreateSession(e).members = {e} /\ CreateSession(e).analysis = analyses
  BY DEF CreateSession
<1>2. logs[e].second \in Int
  BY LogFields, TimesAreInts DEF Times
<1> QED BY <1>1, <1>2 DEF Shaped

LEMMA NextOfASession ==
    ASSUME TypeOK, NEW s \in SessionType, OfOneClient(s), Shaped(s), NEW e \in DOMAIN logs,
           IsInThisSameSession(s, e), \A x \in s.members : ~ Earlier(e, x)
    PROVE  Shaped(Extend(s, e))
<1>1. /\ Extend(s, e).start = s.start /\ Extend(s, e).members = s.members \cup {e}
      /\ Extend(s, e).length = Distance(s.start, logs[e].second)
  BY SessionFields DEF Extend
<1>2. s.start \in Int /\ s.length \in Int /\ s.length >= 0 /\ logs[e].second \in Int
  BY LogFields, SessionFields, TimesAreInts DEF Times, SessionType
<1>3. \A x \in s.members : logs[x].second \in Int /\ logs[x].second <= logs[e].second
  <2> SUFFICES ASSUME NEW x \in s.members PROVE logs[x].second \in Int /\ logs[x].second <= logs[e].second
    OBVIOUS
  <2>1. x \in DOMAIN logs
    BY SessionFields
  <2>2. logs[x].second \in Int
    BY <2>1, LogFields, TimesAreInts DEF Times
  <2>3. logs[x].day = s.day /\ logs[e].day = s.day
    BY DEF OfOneClient, IsInThisSameSession
  <2> QED BY <1>2, <2>2, <2>3 DEF Earlier
<1>4. PICK x \in s.members : logs[x].second = s.start
  BY DEF Shaped
<1>5. s.start <= logs[e].second
  BY <1>3, <1>4
<1>6. s.start + Distance(s.start, logs[e].second) = logs[e].second
  BY <1>2, <1>5 DEF Distance
<1>7. \A y \in s.members : logs[y].second \in s.start..logs[e].second
  BY <1>2, <1>3 DEF Shaped
<1> QED BY <1>1, <1>2, <1>4, <1>5, <1>6, <1>7 DEF Shaped

LEMMA AfterASession ==
    ASSUME TypeOK, NEW s \in SessionType, OfOneClient(s), Shaped(s), NEW e \in DOMAIN logs,
           ~ IsInThisSameSession(s, e), \A x \in s.members : ~ Earlier(e, x)
    PROVE  Follows(s, CreateSession(e))
<1>1. CreateSession(e).start = logs[e].second /\ CreateSession(e).day = logs[e].day
  BY DEF CreateSession
<1>2. /\ s.start \in Int /\ s.day \in Int /\ logs[e].second \in Int /\ logs[e].day \in Int
      /\ SessionLength \in Int
  BY LogFields, SessionFields, TimesAreInts, SessionsAssumption DEF Times
<1>3. PICK x \in s.members : logs[x].second = s.start
  BY DEF Shaped
<1>4. logs[x].day = s.day
  BY DEF OfOneClient
<1>5. s.day < logs[e].day \/ (s.day = logs[e].day /\ s.start <= logs[e].second)
  BY <1>2, <1>3, <1>4 DEF Earlier
<1>6. CASE logs[e].day = s.day
  <2>1. s.start <= logs[e].second
    BY <1>2, <1>5, <1>6
  <2>2. ~ (Distance(s.start, logs[e].second) < SessionLength)
    BY <1>6 DEF IsInThisSameSession
  <2>3. s.start + SessionLength <= logs[e].second
    BY <1>2, <2>1, <2>2 DEF Distance
  <2> QED BY <1>1, <1>6, <2>3 DEF Follows
<1>7. CASE s.day < logs[e].day
  BY <1>1, <1>7 DEF Follows
<1> QED BY <1>5, <1>6, <1>7

LEMMA FollowsIsAnOrder ==
    ASSUME NEW s \in SessionType, NEW t \in SessionType, NEW u \in SessionType, Follows(s, t)
    PROVE  /\ Follows(t, u) => Follows(s, u)
           /\ s.day = t.day => Apart(s, t) /\ Apart(t, s)
<1>1. /\ s.start \in Int /\ t.start \in Int /\ u.start \in Int
      /\ s.day \in Int /\ t.day \in Int /\ u.day \in Int
      /\ SessionLength \in Int /\ SessionLength > 0
  BY SessionFields, TimesAreInts, SessionsAssumption DEF Times
<1>2. Follows(t, u) => Follows(s, u)
  BY <1>1 DEF Follows
<1>3. s.day = t.day => Apart(s, t) /\ Apart(t, s)
  BY <1>1 DEF Follows, Apart, Distance
<1> QED BY <1>2, <1>3

-----------------------------------------------------------------------------
LEMMA DefinedAddLog == DInv /\ AddLog => DInv'
<1> SUFFICES ASSUME DInv, AddLog PROVE DInv'
  OBVIOUS
<1>1. PICK k \in Kinds : logs' = Append(logs, k)
  BY DEF AddLog
<1>2. /\ Len(logs) \in Nat /\ DOMAIN logs = 1..Len(logs) /\ DOMAIN logs' = 1..(Len(logs) + 1)
      /\ \A e \in DOMAIN logs : logs'[e] = logs[e]
  BY <1>1 DEF DInv, IInv, TypeOK
<1>3. UNCHANGED <<used, saved, at, toVisit, host, left, part, rows, open, closed, reached, horizon,
                  lost, late, analyses, faults>>
  BY DEF AddLog, partVars, memory, boundVars
<1>4. InMemory' = InMemory /\ MembersOf(InMemory)' = MembersOf(InMemory)
  BY <1>3 DEF InMemory, MembersOf
<1>5. \A e, f \in DOMAIN logs : Earlier(e, f)' <=> Earlier(e, f)
  BY <1>2 DEF Earlier
<1>6. /\ MembersOf(InMemory) \subseteq DOMAIN logs /\ part \subseteq DOMAIN logs /\ rows \subseteq DOMAIN logs
      /\ reached \in {0} \cup DOMAIN logs /\ horizon \in Int /\ horizon <= Len(logs)
  BY <1>2, MembersAreRows DEF DInv, IInv, TypeOK, UnusedLogs
<1>10. \A e \in DOMAIN logs :
         reached # 0 => (Earlier(e, reached)' <=> Earlier(e, reached)) /\ (Earlier(reached, e)' <=> Earlier(reached, e))
  BY <1>2, <1>3, <1>6 DEF Earlier
<1>11. reached # 0 =>
         /\ \A e \in MembersOf(InMemory) \cup part : ~ Earlier(reached, e)
         /\ \A e \in UnusedLogs(host) \ part : e <= horizon => ~ Earlier(e, reached)
  BY DEF DInv, ReadInOrder
<1>7. ReadInOrder'
  <2>1. \A e \in rows \ late, f \in MembersOf(InMemory) : ~ Earlier(e, f)'
    BY <1>5, <1>6 DEF DInv, ReadInOrder
  <2>2. ASSUME reached # 0 PROVE \A e \in MembersOf(InMemory) \cup part : ~ Earlier(reached, e)'
    BY <1>6, <1>10, <1>11, <2>2
  <2>3. ASSUME reached # 0, NEW e \in UnusedLogs(host)' \ part, e <= horizon PROVE ~ Earlier(e, reached)'
    <3>1. e \in 1..(Len(logs) + 1) /\ e \notin used /\ logs'[e].host = host
      BY <1>2, <1>3 DEF UnusedLogs
    <3>2. e \in DOMAIN logs
      BY <1>2, <1>6, <2>3, <3>1
    <3>3. e \in UnusedLogs(host) \ part
      BY <1>2, <3>1, <3>2, <2>3 DEF UnusedLogs
    <3>4. ~ Earlier(e, reached)
      BY <1>11, <2>3, <3>3
    <3> QED BY <1>10, <2>3, <3>2, <3>4
  <2>4. reached = 0 => MembersOf(InMemory) = {} /\ part = {}
    BY DEF DInv, ReadInOrder
  <2>5. at \in {"idle", "host"} => reached = 0
    BY DEF DInv, ReadInOrder
  <2> QED BY <1>3, <1>4, <2>1, <2>2, <2>3, <2>4, <2>5 DEF ReadInOrder
<1>8. OncePerAnalysis'
  BY <1>3, <1>4 DEF DInv, OncePerAnalysis
<1>9. InOrder' /\ DefinedIn(saved)'
  BY <1>2, <1>3, InOrderStays, DefinedStays DEF DInv, IInv
<1> QED BY <1>7, <1>8, <1>9, InvAddLog DEF DInv

\* The hosts an analysis visits are those it has not visited.
LEMMA DefinedChoose == DInv /\ (Prepare \/ PrepareEnds \/ \E h \in Hosts : CreateStatistics(h)) => DInv'
<1> SUFFICES ASSUME DInv, Prepare \/ PrepareEnds \/ \E h \in Hosts : CreateStatistics(h) PROVE DInv'
  OBVIOUS
<1>1. UNCHANGED <<logs, used, saved, part, rows, open, closed, reached, horizon, lost, late, faults>>
  BY DEF Prepare, PrepareEnds, CreateStatistics, tableVars, partVars, memory, boundVars
<1>2. InMemory' = InMemory /\ MembersOf(InMemory)' = MembersOf(InMemory)
  BY <1>1 DEF InMemory, MembersOf
<1>3. IInv'
  BY InvChoose DEF DInv
<1>4. InOrder' /\ DefinedIn(saved)'
  BY <1>1, InOrderStays, DefinedStays DEF DInv, IInv
<1>5. at \in {"idle", "host"} /\ at' \in {"host", "part", "idle"}
  BY DEF Prepare, PrepareEnds, CreateStatistics
<1>6. /\ reached = 0 /\ InMemory = {} /\ rows = {} /\ part = {} /\ host = NoHost
      /\ MembersOf(InMemory) = {}
  BY <1>5 DEF DInv, IInv, TypeOK, AtStep, ReadInOrder, InMemory
<1>7. ReadInOrder'
  BY <1>1, <1>2, <1>6 DEF ReadInOrder
<1>8. OncePerAnalysis'
  <2>1. \A s \in InMemory' : s.host = host' /\ s.analysis = analyses'
    BY <1>2, <1>6
  <2>2. analyses \in Int /\ \A s \in saved : s.analysis \in Int /\ s.analysis <= analyses
    BY SessionsAssumption DEF DInv, IInv, TypeOK, SessionType, OncePerAnalysis
  <2>3. CASE Prepare
    <3>1. host' = NoHost /\ NoHost \notin toVisit' /\ analyses' = analyses + 1
      <4>1. toVisit' = {logs[e].host : e \in DOMAIN logs} /\ analyses' = analyses + 1 /\ host' = host
        BY <2>3 DEF Prepare, partVars
      <4> QED BY <1>6, <4>1, LogFields, SessionsAssumption DEF DInv, IInv
    <3>2. \A s \in saved : s.analysis <= analyses' /\ s.analysis # analyses'
      BY <2>2, <3>1
    <3> QED BY <1>1, <2>1, <3>1, <3>2 DEF OncePerAnalysis
  <2>4. CASE PrepareEnds
    <3>1. at' = "idle" /\ host' = host /\ toVisit' = toVisit /\ analyses' = analyses
      BY <2>4 DEF PrepareEnds, partVars, boundVars
    <3> QED BY <1>1, <2>1, <3>1 DEF OncePerAnalysis, DInv
  <2>5. ASSUME NEW h \in Hosts, CreateStatistics(h) PROVE OncePerAnalysis'
    <3>1. at = "host" /\ h \in toVisit /\ toVisit' = toVisit \ {h} /\ host' = h /\ analyses' = analyses
      BY <2>5 DEF CreateStatistics, boundVars
    <3>2. \A s \in saved : s.analysis <= analyses /\ (s.analysis = analyses => s.host \notin toVisit)
      BY <3>1 DEF DInv, OncePerAnalysis
    <3> QED BY <1>1, <2>1, <3>1, <3>2 DEF OncePerAnalysis
  <2> QED BY <2>3, <2>4, <2>5
<1> QED BY <1>3, <1>4, <1>7, <1>8 DEF DInv

LEMMA DefinedMarkLogsAsUsed == DInv /\ MarkLogsAsUsed => DInv'
<1> SUFFICES ASSUME DInv, MarkLogsAsUsed PROVE DInv'
  OBVIOUS
<1>1. /\ at = "gather" /\ rows = {} /\ used' = used \cup part /\ part' = {} /\ at' = "part"
      /\ UNCHANGED <<logs, saved, toVisit, host, left, rows, open, closed, reached, horizon, lost,
                     late, analyses, faults>>
  BY DEF MarkLogsAsUsed, memory, boundVars
<1>2. InMemory' = InMemory /\ MembersOf(InMemory)' = MembersOf(InMemory)
  BY <1>1 DEF InMemory, MembersOf
<1>3. UnusedLogs(host)' \ part' = UnusedLogs(host) \ part
  BY <1>1 DEF UnusedLogs
<1>4. ReadInOrder'
  <2>1. reached # 0 =>
          /\ \A e \in MembersOf(InMemory) \cup part : ~ Earlier(reached, e)
          /\ \A e \in UnusedLogs(host) \ part : e <= horizon => ~ Earlier(e, reached)
    BY DEF DInv, ReadInOrder
  <2>2. \A e, f : Earlier(e, f)' <=> Earlier(e, f)
    BY <1>1 DEF Earlier
  <2>3. \A e : Earlier(reached, e)' <=> Earlier(reached, e)
    BY <1>1 DEF Earlier
  <2>4. \A e : Earlier(e, reached)' <=> Earlier(e, reached)
    BY <1>1 DEF Earlier
  <2>5. reached = 0 => MembersOf(InMemory) = {} /\ part = {}
    BY DEF DInv, ReadInOrder
  <2> QED BY <1>1, <1>2, <1>3, <2>1, <2>2, <2>3, <2>4, <2>5 DEF ReadInOrder
<1>5. OncePerAnalysis'
  BY <1>1, <1>2 DEF DInv, OncePerAnalysis
<1>6. InOrder' /\ DefinedIn(saved)'
  BY <1>1, InOrderStays, DefinedStays DEF DInv, IInv
<1> QED BY <1>4, <1>5, <1>6, InvMarkLogsAsUsed DEF DInv

\* A part goes on where the last one ended, but for the entries it brings late.
LEMMA DefinedGetUnusedLogs == DInv /\ GetUnusedLogs => DInv'
<1> SUFFICES ASSUME DInv, GetUnusedLogs PROVE DInv'
  OBVIOUS
<1>1. /\ at = "part" /\ at' = "gather"
      /\ UNCHANGED <<logs, used, saved, toVisit, host, open, closed, lost, analyses, faults>>
  BY DEF GetUnusedLogs, tableVars, boundVars
<1>2. PICK S \in FirstUnused(host, PartCount) : \E last \in S :
        /\ \A e \in S : ~ Earlier(last, e)
        /\ part' = S /\ rows' = S /\ late' = late \cup {e \in S : IsLate(e)}
        /\ IF reached # 0 /\ Earlier(last, reached)
           THEN UNCHANGED <<reached, horizon>>
           ELSE reached' = last /\ horizon' = Len(logs)
  BY DEF GetUnusedLogs
<1>3. PICK last \in S :
        /\ \A e \in S : ~ Earlier(last, e)
        /\ part' = S /\ rows' = S /\ late' = late \cup {e \in S : IsLate(e)}
        /\ IF reached # 0 /\ Earlier(last, reached)
           THEN UNCHANGED <<reached, horizon>>
           ELSE reached' = last /\ horizon' = Len(logs)
  BY <1>2
<1>4. /\ S \subseteq UnusedLogs(host) /\ UnusedLogs(host) \subseteq DOMAIN logs
      /\ \A e \in S, f \in UnusedLogs(host) \ S : ~ Earlier(f, e)
  BY DEF FirstUnused, UnusedLogs
<1>5. part = {} /\ TypeOK
  BY <1>1 DEF DInv, IInv, TypeOK, AtStep
<1>6. /\ InMemory' = InMemory /\ MembersOf(InMemory)' = MembersOf(InMemory)
      /\ UnusedLogs(host)' = UnusedLogs(host)
  BY <1>1 DEF InMemory, MembersOf, UnusedLogs
<1>7. reached = 0 => MembersOf(InMemory) = {}
  BY DEF DInv, ReadInOrder
<1>8. reached # 0 =>
        /\ reached \in DOMAIN logs
        /\ \A e \in MembersOf(InMemory) : ~ Earlier(reached, e)
        /\ \A e \in UnusedLogs(host) : e <= horizon => ~ Earlier(e, reached)
  BY <1>5 DEF DInv, ReadInOrder, TypeOK
<1>9. MembersOf(InMemory) \subseteq DOMAIN logs
  BY <1>5, MembersAreRows
<1>10. \A e, f, g \in DOMAIN logs :
         /\ Earlier(e, f) => ~ Earlier(f, e)
         /\ ~ Earlier(e, f) /\ ~ Earlier(f, g) => ~ Earlier(e, g)
  BY <1>5, EarlierIsAnOrder
<1>11. /\ reached' \in DOMAIN logs
       /\ \A e \in MembersOf(InMemory) \cup S : ~ Earlier(reached', e)
       /\ \A e \in UnusedLogs(host) \ S : e <= horizon' => ~ Earlier(e, reached')
  <2>1. CASE reached # 0 /\ Earlier(last, reached)
    <3>1. reached' = reached /\ horizon' = horizon
      BY <1>3, <2>1
    <3>2. ~ Earlier(reached, last)
      BY <1>4, <1>8, <1>10, <2>1
    <3>3. \A e \in S : ~ Earlier(reached, e)
      BY <1>3, <1>4, <1>8, <1>10, <2>1, <3>2
    <3> QED BY <1>8, <2>1, <3>1, <3>3
  <2>2. CASE ~ (reached # 0 /\ Earlier(last, reached))
    <3>1. reached' = last /\ last \in DOMAIN logs
      BY <1>3, <1>4, <2>2
    <3>2. \A e \in MembersOf(InMemory) : ~ Earlier(last, e)
      BY <1>7, <1>8, <1>9, <1>10, <2>2, <3>1
    <3> QED BY <1>3, <1>4, <3>1, <3>2
  <2> QED BY <2>1, <2>2
<1>12. \A e \in S \ late', f \in MembersOf(InMemory) : ~ Earlier(e, f)
  <2> SUFFICES ASSUME NEW e \in S, e \notin late', NEW f \in MembersOf(InMemory) PROVE ~ Earlier(e, f)
    OBVIOUS
  <2>1. reached # 0 /\ ~ IsLate(e)
    BY <1>3, <1>7
  <2>2. e \in Int /\ horizon \in Int
    BY <1>4, <1>5 DEF TypeOK
  <2>3. ~ Earlier(e, reached) \/ e <= horizon
    BY <2>1, <2>2 DEF IsLate
  <2>4. ~ Earlier(e, reached)
    BY <1>4, <1>8, <2>1, <2>3
  <2> QED BY <1>4, <1>8, <1>9, <1>10, <2>1, <2>4
<1>13. ReadInOrder'
  <2>1. \A e, f : Earlier(e, f)' <=> Earlier(e, f)
    BY <1>1 DEF Earlier
  <2>2. \A e : Earlier(reached, e)' <=> Earlier(reached', e)
    BY <1>1 DEF Earlier
  <2>3. \A e : Earlier(e, reached)' <=> Earlier(e, reached')
    BY <1>1 DEF Earlier
  <2>4. reached' # 0
    BY <1>5, <1>11 DEF TypeOK
  <2>5. \A e \in (MembersOf(InMemory) \cup part)' : ~ Earlier(reached, e)'
    BY <1>3, <1>6, <1>11, <2>2
  <2>6. \A e \in (UnusedLogs(host) \ part)' : e <= horizon' => ~ Earlier(e, reached)'
    BY <1>3, <1>6, <1>11, <2>3
  <2>7. \A e \in (rows \ late)', f \in MembersOf(InMemory)' : ~ Earlier(e, f)'
    BY <1>3, <1>6, <1>12, <2>1
  <2> QED BY <1>1, <2>4, <2>5, <2>6, <2>7 DEF ReadInOrder
<1>14. OncePerAnalysis'
  BY <1>1, <1>6 DEF DInv, OncePerAnalysis
<1>15. InOrder' /\ DefinedIn(saved)'
  BY <1>1, <1>3, InOrderStays, DefinedStays DEF DInv, IInv
<1> QED BY <1>13, <1>14, <1>15, InvGetUnusedLogs DEF DInv

\* An entry is gathered: the first of those left in the part.
LEMMA DefinedGather == DInv /\ Gather => DInv'
<1> SUFFICES ASSUME DInv, Gather PROVE DInv'
  OBVIOUS
<1>1. /\ at = "gather" /\ at' = "gather"
      /\ UNCHANGED <<logs, used, saved, toVisit, host, left, part, reached, horizon, lost, late,
                     analyses, faults>>
  BY DEF Gather, tableVars, boundVars
<1>2. PICK e \in rows :
        LET c == logs[e].client
        IN /\ \A f \in rows : ~ Earlier(f, e)
           /\ rows' = rows \ {e}
           /\ \/ /\ open[c] = NoSession /\ closed' = closed
                 /\ open' = [open EXCEPT ![c] = CreateSession(e)]
              \/ /\ open[c] # NoSession /\ IsInThisSameSession(open[c], e) /\ closed' = closed
                 /\ open' = [open EXCEPT ![c] = Extend(open[c], e)]
              \/ /\ open[c] # NoSession /\ ~ IsInThisSameSession(open[c], e)
                 /\ closed' = closed \cup {open[c]}
                 /\ open' = [open EXCEPT ![c] = CreateSession(e)]
  BY DEF Gather
<1> DEFINE c == logs[e].client
<1>3. /\ e \in part /\ e \in DOMAIN logs /\ e \notin used /\ logs[e].host = host /\ c \in Clients
      /\ TypeOK /\ DOMAIN open = Clients /\ at # "idle" /\ analyses # 0
  BY <1>1, LogFields DEF DInv, IInv, TypeOK, AtStep, UnusedLogs
<1>4. e \notin MembersOf(Sessions) /\ MembersOf(InMemory) \subseteq MembersOf(Sessions)
  BY <1>2, <1>3 DEF DInv, IInv, EachEntryInOneSession, MembersOf, Sessions
<1>5. \A s \in InMemory : s \in SessionType /\ OfOneClient(s) /\ s.members \subseteq MembersOf(InMemory)
  BY <1>3, SessionsAreTyped DEF DInv, IInv, SessionsAreOfOneClient, OfOneClient, Sessions, MembersOf
<1>6. open[c] # NoSession =>
        open[c] \in InMemory /\ open[c].client = c /\ open[c].host = host /\ e \notin open[c].members
  BY <1>3, <1>4, <1>5 DEF DInv, IInv, Memory, InMemory
<1>7. /\ CreateSession(e) \in SessionType /\ CreateSession(e) # NoSession
      /\ CreateSession(e).client = c /\ CreateSession(e).host = host /\ CreateSession(e).members = {e}
      /\ CreateSession(e).analysis = analyses /\ Shaped(CreateSession(e))
  BY <1>3, NewSession, FirstOfASession
<1>8. ASSUME open[c] # NoSession, IsInThisSameSession(open[c], e)
      PROVE  /\ Extend(open[c], e) # NoSession
             /\ Extend(open[c], e).client = c /\ Extend(open[c], e).host = host
             /\ Extend(open[c], e).members = open[c].members \cup {e}
             /\ Extend(open[c], e).analysis = open[c].analysis
             /\ Extend(open[c], e).day = open[c].day /\ Extend(open[c], e).start = open[c].start
  <2>1. open[c] \in SessionType /\ OfOneClient(open[c])
    BY <1>5, <1>6, <1>8
  <2>2. /\ Extend(open[c], e) # NoSession /\ Extend(open[c], e).members = open[c].members \cup {e}
        /\ Extend(open[c], e).client = open[c].client /\ Extend(open[c], e).host = open[c].host
    BY <1>3, <1>6, <1>8, <2>1, LongerSession
  <2>3. /\ Extend(open[c], e).analysis = open[c].analysis
        /\ Extend(open[c], e).day = open[c].day /\ Extend(open[c], e).start = open[c].start
    BY <2>1, SessionFields DEF Extend
  <2> QED BY <1>6, <1>8, <2>2, <2>3
\* n is the session e is in now.
<1>9. PICK n :
        /\ n # NoSession /\ open' = [open EXCEPT ![c] = n]
        /\ n.client = c /\ n.host = host /\ n.analysis = analyses
        /\ \/ /\ open[c] = NoSession /\ closed' = closed /\ n = CreateSession(e)
              /\ InMemory' = InMemory \cup {n}
           \/ /\ open[c] # NoSession /\ IsInThisSameSession(open[c], e) /\ closed' = closed
              /\ n = Extend(open[c], e) /\ InMemory' = (InMemory \ {open[c]}) \cup {n}
           \/ /\ open[c] # NoSession /\ ~ IsInThisSameSession(open[c], e)
              /\ closed' = closed \cup {open[c]} /\ n = CreateSession(e)
              /\ InMemory' = InMemory \cup {n}
  <2>1. CASE open[c] = NoSession /\ closed' = closed /\ open' = [open EXCEPT ![c] = CreateSession(e)]
    <3>1. InMemory' = InMemory \cup {CreateSession(e)}
      BY <1>3, <1>7, <2>1, MemoryAfterGather DEF DInv, IInv
    <3> QED BY <1>7, <2>1, <3>1
  <2>2. CASE /\ open[c] # NoSession /\ IsInThisSameSession(open[c], e) /\ closed' = closed
             /\ open' = [open EXCEPT ![c] = Extend(open[c], e)]
    <3>1. InMemory' = (InMemory \ {open[c]}) \cup {Extend(open[c], e)}
      BY <1>3, <1>8, <2>2, MemoryAfterGather DEF DInv, IInv
    <3>2. open[c].analysis = analyses
      BY <1>6, <2>2 DEF DInv, OncePerAnalysis
    <3> QED BY <1>8, <2>2, <3>1, <3>2
  <2>3. CASE /\ open[c] # NoSession /\ ~ IsInThisSameSession(open[c], e)
             /\ closed' = closed \cup {open[c]} /\ open' = [open EXCEPT ![c] = CreateSession(e)]
    <3>1. InMemory' = InMemory \cup {CreateSession(e)}
      BY <1>3, <1>7, <2>3, MemoryAfterGather DEF DInv, IInv
    <3> QED BY <1>7, <2>3, <3>1
  <2> QED BY <1>2, <2>1, <2>2, <2>3
<1>10. MembersOf(InMemory') = MembersOf(InMemory) \cup {e}
  <2>1. CASE n = CreateSession(e) /\ InMemory' = InMemory \cup {n}
    BY <1>7, <2>1 DEF MembersOf
  <2>2. CASE /\ open[c] # NoSession /\ IsInThisSameSession(open[c], e)
             /\ n = Extend(open[c], e) /\ InMemory' = (InMemory \ {open[c]}) \cup {n}
    <3>1. n.members = open[c].members \cup {e} /\ open[c] \in InMemory
      BY <1>6, <1>8, <2>2
    <3>2. e \notin MembersOf(InMemory)
      BY <1>4
    <3>3. \A s, t \in InMemory : s # t => s.members \cap t.members = {}
      BY DEF DInv, IInv, EachEntryInOneSession, Sessions
    <3> QED BY <2>2, <3>1, <3>2, <3>3, SessionGrows
  <2> QED BY <1>9, <2>1, <2>2
<1>11. ReadInOrder'
  <2>1. /\ \A x, f : Earlier(x, f)' <=> Earlier(x, f)
        /\ \A f : Earlier(reached, f)' <=> Earlier(reached, f)
        /\ \A f : Earlier(f, reached)' <=> Earlier(f, reached)
    BY <1>1 DEF Earlier
  <2>2. UnusedLogs(host)' = UnusedLogs(host) /\ MembersOf(InMemory)' = MembersOf(InMemory) \cup {e}
    BY <1>1, <1>10 DEF UnusedLogs, MembersOf
  <2>3. /\ reached # 0
        /\ \A f \in MembersOf(InMemory) \cup part : ~ Earlier(reached, f)
        /\ \A f \in UnusedLogs(host) \ part : f <= horizon => ~ Earlier(f, reached)
        /\ \A x \in rows \ late, f \in MembersOf(InMemory) : ~ Earlier(x, f)
    BY <1>3 DEF DInv, ReadInOrder
  <2>4. \A x \in (rows \ late)', f \in MembersOf(InMemory) \cup {e} : ~ Earlier(x, f)
    BY <1>1, <1>2, <2>3
  <2>5. \A x \in (rows \ late)', f \in MembersOf(InMemory)' : ~ Earlier(x, f)'
    BY <2>1, <2>2, <2>4
  <2>6. \A f \in (MembersOf(InMemory) \cup part)' : ~ Earlier(reached, f)'
    BY <1>1, <1>3, <2>1, <2>2, <2>3
  <2>7. \A f \in (UnusedLogs(host) \ part)' : f <= horizon' => ~ Earlier(f, reached)'
    BY <1>1, <2>1, <2>2, <2>3
  <2> QED BY <1>1, <2>3, <2>5, <2>6, <2>7 DEF ReadInOrder
<1>12. OncePerAnalysis'
  <2>1. InMemory' \subseteq InMemory \cup {n}
    BY <1>9
  <2> QED BY <1>1, <1>9, <2>1 DEF DInv, OncePerAnalysis

<1>13. InOrder'
  <2> SUFFICES ASSUME NEW d \in Clients, Clean(d)'
               PROVE  /\ \A s \in InMemory' : s.client = d => Shaped(s)
                      /\ \A s, t \in closed' :
                            s # t /\ s.client = d /\ t.client = d /\ s.day = t.day => Apart(s, t)
                      /\ \A s \in closed' : s.client = d => open'[d] # NoSession /\ Follows(s, open'[d])
    <3>1. \A s : Shaped(s)' <=> Shaped(s)
      BY <1>1 DEF Shaped
    <3> QED BY <3>1 DEF InOrder, Apart, Follows
  <2>1. Clean(d) /\ \A x \in late \cap {e} : logs[x].client # d
    <3>1. \A x \in late' \cap MembersOf(InMemory') : logs'[x].client # d
      BY DEF Clean, MembersOf
    <3> QED BY <1>1, <1>10, <3>1 DEF Clean
  <2>2. /\ \A s \in InMemory : s.client = d => Shaped(s)
        /\ \A s, t \in closed :
              s # t /\ s.client = d /\ t.client = d /\ s.day = t.day => Apart(s, t)
        /\ \A s \in closed : s.client = d => open[d] # NoSession /\ Follows(s, open[d])
    BY <2>1 DEF DInv, InOrder
  <2>3. CASE d # c
    <3>1. open'[d] = open[d]
      BY <1>3, <1>9, <2>3
    <3>2. \A s \in InMemory' : s.client = d => s \in InMemory
      BY <1>9, <2>3
    <3>3. \A s \in closed' : s.client = d => s \in closed
      BY <1>6, <1>9, <2>3
    <3> QED BY <2>2, <3>1, <3>2, <3>3
  <2>4. CASE d = c
    <3>1. open'[d] = n /\ n # NoSession /\ closed \subseteq InMemory
      BY <1>3, <1>9, <2>4 DEF InMemory
    <3>2. \A f \in MembersOf(InMemory) : ~ Earlier(e, f)
      BY <1>2, <2>1, <2>4 DEF DInv, ReadInOrder
    <3>3. \A s \in InMemory : \A x \in s.members : ~ Earlier(e, x)
      BY <1>5, <3>2
    <3>4. CASE open[c] = NoSession /\ closed' = closed /\ n = CreateSession(e) /\ InMemory' = InMemory \cup {n}
      BY <1>7, <2>2, <2>4, <3>4
    <3>5. CASE /\ open[c] # NoSession /\ IsInThisSameSession(open[c], e) /\ closed' = closed
               /\ n = Extend(open[c], e) /\ InMemory' = (InMemory \ {open[c]}) \cup {n}
      <4>1. /\ open[c] \in SessionType /\ OfOneClient(open[c]) /\ Shaped(open[c])
            /\ \A x \in open[c].members : ~ Earlier(e, x)
        BY <1>5, <1>6, <2>2, <2>4, <3>3, <3>5
      <4>2. Shaped(n)
        BY <1>3, <3>5, <4>1, NextOfASession
      <4>3. n.day = open[c].day /\ n.start = open[c].start
        BY <1>8, <3>5
      <4>4. \A s \in closed : s.client = d => Follows(s, n)
        BY <2>2, <2>4, <4>3 DEF Follows
      <4> QED BY <2>2, <3>1, <3>5, <4>2, <4>4
    <3>6. CASE /\ open[c] # NoSession /\ ~ IsInThisSameSession(open[c], e)
               /\ closed' = closed \cup {open[c]} /\ n = CreateSession(e)
               /\ InMemory' = InMemory \cup {n}
      <4>1. /\ open[c] \in SessionType /\ OfOneClient(open[c]) /\ Shaped(open[c])
            /\ \A x \in open[c].members : ~ Earlier(e, x)
        BY <1>5, <1>6, <2>2, <2>4, <3>3, <3>6
      <4>2. Follows(open[c], n)
        BY <1>3, <3>6, <4>1, AfterASession
      <4>3. ASSUME NEW s \in closed, s.client = d
            PROVE  /\ Follows(s, n)
                   /\ s.day = open[c].day => Apart(s, open[c]) /\ Apart(open[c], s)
        <5>1. Follows(s, open[c]) /\ s \in SessionType /\ n \in SessionType
          BY <1>5, <1>7, <2>2, <2>4, <3>1, <3>6, <4>3
        <5> QED BY <4>1, <4>2, <5>1, FollowsIsAnOrder
      <4>4. \A s \in closed' : s.client = d => Follows(s, open'[d])
        BY <3>1, <3>6, <4>2, <4>3
      <4>5. \A s, t \in closed' :
               s # t /\ s.client = d /\ t.client = d /\ s.day = t.day => Apart(s, t)
        BY <2>2, <3>6, <4>3
      <4>6. \A s \in InMemory' : s.client = d => Shaped(s)
        BY <1>7, <2>2, <3>6
      <4> QED BY <3>1, <4>4, <4>5, <4>6
    <3> QED BY <1>9, <3>4, <3>5, <3>6
  <2> QED BY <2>3, <2>4
<1>14. DefinedIn(saved)'
  BY <1>1, <1>3, DefinedStays DEF DInv
<1> QED BY <1>11, <1>12, <1>13, <1>14, InvGather DEF DInv

-----------------------------------------------------------------------------
\* With the sessions in memory in order, those of the table and of the memory together are
\* as they are defined.
LEMMA DefinedTogether == DInv => DefinedIn(Sessions)
<1> SUFFICES ASSUME DInv, NEW s \in Sessions, ~ Touched(Sessions, s)
             PROVE  Shaped(s) /\ \A t \in Sessions \ {s} : Alike(s, t) => Apart(s, t)
  BY DEF DefinedIn
<1>1. /\ IInv /\ OncePerAnalysis /\ InOrder /\ DefinedIn(saved) /\ InMemory \subseteq Sessions
      /\ saved \subseteq Sessions
  BY DEF DInv, Sessions
<1>2. \A u \in saved, t \in InMemory : ~ Alike(u, t) /\ ~ Alike(t, u)
  <2> SUFFICES ASSUME NEW u \in saved, NEW t \in InMemory PROVE ~ Alike(u, t) /\ ~ Alike(t, u)
    OBVIOUS
  <2>1. at # "idle"
    BY <1>1 DEF IInv, AtStep, InMemory
  <2>2. t.host = host /\ t.analysis = analyses
    BY <1>1 DEF OncePerAnalysis
  <2>3. u.analysis = analyses => u.host # host
    BY <1>1, <2>1 DEF OncePerAnalysis
  <2> QED BY <2>2, <2>3 DEF Alike
<1>3. CASE s \in saved
  <2>1. ~ Touched(saved, s)
    BY <1>1 DEF Touched, MembersOf
  <2> QED BY <1>1, <1>2, <1>3, <2>1 DEF DefinedIn, Sessions
<1>4. CASE s \in InMemory
  <2>1. \A t \in InMemory : t \in SessionType /\ OfOneClient(t) /\ t.host = host /\ t.analysis = analyses
    BY <1>1, SessionsAreTyped DEF IInv, SessionsAreOfOneClient, OfOneClient, OncePerAnalysis
  <2>2. s.client \in Clients
    BY <1>4, <2>1, SessionFields
  <2>3. Clean(s.client)
    <3> SUFFICES ASSUME NEW e \in late, e \in MembersOf(InMemory), logs[e].client = s.client PROVE FALSE
      BY DEF Clean
    <3>1. PICK t \in InMemory : e \in t.members
      BY DEF MembersOf
    <3>2. logs[e].host = s.host /\ t.analysis = s.analysis
      BY <1>4, <2>1, <3>1 DEF OfOneClient
    <3>3. e \in MembersOf({u \in Sessions : u.analysis = s.analysis})
      BY <1>1, <3>1, <3>2 DEF MembersOf
    <3> QED BY <3>2, <3>3 DEF Touched
  <2>4. /\ Shaped(s)
        /\ \A t, u \in closed :
              t # u /\ t.client = s.client /\ u.client = s.client /\ t.day = u.day => Apart(t, u)
        /\ \A t \in closed : t.client = s.client => Follows(t, open[s.client])
    BY <1>1, <1>4, <2>2, <2>3 DEF InOrder
  <2>5. ASSUME NEW t \in InMemory \ {s}, Alike(s, t) PROVE Apart(s, t)
    <3>1. t.client = s.client /\ t.day = s.day
      BY <2>5 DEF Alike
    <3>2. \A u \in InMemory \ closed : u.client = s.client => u = open[s.client]
      BY <1>1 DEF IInv, Memory, InMemory
    <3>3. CASE s \in closed /\ t \in closed
      BY <2>4, <2>5, <3>1, <3>3
    <3>4. CASE s \in closed /\ t \notin closed
      <4>1. Follows(s, t)
        BY <2>4, <3>1, <3>2, <3>4
      <4> QED BY <1>4, <2>1, <3>1, <4>1, FollowsIsAnOrder
    <3>5. CASE s \notin closed /\ t \in closed
      <4>1. Follows(t, s)
        BY <1>4, <2>4, <3>1, <3>2, <3>5
      <4> QED BY <1>4, <2>1, <3>1, <4>1, FollowsIsAnOrder
    <3>6. CASE s \notin closed /\ t \notin closed
      BY <1>4, <2>5, <3>1, <3>2, <3>6
    <3> QED BY <3>3, <3>4, <3>5, <3>6
  <2> QED BY <1>2, <1>4, <2>4, <2>5 DEF Sessions
<1> QED BY <1>3, <1>4 DEF Sessions

\* The host is done: its sessions are saved.
LEMMA DefinedSaveAllSessions == DInv /\ SaveAllSessions => DInv'
<1> SUFFICES ASSUME DInv, SaveAllSessions PROVE DInv'
  OBVIOUS
<1>1. /\ at = "part" /\ at' = "host" /\ saved' = Sessions /\ Cleared
      /\ UNCHANGED <<logs, used, toVisit, left, lost, late, analyses, faults>>
  BY DEF SaveAllSessions, boundVars, Sessions
<1>2. toVisit \subseteq Hosts /\ NoHost \notin Hosts
  BY SessionsAssumption DEF DInv, IInv, TypeOK
<1>3. InOrder' /\ ReadInOrder' /\ InMemory' = {} /\ host' = NoHost
  BY <1>1, <1>2, ClearedIsInOrder
<1>4. OncePerAnalysis'
  <2>1. analyses \in Int
    BY SessionsAssumption DEF DInv, IInv, TypeOK
  <2>2. \A s \in Sessions : s.host \in Hosts
    BY SessionsAreTyped, SessionFields DEF DInv, IInv
  <2>3. \A s \in saved : s.analysis <= analyses /\ (s.analysis = analyses => s.host \notin toVisit)
    BY <1>1 DEF DInv, OncePerAnalysis
  <2>4. \A s \in InMemory : s.analysis = analyses /\ s.host \notin toVisit
    BY DEF DInv, OncePerAnalysis
  <2>5. \A s \in Sessions : s.analysis <= analyses /\ (s.analysis = analyses => s.host \notin toVisit)
    BY <2>1, <2>3, <2>4 DEF Sessions
  <2> QED BY <1>1, <1>2, <1>3, <2>2, <2>5 DEF OncePerAnalysis
<1>5. DefinedIn(saved)'
  <2>1. \A s : Touched(saved, s)' <=> Touched(Sessions, s)
    BY <1>1 DEF Touched, MembersOf
  <2>2. \A s : Shaped(s)' <=> Shaped(s)
    BY <1>1 DEF Shaped
  <2>3. DefinedIn(saved)' <=>
          \A s \in saved' : ~ Touched(saved, s)' =>
             Shaped(s)' /\ \A t \in saved' \ {s} : Alike(s, t) => Apart(s, t)
    BY DEF DefinedIn, Alike, Apart
  <2> QED BY <1>1, <2>1, <2>2, <2>3, DefinedTogether DEF DefinedIn
<1> QED BY <1>3, <1>4, <1>5, InvSaveAllSessions DEF DInv

\* The host or the analysis is given up; what is late of what was saved is still known.
LEMMA DefinedGivenUp == DInv /\ (SaveFails \/ Crash) => DInv'
<1> SUFFICES ASSUME DInv, SaveFails \/ Crash PROVE DInv'
  OBVIOUS
<1>1. /\ at' \in {"idle", "host"} /\ (at' = "host" => at = "part" /\ toVisit' = toVisit)
      /\ toVisit' \subseteq toVisit /\ late \cap used \subseteq late' /\ Cleared
      /\ UNCHANGED <<logs, used, saved, analyses>>
  BY DEF SaveFails, Crash, tableVars
<1>2. toVisit \subseteq Hosts /\ NoHost \notin Hosts
  BY SessionsAssumption DEF DInv, IInv, TypeOK
<1>3. InOrder' /\ ReadInOrder' /\ InMemory' = {} /\ host' = NoHost
  BY <1>1, <1>2, ClearedIsInOrder
<1>4. OncePerAnalysis'
  <2>1. \A s \in saved : s.analysis <= analyses
    BY DEF DInv, OncePerAnalysis
  <2>2. ASSUME at' = "host", NEW s \in saved, s.analysis = analyses PROVE s.host \notin toVisit \cup {NoHost}
    <3>1. s.host \notin toVisit
      BY <1>1, <2>2 DEF DInv, OncePerAnalysis
    <3>2. s.host \in Hosts
      BY SessionsAreTyped, SessionFields DEF DInv, IInv, Sessions
    <3> QED BY <1>2, <3>1, <3>2
  <2> QED BY <1>1, <1>2, <1>3, <2>1, <2>2 DEF OncePerAnalysis
<1>5. DefinedIn(saved)'
  <2>1. late \cap MembersOf(saved) \subseteq late'
    BY <1>1 DEF DInv, IInv, Memory
  <2> QED BY <1>1, <2>1, DefinedStays DEF DInv, IInv
<1> QED BY <1>3, <1>4, <1>5, InvSaveFails, InvCrash DEF DInv

LEMMA DefinedNext == DInv /\ [Next]_vars => DInv'
<1> SUFFICES ASSUME DInv, [Next]_vars PROVE DInv'
  OBVIOUS
<1>1. CASE AddLog
  BY <1>1, DefinedAddLog
<1>2. CASE Prepare \/ PrepareEnds \/ \E h \in Hosts : CreateStatistics(h)
  BY <1>2, DefinedChoose
<1>3. CASE GetUnusedLogs
  BY <1>3, DefinedGetUnusedLogs
<1>4. CASE Gather
  BY <1>4, DefinedGather
<1>5. CASE MarkLogsAsUsed
  BY <1>5, DefinedMarkLogsAsUsed
<1>6. CASE SaveAllSessions
  BY <1>6, DefinedSaveAllSessions
<1>7. CASE SaveFails \/ Crash
  BY <1>7, DefinedGivenUp
<1>8. CASE UNCHANGED vars
  <2>1. UNCHANGED <<logs, used, saved, at, toVisit, host, left, part, rows, open, closed, reached,
                    horizon, lost, late, analyses, faults>>
    BY <1>8 DEF vars, tableVars, partVars, memory, boundVars
  <2>2. InMemory' = InMemory /\ MembersOf(InMemory)' = MembersOf(InMemory) /\ UnusedLogs(host)' = UnusedLogs(host)
    BY <2>1 DEF InMemory, MembersOf, UnusedLogs
  <2>3. ReadInOrder'
    <3>1. /\ \A x, f : Earlier(x, f)' <=> Earlier(x, f)
          /\ \A f : Earlier(reached, f)' <=> Earlier(reached, f)
          /\ \A f : Earlier(f, reached)' <=> Earlier(f, reached)
      BY <2>1 DEF Earlier
    <3> QED BY <2>1, <2>2, <3>1 DEF DInv, ReadInOrder
  <2>4. OncePerAnalysis'
    BY <2>1, <2>2 DEF DInv, OncePerAnalysis
  <2>5. InOrder' /\ DefinedIn(saved)'
    BY <2>1, InOrderStays, DefinedStays DEF DInv, IInv
  <2>6. IInv'
    BY Inductive DEF DInv
  <2> QED BY <2>3, <2>4, <2>5, <2>6 DEF DInv
<1> QED BY <1>1, <1>2, <1>3, <1>4, <1>5, <1>6, <1>7, <1>8 DEF Next

\* The parts of a host are read in the order of time but for the late entries, an analysis
\* comes to a host once, and the sessions of a client without a late entry are in order.
THEOREM DefinedInvariance == Spec => []DInv
BY DefinedInit, DefinedNext, PTL DEF Spec

\* Every session, saved or in memory, starts with its first request and ends with its last,
\* and the sessions one analysis finds of a client on a day are SessionLength apart, so
\* the parts do not show in them, but for the clients with a late entry.
THEOREM SessionsStartAndEndRight == Spec => []SessionsAsDefined
<1>1. DInv => SessionsAsDefined
  <2>1. DefinedIn(Sessions) => SessionsAsDefined
    BY DEF DefinedIn, SessionsAsDefined, Touched, Muddled, Shaped, Alike, Apart
  <2> QED BY <2>1, DefinedTogether
<1> QED BY <1>1, DefinedInvariance, PTL
=============================================================================
