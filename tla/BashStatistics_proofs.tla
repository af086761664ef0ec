------------------------ MODULE BashStatistics_proofs ------------------------
(***************************************************************************)
(* Proofs about BashStatistics for any agents, users, commands and         *)
(* entries, any size of the buffer, any offsets of the local date, and any *)
(* number of days, analyses and crashes.                                   *)
(***************************************************************************)
EXTENDS BashStatistics, FiniteSetTheorems, SequenceTheorems, TLAPS

SystemRow == [agent : Agents, date : Nat, command : Commands, summary : Nat]
DailyRow == [agent : Agents, user : Users, date : Nat]
CountedRow == [statistic : Nat, command : Commands \cup {NoCommand}, summary : Nat]

InSystem == {"agent", "count", "full"}
InUsers == {"users", "dates", "commands of user", "statistic"}
OnDay == InUsers \ {"users"}
Counting == {"commands of user", "statistic"}

CallOK ==
    /\ call.at \in {"none", "date", "agent", "command", "log"}
    /\ call.at # "none" =>
         /\ call = [at |-> call.at, entry |-> call.entry, date |-> call.date]
         /\ call.entry \in Entries /\ call.date \in 1..MaxDay
    /\ call.at \in {"agent", "command", "log"} => call.date \in dates
    /\ call.at \in {"command", "log"} => call.entry.agent \in agents

\* A row of the system statistics counts no entries that are not there.
Truthful(r) == r.summary <= Cardinality(WithCommand(Of(r.agent, r.date), r.command))
SameKey(r, q) == r.agent = q.agent /\ r.date = q.date /\ r.command = q.command

RowsOnce(Q) == \A i \in 1..Len(Q), j \in 1..Len(Q) : SameKey(Q[i], Q[j]) => i = j

SystemTable ==
    /\ system \in Seq(SystemRow)
    /\ RowsOnce(system)
    /\ \A i \in 1..Len(system) : Truthful(system[i])

\* No row of the agent at hand has the day and the command.
NoRowYet(Q, p) ==
    \A i \in 1..Len(Q) : ~ (Q[i].agent = work.agent /\ Q[i].date = p[1] /\ Q[i].command = p[2])

\* The rows to be written are not in the table, and those to be counted are in neither.
SystemWork ==
    /\ work.at = "commands" =>
         work = [at |-> work.at, today |-> work.today, toVisit |-> work.toVisit] /\ work.toVisit \subseteq agents
    /\ work.at \in InSystem =>
         /\ work = [at |-> work.at, today |-> work.today, toVisit |-> work.toVisit, commands |-> work.commands,
                    buffer |-> work.buffer, agent |-> work.agent, pairs |-> work.pairs]
         /\ work.toVisit \subseteq agents /\ work.commands \subseteq names
         /\ work.buffer \in Seq(SystemRow) /\ Len(work.buffer) <= BufferSize
         /\ RowsOnce(work.buffer)
         /\ \A i \in 1..Len(work.buffer) :
              /\ work.buffer[i].agent \in agents \ work.toVisit
              /\ work.buffer[i].date \in dates /\ work.buffer[i].command \in names
              /\ Truthful(work.buffer[i])
              /\ \A j \in 1..Len(system) : ~ SameKey(work.buffer[i], system[j])
    /\ work.at \in {"agent", "count"} => Len(work.buffer) < BufferSize
    /\ work.at \in {"count", "full"} =>
         /\ work.agent \in agents \ work.toVisit
         /\ work.pairs \subseteq dates \X names
         /\ \A p \in work.pairs : NoRowYet(system, p) /\ NoRowYet(work.buffer, p)

-----------------------------------------------------------------------------
(* The statistics of the users.                                            *)

OfDay(s, c) == WithCommand(OfUser(daily[s].agent, daily[s].user, daily[s].date), c)
RowsOf(s, c) == {i \in 1..Len(counted) : counted[i].statistic = s /\ counted[i].command = c}

RowOnce(s, c) == \A i, j \in RowsOf(s, c) : i = j
RowTrue(s, c) == \A i \in RowsOf(s, c) : /\ counted[i].summary >= Cardinality(OfDay(s, c) \ late)
                                         /\ counted[i].summary <= Cardinality(OfDay(s, c))
RowMade(s, c) == OfDay(s, c) \ late # {} => RowsOf(s, c) # {}

\* The statistic whose rows are being written is the last one.
Current == IF work.at \in Counting THEN {Len(daily)} ELSE {}

UserTable ==
    /\ daily \in Seq(DailyRow) /\ counted \in Seq(CountedRow)
    /\ \A s, r \in 1..Len(daily) : daily[s] = daily[r] => s = r
    /\ \A s \in (1..Len(daily)) \ (interrupted \cup Current), c \in Commands \cup {NoCommand} :
         RowOnce(s, c) /\ RowTrue(s, c) /\ RowMade(s, c)

UserWork ==
    /\ work.at \in {"today", "agents"} => work = [at |-> work.at, today |-> work.today]
    /\ work.at \in InUsers =>
         /\ work = [at |-> work.at, today |-> work.today, toVisit |-> work.toVisit, users |-> work.users,
                    dates |-> work.dates, agent |-> work.agent, user |-> work.user,
                    statistic |-> work.statistic, commands |-> work.commands]
         /\ work.toVisit \subseteq agents /\ work.users \subseteq Users
         /\ work.users # {} => work.agent \in agents
    /\ work.at \in OnDay =>
         /\ work.agent \in agents /\ work.user \in Users /\ work.dates \subseteq dates
         /\ \A d \in work.dates, s \in 1..Len(daily) :
              daily[s] # [agent |-> work.agent, user |-> work.user, date |-> d]
    /\ work.at \in Counting =>
         /\ Len(daily) # 0
         /\ daily[Len(daily)] = [agent |-> work.agent, user |-> work.user, date |-> work.statistic]
    /\ work.at = "commands of user" => \A i \in 1..Len(counted) : counted[i].statistic # Len(daily)
    /\ work.at = "statistic" =>
         /\ work.commands \subseteq names \cup {NoCommand}
         /\ \A s \in Current, c \in work.commands : RowsOf(s, c) = {} /\ OfDay(s, c) # {}
         /\ \A s \in Current, c \in Commands \cup {NoCommand} :
              /\ RowOnce(s, c) /\ RowTrue(s, c)
              /\ c \notin work.commands => RowMade(s, c)

WorkAt == work.at \in {"idle", "commands", "today", "agents"} \cup InSystem \cup InUsers

IInv ==
    /\ TypeOK /\ IsFiniteSet(logs) /\ CallOK /\ WorkAt
    /\ SystemTable /\ SystemWork /\ UserTable /\ UserWork

-----------------------------------------------------------------------------
\* Any set of rows of logs is finite, and has no more rows than a larger one.
LEMMA SomeLogs ==
    ASSUME IsFiniteSet(logs), NEW S, S \subseteq logs
    PROVE  IsFiniteSet(S) /\ Cardinality(S) \in Nat /\ Cardinality(S) <= Cardinality(logs)
<1>1. S \in SUBSET logs
  OBVIOUS
<1>2. IsFiniteSet(S) /\ Cardinality(S) <= Cardinality(logs)
  BY <1>1, FS_Subset
<1> QED BY <1>2, FS_CardinalityType

LEMMA SmallerSet ==
    ASSUME NEW T, IsFiniteSet(T), NEW S, S \subseteq T
    PROVE  /\ Cardinality(S) \in Nat /\ Cardinality(T) \in Nat
           /\ Cardinality(S) <= Cardinality(T)
<1>1. IsFiniteSet(S) /\ Cardinality(S) <= Cardinality(T)
  BY FS_Subset
<1> QED BY <1>1, FS_CardinalityType

\* The rows of the tables and of the buffer.
LEMMA RowTypes ==
    ASSUME IInv
    PROVE  /\ Len(system) \in Nat /\ \A i \in 1..Len(system) : system[i] \in SystemRow
           /\ Len(daily) \in Nat /\ \A s \in 1..Len(daily) : daily[s] \in DailyRow
           /\ Len(counted) \in Nat /\ \A i \in 1..Len(counted) : counted[i] \in CountedRow
           /\ work.at \in InSystem =>
                Len(work.buffer) \in Nat /\ \A i \in 1..Len(work.buffer) : work.buffer[i] \in SystemRow
<1>1. ASSUME NEW S, NEW q \in Seq(S) PROVE Len(q) \in Nat /\ \A i \in 1..Len(q) : q[i] \in S
  BY ElementOfSeq, LenProperties
<1>2. /\ system \in Seq(SystemRow) /\ daily \in Seq(DailyRow) /\ counted \in Seq(CountedRow)
      /\ work.at \in InSystem => work.buffer \in Seq(SystemRow)
  BY DEF IInv, SystemTable, SystemWork, UserTable
<1> QED BY <1>1, <1>2

\* What is said of the rows of a statistic depends on four of the tables.
LEMMA CountsStay ==
    ASSUME UNCHANGED <<logs, daily, counted, late>>, NEW s, NEW c
    PROVE  /\ RowsOf(s, c)' = RowsOf(s, c) /\ OfDay(s, c)' = OfDay(s, c)
           /\ RowOnce(s, c) => RowOnce(s, c)'
           /\ RowTrue(s, c) => RowTrue(s, c)'
           /\ RowMade(s, c) => RowMade(s, c)'
<1>1. RowsOf(s, c)' = RowsOf(s, c)
  BY DEF RowsOf
<1>2. OfDay(s, c)' = OfDay(s, c)
  BY DEF OfDay, WithCommand, OfUser, Of
<1> QED BY <1>1, <1>2 DEF RowOnce, RowTrue, RowMade

\* GetDailyUserStatisticId finds the statistic just added.
LEMMA LastStatistic ==
    ASSUME IInv, work.at \in Counting
    PROVE  StatisticId = Len(daily) /\ Len(daily) \in Nat /\ Len(daily) >= 1
<1>1. Len(daily) \in Nat /\ Len(daily) >= 1
  <2>1. Len(daily) \in Nat
    BY LenProperties DEF IInv, UserTable
  <2>2. Len(daily) # 0
    BY DEF IInv, UserWork
  <2> QED BY <2>1, <2>2
<1>2. daily[Len(daily)] = [agent |-> work.agent, user |-> work.user, date |-> work.statistic]
  BY DEF IInv, UserWork
<1>3. \A s \in 1..Len(daily) : daily[s] = daily[Len(daily)] => s = Len(daily)
  BY <1>1 DEF IInv, UserTable
<1>4. Len(daily) \in 1..Len(daily) /\ \A r \in 1..(Len(daily) - 1) : daily[r] # daily[Len(daily)]
  BY <1>1, <1>3
<1> QED BY <1>1, <1>2, <1>3, <1>4 DEF StatisticId

\* What the runs check follows.
LEMMA SystemRowsFollow == IInv => SystemRowsOnce
<1> SUFFICES ASSUME IInv PROVE SystemRowsOnce
  OBVIOUS
<1>1. Len(system) \in Nat
  BY LenProperties DEF IInv, SystemTable
<1>2. ASSUME NEW i \in 1..Len(system), NEW j \in 1..(i - 1)
      PROVE  <<system[i].agent, system[i].date, system[i].command>>
                # <<system[j].agent, system[j].date, system[j].command>>
  BY <1>1, <1>2 DEF IInv, SystemTable, RowsOnce, SameKey
<1> QED BY <1>2 DEF IInv, SystemTable, Truthful, SystemRowsOnce

LEMMA UserRowsFollow == IInv => UserRowsAccount
<1> SUFFICES ASSUME IInv PROVE UserRowsAccount
  OBVIOUS
<1>1. /\ BeingCounted = {} \/ BeingCounted = Current
      /\ Current # {} /\ BeingCounted = {} => work.at = "statistic" /\ work.commands = {}
  <2>1. CASE work.at \in Counting
    <3>1. StatisticId = Len(daily)
      BY <2>1, LastStatistic
    <3>2. Current = {Len(daily)}
      BY <2>1 DEF Current
    <3>3. BeingCounted = IF work.at = "statistic" /\ work.commands = {} THEN {} ELSE {Len(daily)}
      BY <2>1, <3>1 DEF BeingCounted, Counting
    <3> QED BY <3>2, <3>3
  <2>2. CASE work.at \notin Counting
    <3>1. BeingCounted = {} /\ Current = {}
      BY <2>2 DEF BeingCounted, Current, Counting
    <3> QED BY <3>1
  <2> QED BY <2>1, <2>2
<1>2. ASSUME NEW s \in (1..Len(daily)) \ (interrupted \cup BeingCounted), NEW c \in Commands \cup {NoCommand}
      PROVE  RowOnce(s, c) /\ RowTrue(s, c) /\ RowMade(s, c)
  <2>1. CASE s \notin Current
    BY <2>1 DEF IInv, UserTable
  <2>2. CASE s \in Current
    <3>1. work.at = "statistic" /\ work.commands = {}
      BY <1>1, <2>2 DEF Current
    <3> QED BY <2>2, <3>1 DEF IInv, UserWork
  <2> QED BY <2>1, <2>2
<1>3. ASSUME NEW s \in (1..Len(daily)) \ (interrupted \cup BeingCounted), NEW c \in Commands \cup {NoCommand}
      PROVE  Cardinality(RowsOf(s, c)) <= 1
  <2>1. CASE RowsOf(s, c) = {}
    BY <2>1, FS_EmptySet
  <2>2. CASE RowsOf(s, c) # {}
    <3>1. PICK i : RowsOf(s, c) = {i}
      BY <1>2, <2>2 DEF RowOnce
    <3>2. Cardinality({i}) = 1
      BY FS_Singleton
    <3> QED BY <3>1, <3>2
  <2> QED BY <2>1, <2>2
<1> QED BY <1>2, <1>3 DEF UserRowsAccount, RowsOf, RowTrue, RowMade, OfDay, IInv, UserTable

-----------------------------------------------------------------------------
LEMMA InitInv == Init => IInv
<1> SUFFICES ASSUME Init PROVE IInv
  OBVIOUS
<1>1. IsFiniteSet(logs) /\ Cardinality(logs) = 0
  BY FS_EmptySet DEF Init
<1>2. Len(system) = 0 /\ Len(daily) = 0 /\ Len(counted) = 0
  BY DEF Init
<1>3. TypeOK
  BY <1>1, <1>2, StatisticsAssumption DEF Init, TypeOK, NoWork
<1>4. SystemTable /\ SystemWork
  BY <1>2, EmptySeq DEF Init, SystemTable, SystemWork, RowsOnce, NoWork, InSystem
<1>5. UserTable /\ UserWork
  BY <1>2, EmptySeq DEF Init, UserTable, UserWork, NoWork, InUsers, OnDay, Counting, Current
<1> QED BY <1>1, <1>3, <1>4, <1>5 DEF IInv, Init, CallOK, WorkAt, NoCall, NoWork

-----------------------------------------------------------------------------
(* What the main thread may change under the feet of the analyzer.         *)

TablesGrow == dates \subseteq dates' /\ agents \subseteq agents' /\ names \subseteq names'

LEMMA InvNames ==
    IInv /\ (NextDay \/ Receive \/ AddDate \/ AddAgentName \/ AddCommand) => IInv'
<1> SUFFICES ASSUME IInv, NextDay \/ Receive \/ AddDate \/ AddAgentName \/ AddCommand PROVE IInv'
  OBVIOUS
<1>1. /\ UNCHANGED <<logs, system, daily, counted, late, interrupted, work>> /\ TablesGrow
      /\ dates' \subseteq 1..MaxDay /\ agents' \subseteq Agents /\ names' \subseteq Commands
      /\ day' \in 1..MaxDay /\ sent' \subseteq Entries
  <2>1. CASE NextDay
    BY <2>1, StatisticsAssumption DEF NextDay, tables, names3, hist, TablesGrow, IInv, TypeOK
  <2>2. CASE Receive
    BY <2>2 DEF Receive, tables, names3, hist, TablesGrow, IInv, TypeOK
  <2>3. CASE AddDate
    BY <2>3 DEF AddDate, bounds, hist, TablesGrow, IInv, TypeOK, CallOK
  <2>4. CASE AddAgentName
    BY <2>4, StatisticsAssumption DEF AddAgentName, bounds, hist, TablesGrow, IInv, TypeOK, CallOK
  <2>5. CASE AddCommand
    BY <2>5, StatisticsAssumption DEF AddCommand, bounds, hist, TablesGrow, IInv, TypeOK, CallOK
  <2> QED BY <2>1, <2>2, <2>3, <2>4, <2>5
<1>2. CallOK'
  <2>1. CASE NextDay
    BY <2>1 DEF NextDay, tables, names3, IInv, CallOK
  <2>2. CASE Receive
    BY <2>2 DEF Receive, tables, names3, IInv, CallOK
  <2>3. CASE AddDate
    BY <2>3 DEF AddDate, IInv, CallOK
  <2>4. CASE AddAgentName
    BY <2>4 DEF AddAgentName, IInv, CallOK
  <2>5. CASE AddCommand
    BY <2>5 DEF AddCommand, IInv, CallOK
  <2> QED BY <2>1, <2>2, <2>3, <2>4, <2>5
<1>3. TypeOK'
  BY <1>1 DEF IInv, TypeOK, TablesGrow
<1>4. SystemTable' /\ SystemWork'
  BY <1>1 DEF IInv, SystemTable, SystemWork, TablesGrow, NoRowYet, Truthful, Of, WithCommand
<1>5. UserTable'
  <2>1. Current' = Current
    BY <1>1 DEF Current
  <2> QED BY <1>1, <2>1, CountsStay DEF IInv, UserTable
<1>6. UserWork'
  <2>1. Current' = Current
    BY <1>1 DEF Current
  <2>2. work.at = "statistic" =>
          /\ \A s \in Current, c \in work.commands : RowsOf(s, c)' = {} /\ OfDay(s, c)' # {}
          /\ \A s \in Current, c \in Commands \cup {NoCommand} :
               /\ RowOnce(s, c)' /\ RowTrue(s, c)'
               /\ c \notin work.commands => RowMade(s, c)'
    BY <1>1, CountsStay DEF IInv, UserWork
  <2> QED BY <1>1, <2>1, <2>2 DEF IInv, UserWork, TablesGrow
<1> QED BY <1>1, <1>2, <1>3, <1>4, <1>5, <1>6 DEF IInv, WorkAt

\* A row is added to logs: no count of the system statistics gets too large, and the
\* statistics of the users that are there are not concerned, since the row is late for them.
LEMMA InvAddLog == IInv /\ AddLog => IInv'
<1> SUFFICES ASSUME IInv, AddLog PROVE IInv'
  OBVIOUS
<1>1. /\ call.at = "log" /\ call' = NoCall
      /\ UNCHANGED <<dates, agents, names, system, daily, counted, day, sent, analyses, crashes, interrupted, work>>
  BY DEF AddLog, names3, bounds
<1>2. PICK row : /\ row = [agent |-> call.entry.agent, user |-> call.entry.user, date |-> call.date,
                           command |-> CommandId(call.entry), id |-> Cardinality(logs) + 1]
                 /\ logs' = logs \cup {row}
                 /\ late' = IF \E s \in 1..Len(daily) :
                               daily[s] = [agent |-> row.agent, user |-> row.user, date |-> row.date]
                            THEN late \cup {row} ELSE late
  <2>1. PICK row : row = [agent |-> call.entry.agent, user |-> call.entry.user, date |-> call.date,
                          command |-> CommandId(call.entry), id |-> Cardinality(logs) + 1]
    OBVIOUS
  <2>2. logs' = logs \cup {row}
    BY <2>1 DEF AddLog
  <2>3. row.agent = call.entry.agent /\ row.user = call.entry.user /\ row.date = call.date
    BY <2>1
  <2>4. late' = IF \E s \in 1..Len(daily) :
                     daily[s] = [agent |-> row.agent, user |-> row.user, date |-> row.date]
                THEN late \cup {row} ELSE late
    BY <2>1, <2>3 DEF AddLog
  <2> QED BY <2>1, <2>2, <2>4
<1>3. row \notin logs
  BY <1>2, FS_CardinalityType DEF IInv, TypeOK
<1>4. /\ IsFiniteSet(logs') /\ Cardinality(logs) \in Nat /\ Cardinality(logs') = Cardinality(logs) + 1
  BY <1>2, <1>3, FS_AddElement, FS_CardinalityType DEF IInv
<1>5. row \in [agent : agents, user : Users, date : dates, command : names \cup {NoCommand}, id : 1..Cardinality(logs)']
  <2>1. call.entry \in Entries /\ call.date \in dates /\ call.entry.agent \in agents
    BY <1>1 DEF IInv, CallOK
  <2>2. call.entry.user \in Users /\ CommandId(call.entry) \in names \cup {NoCommand}
    BY <2>1, StatisticsAssumption DEF CommandId
  <2>3. Cardinality(logs) + 1 \in 1..Cardinality(logs)'
    BY <1>4
  <2> QED BY <1>2, <2>1, <2>2, <2>3
<1>6. TypeOK'
  <2>1. late' \subseteq logs'
    BY <1>2 DEF IInv, TypeOK
  <2>2. logs' \subseteq [agent : agents', user : Users, date : dates',
                         command : names' \cup {NoCommand}, id : 1..Cardinality(logs)']
    BY <1>1, <1>2, <1>4, <1>5 DEF IInv, TypeOK
  <2> QED BY <1>1, <1>4, <2>1, <2>2 DEF IInv, TypeOK
<1>7. ASSUME NEW S, NEW T, S \subseteq T, T \subseteq logs'
      PROVE  Cardinality(S) \in Nat /\ Cardinality(T) \in Nat /\ Cardinality(S) <= Cardinality(T)
  BY <1>4, <1>7, SmallerSet, FS_Subset
<1>8. ASSUME NEW r, r.summary \in Nat, Truthful(r) PROVE Truthful(r)'
  <2> DEFINE S == WithCommand(Of(r.agent, r.date), r.command)
             T == {l \in logs' : l.agent = r.agent /\ l.date = r.date /\ l.command = r.command}
  <2>1. S \subseteq T /\ T \subseteq logs'
    BY <1>2 DEF WithCommand, Of
  <2>2. Cardinality(S) \in Nat /\ Cardinality(T) \in Nat /\ Cardinality(S) <= Cardinality(T)
    BY <1>7, <2>1
  <2>3. Truthful(r)' = (r.summary <= Cardinality(T))
    <3>1. WithCommand(Of(r.agent, r.date), r.command)' = T
      BY DEF WithCommand, Of
    <3> QED BY <3>1 DEF Truthful
  <2> QED BY <1>8, <2>2, <2>3 DEF Truthful
<1>9. SystemTable'
  <2>1. \A i \in 1..Len(system) : system[i].summary \in Nat
    BY RowTypes DEF SystemRow
  <2> QED BY <1>1, <1>8, <2>1 DEF IInv, SystemTable, RowsOnce, SameKey
<1>10. SystemWork'
  <2>1. CASE work.at \in InSystem
    <3>1. \A i \in 1..Len(work.buffer) : work.buffer[i].summary \in Nat
      BY <2>1, RowTypes DEF SystemRow
    <3> QED BY <1>1, <1>8, <2>1, <3>1 DEF IInv, SystemWork, RowsOnce, SameKey, NoRowYet, InSystem
  <2>2. CASE work.at \notin InSystem
    BY <1>1, <2>2 DEF IInv, SystemWork, InSystem
  <2> QED BY <2>1, <2>2
<1>11. ASSUME NEW s \in 1..Len(daily), NEW c \in Commands \cup {NoCommand}
       PROVE  /\ RowsOf(s, c)' = RowsOf(s, c)
              /\ OfDay(s, c) \subseteq OfDay(s, c)'
              /\ OfDay(s, c)' \ late' = OfDay(s, c) \ late
              /\ RowOnce(s, c) => RowOnce(s, c)'
              /\ RowMade(s, c) => RowMade(s, c)'
  <2>1. RowsOf(s, c)' = RowsOf(s, c)
    BY <1>1 DEF RowsOf
  <2>2. /\ OfDay(s, c) = {l \in logs : l.agent = daily[s].agent /\ l.date = daily[s].date
                                       /\ l.user = daily[s].user /\ l.command = c}
        /\ OfDay(s, c)' = {l \in logs' : l.agent = daily[s].agent /\ l.date = daily[s].date
                                       /\ l.user = daily[s].user /\ l.command = c}
    BY <1>1 DEF OfDay, WithCommand, OfUser, Of
  <2>3. daily[s] = [agent |-> daily[s].agent, user |-> daily[s].user, date |-> daily[s].date]
    BY RowTypes DEF DailyRow
  <2>4. row \in OfDay(s, c)' => row \in late'
    BY <1>2, <2>2, <2>3
  <2>5. OfDay(s, c)' \ late' = OfDay(s, c) \ late
    BY <1>2, <1>3, <2>2, <2>4
  <2> QED BY <1>2, <2>1, <2>2, <2>5 DEF RowOnce, RowMade
<1>12. ASSUME NEW s \in 1..Len(daily), NEW c \in Commands \cup {NoCommand}, RowTrue(s, c)
       PROVE  RowTrue(s, c)'
  <2>1. /\ RowsOf(s, c)' = RowsOf(s, c) /\ OfDay(s, c) \subseteq OfDay(s, c)'
        /\ OfDay(s, c)' \ late' = OfDay(s, c) \ late
    BY <1>11
  <2>2. OfDay(s, c)' \subseteq logs'
    BY DEF OfDay, WithCommand, OfUser, Of
  <2>3. /\ Cardinality(OfDay(s, c)) <= Cardinality(OfDay(s, c)')
        /\ Cardinality(OfDay(s, c)) \in Nat /\ Cardinality(OfDay(s, c)') \in Nat
    BY <1>7, <2>1, <2>2
  <2>4. \A i \in RowsOf(s, c) : /\ counted[i].summary \in Nat
                                /\ counted[i].summary >= Cardinality(OfDay(s, c) \ late)
                                /\ counted[i].summary <= Cardinality(OfDay(s, c))
    BY <1>12, RowTypes DEF RowTrue, RowsOf, CountedRow
  <2>5. \A i \in RowsOf(s, c) : /\ counted[i].summary >= Cardinality(OfDay(s, c) \ late)
                                /\ counted[i].summary <= Cardinality(OfDay(s, c)')
    <3>1. \A x, m, n \in Nat : x <= m /\ m <= n => x <= n
      OBVIOUS
    <3>2. \A i \in RowsOf(s, c) : counted[i].summary <= Cardinality(OfDay(s, c)')
      BY <2>3, <2>4, <3>1, Zenon
    <3> QED BY <2>4, <3>2
  <2>6. counted' = counted /\ Cardinality(OfDay(s, c)' \ late') = Cardinality(OfDay(s, c) \ late)
    BY <1>1, <2>1
  <2>7. \A i \in RowsOf(s, c)' : /\ counted'[i].summary >= Cardinality(OfDay(s, c)' \ late')
                                 /\ counted'[i].summary <= Cardinality(OfDay(s, c)')
    BY <2>1, <2>5, <2>6
  <2> QED BY <2>7 DEF RowTrue
<1>13. UserTable'
  <2>1. Current' = Current /\ daily' = daily /\ counted' = counted /\ interrupted' = interrupted
    BY <1>1 DEF Current
  <2>2. ASSUME NEW s \in (1..Len(daily)) \ (interrupted \cup Current), NEW c \in Commands \cup {NoCommand}
        PROVE  RowOnce(s, c)' /\ RowTrue(s, c)' /\ RowMade(s, c)'
    BY <1>11, <1>12 DEF IInv, UserTable
  <2> QED BY <2>1, <2>2 DEF IInv, UserTable
<1>14. UserWork'
  <2>1. Current' = Current /\ Current \subseteq 1..Len(daily)
    BY <1>1, LastStatistic DEF Current
  <2>2. work.at = "statistic" => work.commands \subseteq Commands \cup {NoCommand}
    BY DEF IInv, UserWork, TypeOK
  <2>3. ASSUME work.at = "statistic", NEW s \in Current
        PROVE  /\ \A c \in work.commands : RowsOf(s, c)' = {} /\ OfDay(s, c)' # {}
               /\ \A c \in Commands \cup {NoCommand} :
                    /\ RowOnce(s, c)' /\ RowTrue(s, c)'
                    /\ c \notin work.commands => RowMade(s, c)'
    <3>1. s \in 1..Len(daily)
      BY <2>1
    <3>2. \A c \in work.commands : RowsOf(s, c)' = {} /\ OfDay(s, c)' # {}
      BY <1>11, <2>2, <2>3, <3>1 DEF IInv, UserWork
    <3>3. \A c \in Commands \cup {NoCommand} :
             /\ RowOnce(s, c)' /\ RowTrue(s, c)'
             /\ c \notin work.commands => RowMade(s, c)'
      BY <1>11, <1>12, <2>3, <3>1 DEF IInv, UserWork
    <3> QED BY <3>2, <3>3
  <2> QED BY <1>1, <2>1, <2>3 DEF IInv, UserWork
<1> QED BY <1>1, <1>4, <1>6, <1>9, <1>10, <1>13, <1>14 DEF IInv, CallOK, NoCall, WorkAt

-----------------------------------------------------------------------------
(* CreateDailySystemStatistics.                                            *)

\* A step of the analyzer thread that only changes what it has in its hands.
LEMMA OnlyWork ==
    ASSUME IInv, UNCHANGED <<tables, bounds, hist, call>>, Current' = Current,
           WorkAt', SystemWork', UserWork'
    PROVE  IInv'
<1>1. UNCHANGED <<dates, agents, names, logs, system, daily, counted, day, sent, late, interrupted, call>>
  BY DEF tables, names3, bounds, hist
<1>2. TypeOK'
  BY <1>1 DEF IInv, TypeOK, SystemWork, InSystem
<1>3. SystemTable'
  BY <1>1 DEF IInv, SystemTable, RowsOnce, Truthful, Of, WithCommand
<1>4. UserTable'
  BY <1>1, CountsStay DEF IInv, UserTable
<1>5. CallOK'
  BY <1>1 DEF IInv, CallOK
<1> QED BY <1>1, <1>2, <1>3, <1>4, <1>5 DEF IInv

\* Analyze counts the analyses, which nothing here depends on.
LEMMA InvAnalyze == IInv /\ Analyze => IInv'
<1> SUFFICES ASSUME IInv, Analyze PROVE IInv'
  OBVIOUS
<1>1. UNCHANGED <<dates, agents, names, logs, system, daily, counted, day, sent, late, interrupted, call>>
  BY DEF Analyze, tables, names3, hist
<1>2. work.at = "idle" /\ \E t : work' = [at |-> "commands", today |-> t, toVisit |-> agents]
  BY DEF Analyze, NoWork
<1>3. TypeOK'
  BY <1>1, <1>2 DEF IInv, TypeOK
<1>4. SystemTable'
  BY <1>1 DEF IInv, SystemTable, RowsOnce, Truthful, Of, WithCommand
<1>5. UserTable'
  <2>1. Current' = Current
    BY <1>2 DEF Current, Counting
  <2> QED BY <1>1, <2>1, CountsStay DEF IInv, UserTable
<1>6. CallOK' /\ WorkAt' /\ SystemWork' /\ UserWork'
  BY <1>1, <1>2 DEF IInv, CallOK, WorkAt, SystemWork, UserWork, InSystem, InUsers, OnDay, Counting
<1> QED BY <1>1, <1>3, <1>4, <1>5, <1>6 DEF IInv

\* What the rows of a buffer need while a row is chosen or the agent changes.
LEMMA BufferStays ==
    ASSUME IInv, work.at \in InSystem, UNCHANGED <<tables>>, work'.buffer = work.buffer,
           work'.toVisit \subseteq work.toVisit
    PROVE  /\ work'.buffer \in Seq(SystemRow) /\ Len(work'.buffer) <= BufferSize
           /\ RowsOnce(work.buffer)'
           /\ \A i \in 1..Len(work'.buffer) :
                /\ work'.buffer[i].agent \in agents' \ work'.toVisit
                /\ work'.buffer[i].date \in dates' /\ work'.buffer[i].command \in names'
                /\ Truthful(work.buffer[i])'
                /\ \A j \in 1..Len(system') : ~ SameKey(work'.buffer[i], system'[j])
<1>1. UNCHANGED <<dates, agents, names, logs, system>>
  BY DEF tables, names3
<1>2. \A r : Truthful(r) => Truthful(r)'
  BY <1>1 DEF Truthful, Of, WithCommand
<1>3. /\ work.buffer \in Seq(SystemRow) /\ Len(work.buffer) <= BufferSize /\ RowsOnce(work.buffer)
      /\ \A i \in 1..Len(work.buffer) :
           /\ work.buffer[i].agent \in agents \ work.toVisit
           /\ work.buffer[i].date \in dates /\ work.buffer[i].command \in names
           /\ Truthful(work.buffer[i])
           /\ \A j \in 1..Len(system) : ~ SameKey(work.buffer[i], system[j])
  BY DEF IInv, SystemWork
<1>4. RowsOnce(work.buffer)'
  BY <1>3 DEF RowsOnce, SameKey
<1>5. \A i \in 1..Len(work.buffer) : Truthful(work.buffer[i])'
  BY <1>2, <1>3
<1> QED BY <1>1, <1>3, <1>4, <1>5 DEF SameKey

LEMMA SystemStep ==
    ASSUME IInv, UNCHANGED <<tables, bounds, hist, call>>,
           work.at \notin InUsers, work'.at \in InSystem, SystemWork'
    PROVE  IInv'
<1>1. Current' = Current /\ WorkAt' /\ UserWork'
  BY DEF Current, WorkAt, UserWork, InSystem, InUsers, OnDay, Counting
<1> QED BY <1>1, OnlyWork

LEMMA InvChooseAgent == IInv /\ (GetAllCommandsIds \/ NextAgent \/ AgentDone) => IInv'
<1> SUFFICES ASSUME IInv, GetAllCommandsIds \/ NextAgent \/ AgentDone PROVE IInv'
  OBVIOUS
<1>1. UNCHANGED <<tables, bounds, hist, call>>
  BY DEF GetAllCommandsIds, NextAgent, AgentDone, Analyzer, hist
<1>2. UNCHANGED <<dates, agents, names, logs, system, daily, counted>>
  BY <1>1 DEF tables, names3
<1>3. CASE GetAllCommandsIds
  <2>1. /\ work.at = "commands" /\ work.toVisit \subseteq agents
        /\ work' = [at |-> "agent", today |-> work.today, toVisit |-> work.toVisit,
                    commands |-> names, buffer |-> <<>>, agent |-> NoCommand, pairs |-> {}]
    BY <1>3 DEF GetAllCommandsIds, IInv, SystemWork
  <2>2. Len(work'.buffer) = 0 /\ work'.buffer \in Seq(SystemRow)
    BY <2>1, EmptySeq
  <2>3. SystemWork'
    BY <1>2, <2>1, <2>2, StatisticsAssumption DEF SystemWork, RowsOnce, InSystem
  <2>4. work.at \notin InUsers /\ work'.at \in InSystem
    BY <2>1 DEF InUsers, InSystem
  <2> QED BY <1>1, <2>3, <2>4, SystemStep
<1>4. CASE AgentDone
  <2>1. work.at = "count" /\ work' = [work EXCEPT !.at = "agent"]
    BY <1>4 DEF AgentDone
  <2>2. work' = [at |-> "agent", today |-> work.today, toVisit |-> work.toVisit, commands |-> work.commands,
                 buffer |-> work.buffer, agent |-> work.agent, pairs |-> work.pairs]
    BY <2>1 DEF IInv, SystemWork, InSystem
  <2>3. work.at \in InSystem /\ work'.at \in InSystem /\ work.at \notin InUsers
    BY <2>1, <2>2 DEF InSystem, InUsers
  <2>4. /\ work.toVisit \subseteq agents /\ work.commands \subseteq names /\ Len(work.buffer) < BufferSize
    BY <2>1 DEF IInv, SystemWork, InSystem
  <2>5. SystemWork'
    BY <1>1, <1>2, <2>2, <2>3, <2>4, BufferStays DEF SystemWork
  <2> QED BY <1>1, <2>3, <2>5, SystemStep
<1>5. CASE NextAgent
  <2>1. work.at = "agent" /\ work.toVisit # {}
    BY <1>5 DEF NextAgent
  <2>2. PICK a \in work.toVisit :
          work' = [work EXCEPT !.at = "count", !.agent = a, !.toVisit = work.toVisit \ {a},
                               !.pairs = DatesWithoutStatistic(a) \X work.commands]
    BY <1>5, <2>1 DEF NextAgent
  <2>3. work' = [at |-> "count", today |-> work.today, toVisit |-> work.toVisit \ {a}, commands |-> work.commands,
                 buffer |-> work.buffer, agent |-> a, pairs |-> DatesWithoutStatistic(a) \X work.commands]
    BY <2>1, <2>2 DEF IInv, SystemWork, InSystem
  <2>4. /\ work.toVisit \subseteq agents /\ work.commands \subseteq names /\ Len(work.buffer) < BufferSize
        /\ work.at \in InSystem /\ work'.at \in InSystem /\ work.at \notin InUsers
    BY <2>1, <2>3 DEF IInv, SystemWork, InSystem, InUsers
  <2>5. \A p \in work'.pairs : /\ p \in dates \X names
                               /\ \A i \in 1..Len(system) : ~ (system[i].agent = a /\ system[i].date = p[1])
    BY <2>3, <2>4 DEF DatesWithoutStatistic
  <2>6. \A i \in 1..Len(work.buffer) : work.buffer[i].agent # a
    BY <2>1, <2>2 DEF IInv, SystemWork, InSystem
  <2>7. \A p \in work'.pairs : NoRowYet(system, p)' /\ NoRowYet(work.buffer, p)'
    BY <1>2, <2>3, <2>5, <2>6 DEF NoRowYet
  <2>8. work'.toVisit \subseteq work.toVisit /\ work'.buffer = work.buffer
    BY <2>3
  <2>9. /\ work'.buffer \in Seq(SystemRow) /\ Len(work'.buffer) <= BufferSize /\ RowsOnce(work.buffer)'
        /\ \A i \in 1..Len(work'.buffer) :
             /\ work'.buffer[i].agent \in agents' \ work'.toVisit
             /\ work'.buffer[i].date \in dates' /\ work'.buffer[i].command \in names'
             /\ Truthful(work.buffer[i])'
             /\ \A j \in 1..Len(system') : ~ SameKey(work'.buffer[i], system'[j])
    BY <1>1, <2>4, <2>8, BufferStays
  <2>10. a \in agents /\ work'.agent = a /\ work'.at = "count" /\ work'.toVisit = work.toVisit \ {a}
         /\ work'.commands = work.commands
    BY <2>2, <2>3, <2>4
  <2>11. SystemWork'
    <3>1. work' = [at |-> work'.at, today |-> work'.today, toVisit |-> work'.toVisit, commands |-> work'.commands,
                   buffer |-> work'.buffer, agent |-> work'.agent, pairs |-> work'.pairs]
      BY <2>3
    <3>2. work'.pairs \subseteq dates' \X names' /\ work'.toVisit \subseteq agents' /\ work'.commands \subseteq names'
          /\ work'.agent \in agents' \ work'.toVisit
      BY <1>2, <2>4, <2>5, <2>10
    <3>3. Len(work'.buffer) < BufferSize
      BY <2>4, <2>8
    <3> QED BY <2>7, <2>9, <2>10, <3>1, <3>2, <3>3 DEF SystemWork
  <2> QED BY <1>1, <2>4, <2>11, SystemStep
<1> QED BY <1>3, <1>4, <1>5

-----------------------------------------------------------------------------
\* Appending a row with a new key.
LEMMA AppendedRow ==
    ASSUME NEW Q \in Seq(SystemRow), NEW r \in SystemRow, RowsOnce(Q),
           \A i \in 1..Len(Q) : ~ SameKey(Q[i], r)
    PROVE  /\ Append(Q, r) \in Seq(SystemRow) /\ Len(Append(Q, r)) = Len(Q) + 1
           /\ \A i \in 1..Len(Append(Q, r)) : Append(Q, r)[i] = IF i <= Len(Q) THEN Q[i] ELSE r
           /\ RowsOnce(Append(Q, r))
<1>1. /\ Append(Q, r) \in Seq(SystemRow) /\ Len(Append(Q, r)) = Len(Q) + 1 /\ Len(Q) \in Nat
      /\ \A i \in 1..(Len(Q) + 1) : Append(Q, r)[i] = IF i <= Len(Q) THEN Q[i] ELSE r
  BY AppendProperties, LenProperties
<1>2. ASSUME NEW i \in 1..(Len(Q) + 1), NEW j \in 1..(Len(Q) + 1), SameKey(Append(Q, r)[i], Append(Q, r)[j])
      PROVE  i = j
  <2>1. CASE i <= Len(Q) /\ j <= Len(Q)
    BY <1>1, <1>2, <2>1 DEF RowsOnce
  <2>2. CASE i <= Len(Q) /\ ~ (j <= Len(Q))
    BY <1>1, <1>2, <2>2 DEF SameKey
  <2>3. CASE ~ (i <= Len(Q)) /\ j <= Len(Q)
    BY <1>1, <1>2, <2>3 DEF SameKey
  <2>4. CASE ~ (i <= Len(Q)) /\ ~ (j <= Len(Q))
    BY <1>1, <2>4
  <2> QED BY <2>1, <2>2, <2>3, <2>4
<1> QED BY <1>1, <1>2 DEF RowsOnce

LEMMA InvCountCommands == IInv /\ CountCommands => IInv'
<1> SUFFICES ASSUME IInv, CountCommands PROVE IInv'
  OBVIOUS
<1>1. UNCHANGED <<tables, bounds, hist, call>>
  BY DEF CountCommands, Analyzer, hist
<1>2. UNCHANGED <<dates, agents, names, logs, system, daily, counted>>
  BY <1>1 DEF tables, names3
<1>3. work.at = "count" /\ work.pairs # {}
  BY DEF CountCommands
<1>4. PICK p \in work.pairs : \E x :
        /\ x = [agent |-> work.agent, date |-> p[1], command |-> p[2],
                summary |-> Cardinality(WithCommand(Of(work.agent, p[1]), p[2]))]
        /\ work' = [work EXCEPT !.pairs = work.pairs \ {p}, !.buffer = Append(work.buffer, x),
                                !.at = IF Len(work.buffer) + 1 = BufferSize THEN "full" ELSE "count"]
  BY <1>3 DEF CountCommands
<1>5. PICK row :
        /\ row = [agent |-> work.agent, date |-> p[1], command |-> p[2],
                  summary |-> Cardinality(WithCommand(Of(work.agent, p[1]), p[2]))]
        /\ work' = [work EXCEPT !.pairs = work.pairs \ {p}, !.buffer = Append(work.buffer, row),
                                !.at = IF Len(work.buffer) + 1 = BufferSize THEN "full" ELSE "count"]
  BY <1>4
<1>6. /\ work' = [at |-> work'.at, today |-> work.today, toVisit |-> work.toVisit, commands |-> work.commands,
                  buffer |-> Append(work.buffer, row), agent |-> work.agent, pairs |-> work.pairs \ {p}]
      /\ work'.at = IF Len(work.buffer) + 1 = BufferSize THEN "full" ELSE "count"
  BY <1>3, <1>5 DEF IInv, SystemWork, InSystem
<1>7. /\ work.toVisit \subseteq agents /\ work.commands \subseteq names /\ work.buffer \in Seq(SystemRow)
      /\ RowsOnce(work.buffer) /\ Len(work.buffer) < BufferSize /\ Len(work.buffer) \in Nat
      /\ work.agent \in agents \ work.toVisit /\ work.pairs \subseteq dates \X names
      /\ \A q \in work.pairs : NoRowYet(system, q) /\ NoRowYet(work.buffer, q)
  BY <1>3, LenProperties DEF IInv, SystemWork, InSystem
<1>8. /\ row.agent = work.agent /\ row.date = p[1] /\ row.command = p[2]
      /\ row.summary = Cardinality(WithCommand(Of(work.agent, p[1]), p[2])) /\ row.summary \in Nat
  <2>1. WithCommand(Of(work.agent, p[1]), p[2]) \subseteq logs
    BY DEF WithCommand, Of
  <2>2. Cardinality(WithCommand(Of(work.agent, p[1]), p[2])) \in Nat
    BY <2>1, SomeLogs DEF IInv
  <2> QED BY <1>5, <2>2
<1>9. row \in SystemRow /\ row.date \in dates /\ row.command \in names /\ Truthful(row)
  BY <1>5, <1>7, <1>8 DEF SystemRow, Truthful, IInv, TypeOK
<1>10. \A i \in 1..Len(work.buffer) : ~ SameKey(work.buffer[i], row)
  BY <1>7, <1>8 DEF NoRowYet, SameKey
<1>11. \A j \in 1..Len(system) : ~ SameKey(row, system[j])
  BY <1>7, <1>8 DEF NoRowYet, SameKey
<1> DEFINE buffer == Append(work.buffer, row)
<1>12. /\ buffer \in Seq(SystemRow) /\ Len(buffer) = Len(work.buffer) + 1 /\ RowsOnce(buffer)
       /\ \A i \in 1..Len(buffer) : buffer[i] = IF i <= Len(work.buffer) THEN work.buffer[i] ELSE row
  BY <1>7, <1>9, <1>10, AppendedRow
<1>13. \A i \in 1..Len(buffer) :
         /\ buffer[i].agent \in agents \ work.toVisit
         /\ buffer[i].date \in dates /\ buffer[i].command \in names
         /\ Truthful(buffer[i])
         /\ \A j \in 1..Len(system) : ~ SameKey(buffer[i], system[j])
  <2>1. \A i \in 1..Len(work.buffer) :
         /\ work.buffer[i].agent \in agents \ work.toVisit
         /\ work.buffer[i].date \in dates /\ work.buffer[i].command \in names
         /\ Truthful(work.buffer[i])
         /\ \A j \in 1..Len(system) : ~ SameKey(work.buffer[i], system[j])
    BY <1>3 DEF IInv, SystemWork, InSystem
  <2>2. ASSUME NEW i \in 1..Len(buffer)
        PROVE  (i \in 1..Len(work.buffer) /\ buffer[i] = work.buffer[i]) \/ buffer[i] = row
    BY <1>7, <1>12
  <2> HIDE DEF buffer
  <2> QED BY <1>7, <1>8, <1>9, <1>11, <2>1, <2>2
<1>14. \A q \in work.pairs \ {p} : \A i \in 1..Len(buffer) :
         ~ (buffer[i].agent = work.agent /\ buffer[i].date = q[1] /\ buffer[i].command = q[2])
  <2>1. ASSUME NEW q \in work.pairs \ {p}, NEW i \in 1..Len(buffer)
        PROVE  ~ (buffer[i].agent = work.agent /\ buffer[i].date = q[1] /\ buffer[i].command = q[2])
    <3>1. p = <<p[1], p[2]>> /\ q = <<q[1], q[2]>>
      BY <1>7
    <3>2. CASE buffer[i] = row
      BY <1>8, <3>1, <3>2
    <3>3. CASE i \in 1..Len(work.buffer) /\ buffer[i] = work.buffer[i]
      BY <1>7, <3>3 DEF NoRowYet
    <3> QED BY <1>7, <1>12, <3>2, <3>3
  <2> QED BY <2>1
<1>15. work'.buffer = buffer
  BY <1>6
<1> HIDE DEF buffer
<1>16. \A r : Truthful(r) => Truthful(r)'
  BY <1>2 DEF Truthful, Of, WithCommand
<1>17. Len(buffer) <= BufferSize /\ (work'.at = "count" => Len(buffer) < BufferSize)
  BY <1>6, <1>7, <1>12, StatisticsAssumption
<1>18. RowsOnce(work.buffer)' /\ \A i \in 1..Len(buffer) : Truthful(work.buffer[i])'
  <2>1. RowsOnce(work.buffer)'
    BY <1>12, <1>15 DEF RowsOnce, SameKey
  <2>2. ASSUME NEW i \in 1..Len(buffer) PROVE Truthful(work.buffer[i])'
    <3>1. PICK r : r = buffer[i]
      OBVIOUS
    <3>2. Truthful(r)'
      BY <1>13, <1>16, <3>1
    <3>3. r = work'.buffer[i]
      BY <1>15, <3>1
    <3> QED BY <3>2, <3>3
  <2> QED BY <2>1, <2>2
<1>19. \A q \in work.pairs \ {p} : NoRowYet(system, q)' /\ NoRowYet(work.buffer, q)'
  <2>1. work'.agent = work.agent
    BY <1>6
  <2>2. ASSUME NEW q \in work.pairs \ {p} PROVE NoRowYet(system, q)'
    BY <1>2, <1>7, <2>1 DEF NoRowYet
  <2>3. ASSUME NEW q \in work.pairs \ {p} PROVE NoRowYet(work.buffer, q)'
    BY <1>14, <1>15, <2>1 DEF NoRowYet
  <2> QED BY <2>2, <2>3
<1>20. work'.at \in {"count", "full"} /\ work'.pairs = work.pairs \ {p} /\ work'.agent = work.agent
       /\ work'.toVisit = work.toVisit /\ work'.commands = work.commands
  BY <1>6
<1>21. \A i \in 1..Len(work'.buffer) :
         /\ work'.buffer[i].agent \in agents' \ work'.toVisit
         /\ work'.buffer[i].date \in dates' /\ work'.buffer[i].command \in names'
         /\ Truthful(work.buffer[i])'
         /\ \A j \in 1..Len(system') : ~ SameKey(work'.buffer[i], system'[j])
  BY <1>2, <1>13, <1>15, <1>18, <1>20 DEF SameKey
<1>22. SystemWork'
  BY <1>2, <1>6, <1>7, <1>12, <1>15, <1>17, <1>18, <1>19, <1>20, <1>21 DEF SystemWork, InSystem
<1>23. work.at \notin InUsers /\ work'.at \in InSystem
  BY <1>3, <1>20 DEF InUsers, InSystem
<1> QED BY <1>1, <1>22, <1>23, SystemStep

-----------------------------------------------------------------------------
\* What the table is after the buffer was added to it.
LEMMA WrittenBuffer ==
    ASSUME IInv, work.at \in InSystem, system' = system \o work.buffer, UNCHANGED <<names3, logs>>
    PROVE  /\ SystemTable'
           /\ \A k \in 1..Len(system') :
                \/ \E i \in 1..Len(system) : system'[k] = system[i]
                \/ \E i \in 1..Len(work.buffer) : system'[k] = work.buffer[i]
           /\ \A k \in 1..Len(system') :
                system'[k] \in [agent : agents', date : dates', command : names', summary : 0..Cardinality(logs')]
<1>1. /\ system \in Seq(SystemRow) /\ work.buffer \in Seq(SystemRow)
      /\ RowsOnce(system) /\ RowsOnce(work.buffer)
      /\ \A i \in 1..Len(system) : Truthful(system[i])
      /\ \A i \in 1..Len(work.buffer) :
           /\ work.buffer[i].agent \in agents
           /\ work.buffer[i].date \in dates /\ work.buffer[i].command \in names
           /\ Truthful(work.buffer[i])
           /\ \A j \in 1..Len(system) : ~ SameKey(work.buffer[i], system[j])
  BY DEF IInv, SystemTable, SystemWork
<1>2. Len(system) \in Nat /\ Len(work.buffer) \in Nat
  BY <1>1, LenProperties
<1>3. /\ system' \in Seq(SystemRow) /\ Len(system') = Len(system) + Len(work.buffer)
      /\ \A k \in 1..(Len(system) + Len(work.buffer)) :
           system'[k] = IF k <= Len(system) THEN system[k] ELSE work.buffer[k - Len(system)]
  BY <1>1, ConcatProperties
<1>4. ASSUME NEW k \in 1..Len(system')
      PROVE  \/ k \in 1..Len(system) /\ system'[k] = system[k]
             \/ /\ ~ (k <= Len(system))
                /\ k - Len(system) \in 1..Len(work.buffer) /\ system'[k] = work.buffer[k - Len(system)]
  BY <1>2, <1>3
<1>5. ASSUME NEW i \in 1..Len(system'), NEW j \in 1..Len(system'), SameKey(system'[i], system'[j])
      PROVE  i = j
  <2>1. CASE i \in 1..Len(system) /\ system'[i] = system[i] /\ j \in 1..Len(system) /\ system'[j] = system[j]
    BY <1>1, <1>5, <2>1 DEF RowsOnce
  <2>2. CASE i \in 1..Len(system) /\ system'[i] = system[i] /\ ~ (j <= Len(system))
    <3>1. j - Len(system) \in 1..Len(work.buffer) /\ system'[j] = work.buffer[j - Len(system)]
      BY <1>4, <2>2
    <3>2. ~ SameKey(work.buffer[j - Len(system)], system[i])
      BY <1>1, <2>2, <3>1
    <3> QED BY <1>5, <2>2, <3>1, <3>2 DEF SameKey
  <2>3. CASE ~ (i <= Len(system)) /\ j \in 1..Len(system) /\ system'[j] = system[j]
    BY <1>1, <1>2, <1>4, <1>5, <2>3 DEF SameKey
  <2>4. CASE ~ (i <= Len(system)) /\ ~ (j <= Len(system))
    <3>1. /\ i - Len(system) \in 1..Len(work.buffer) /\ system'[i] = work.buffer[i - Len(system)]
          /\ j - Len(system) \in 1..Len(work.buffer) /\ system'[j] = work.buffer[j - Len(system)]
      BY <1>2, <1>4, <2>4
    <3>2. i - Len(system) = j - Len(system)
      BY <1>1, <1>5, <3>1 DEF RowsOnce
    <3> QED BY <1>2, <1>3, <3>2
  <2> QED BY <1>4, <2>1, <2>2, <2>3, <2>4
<1>6. ASSUME NEW k \in 1..Len(system')
      PROVE  \/ \E i \in 1..Len(system) : system'[k] = system[i]
             \/ \E i \in 1..Len(work.buffer) : system'[k] = work.buffer[i]
  BY <1>4
<1>7. \A k \in 1..Len(system') : system'[k] \in SystemRow /\ Truthful(system'[k])
  BY <1>1, <1>2, <1>6, ElementOfSeq
<1>8. \A r : Truthful(r) => Truthful(r)'
  BY DEF Truthful, Of, WithCommand
<1>9. ASSUME NEW k \in 1..Len(system') PROVE Truthful(system[k])'
  <2>1. PICK r : r = system'[k]
    OBVIOUS
  <2>2. Truthful(r)'
    BY <1>7, <1>8, <2>1
  <2> QED BY <2>1, <2>2
<1>10. SystemTable'
  BY <1>3, <1>5, <1>9 DEF SystemTable, RowsOnce, SameKey
<1>11. ASSUME NEW k \in 1..Len(system')
       PROVE  system'[k] \in [agent : agents, date : dates, command : names, summary : 0..Cardinality(logs)]
  <2>1. system'[k].agent \in agents /\ system'[k].date \in dates /\ system'[k].command \in names
    <3>1. \A i \in 1..Len(system) : system[i].agent \in agents /\ system[i].date \in dates /\ system[i].command \in names
      BY DEF IInv, TypeOK
    <3> QED BY <1>1, <1>6, <3>1
  <2>2. PICK r : r = system'[k]
    OBVIOUS
  <2>3. WithCommand(Of(r.agent, r.date), r.command) \subseteq logs
    BY DEF WithCommand, Of
  <2>4. /\ Cardinality(WithCommand(Of(r.agent, r.date), r.command)) \in Nat /\ Cardinality(logs) \in Nat
        /\ Cardinality(WithCommand(Of(r.agent, r.date), r.command)) <= Cardinality(logs)
    BY <2>3, SmallerSet DEF IInv
  <2>5. r.summary \in Nat /\ r.summary <= Cardinality(WithCommand(Of(r.agent, r.date), r.command))
    BY <1>7, <2>2 DEF SystemRow, Truthful
  <2>6. r.summary \in 0..Cardinality(logs)
    <3>1. \A x, m, n \in Nat : x <= m /\ m <= n => x \in 0..n
      OBVIOUS
    <3> QED BY <2>4, <2>5, <3>1
  <2>7. r = [agent |-> r.agent, date |-> r.date, command |-> r.command, summary |-> r.summary]
    BY <1>7, <2>2 DEF SystemRow
  <2> QED BY <2>1, <2>2, <2>6, <2>7
<1> QED BY <1>6, <1>10, <1>11 DEF names3

\* AddCommandsStatistics writes the rows whole, so what was not counted before is not now.
LEMMA InvAddRows == IInv /\ (AddFullBuffer \/ AddRest) => IInv'
<1> SUFFICES ASSUME IInv, AddFullBuffer \/ AddRest PROVE IInv'
  OBVIOUS
<1>1. /\ UNCHANGED <<dates, agents, names, logs, daily, counted, day, sent, late, interrupted, call, names3>>
      /\ system' = system \o work.buffer
  BY DEF AddFullBuffer, AddRest, Analyzer, names3, bounds
<1>2. work.at \in InSystem
  BY DEF AddFullBuffer, AddRest, InSystem
<1>3. /\ SystemTable'
      /\ \A k \in 1..Len(system') :
           \/ \E i \in 1..Len(system) : system'[k] = system[i]
           \/ \E i \in 1..Len(work.buffer) : system'[k] = work.buffer[i]
      /\ \A k \in 1..Len(system') :
           system'[k] \in [agent : agents', date : dates', command : names', summary : 0..Cardinality(logs')]
  BY <1>1, <1>2, WrittenBuffer
<1>4. ASSUME Current' = Current, WorkAt', SystemWork', UserWork' PROVE IInv'
  <2>1. TypeOK'
    BY <1>1, <1>3, <1>4 DEF IInv, TypeOK, SystemWork, InSystem
  <2>2. UserTable'
    BY <1>1, <1>4, CountsStay DEF IInv, UserTable
  <2>3. CallOK'
    BY <1>1 DEF IInv, CallOK
  <2> QED BY <1>1, <1>3, <1>4, <2>1, <2>2, <2>3 DEF IInv
<1>5. CASE AddFullBuffer
  <2>1. work.at = "full" /\ work' = [work EXCEPT !.at = "count", !.buffer = <<>>]
    BY <1>5 DEF AddFullBuffer
  <2>2. work' = [at |-> "count", today |-> work.today, toVisit |-> work.toVisit, commands |-> work.commands,
                 buffer |-> <<>>, agent |-> work.agent, pairs |-> work.pairs]
    BY <2>1 DEF IInv, SystemWork, InSystem
  <2>3. /\ work.toVisit \subseteq agents /\ work.commands \subseteq names
        /\ work.agent \in agents \ work.toVisit /\ work.pairs \subseteq dates \X names
        /\ \A q \in work.pairs : NoRowYet(system, q) /\ NoRowYet(work.buffer, q)
    BY <2>1 DEF IInv, SystemWork, InSystem
  <2>4. Len(work'.buffer) = 0 /\ work'.buffer \in Seq(SystemRow)
    BY <2>2, EmptySeq
  <2>5. \A q \in work'.pairs : NoRowYet(work.buffer, q)'
    BY <2>4 DEF NoRowYet
  <2>6. ASSUME NEW q \in work'.pairs PROVE NoRowYet(system, q)'
    <3>1. work'.agent = work.agent /\ q \in work.pairs
      BY <2>2
    <3>2. NoRowYet(system, q) /\ NoRowYet(work.buffer, q)
      BY <2>3, <3>1
    <3>3. \A k \in 1..Len(system') :
            ~ (system'[k].agent = work.agent /\ system'[k].date = q[1] /\ system'[k].command = q[2])
      BY <1>3, <3>2 DEF NoRowYet
    <3> QED BY <3>1, <3>3 DEF NoRowYet
  <2>7. SystemWork'
    BY <1>1, <2>2, <2>3, <2>4, <2>5, <2>6, StatisticsAssumption DEF SystemWork, InSystem, RowsOnce
  <2>8. Current' = Current /\ WorkAt' /\ UserWork'
    BY <2>1, <2>2 DEF Current, WorkAt, UserWork, InSystem, InUsers, OnDay, Counting
  <2> QED BY <1>4, <2>7, <2>8
<1>6. CASE AddRest
  <2>1. work.at = "agent" /\ work' = [at |-> "today", today |-> work.today]
    BY <1>6 DEF AddRest
  <2>2. Current' = Current /\ WorkAt' /\ SystemWork' /\ UserWork'
    BY <2>1 DEF Current, WorkAt, SystemWork, UserWork, InSystem, InUsers, OnDay, Counting
  <2> QED BY <1>4, <2>2
<1> QED BY <1>5, <1>6

-----------------------------------------------------------------------------
(* CreateStatistics and DailyUserStatisticsCreator.                        *)

\* The steps before the users: nothing is in the hands of the analyzer but the date.
LEMMA InvGetAgentsIds == IInv /\ (GetDateId \/ GetAgentsIds) => IInv'
<1> SUFFICES ASSUME IInv, GetDateId \/ GetAgentsIds PROVE IInv'
  OBVIOUS
<1>1. UNCHANGED <<tables, bounds, hist, call>>
  BY DEF GetDateId, GetAgentsIds, Analyzer, hist
<1>2. UNCHANGED <<dates, agents, names, logs, system, daily, counted>>
  BY <1>1 DEF tables, names3
<1>3. CASE GetDateId
  <2>1. work.at = "today" /\ work' = [at |-> "agents", today |-> DateId(work.today)]
    BY <1>3 DEF GetDateId
  <2>2. Current' = Current /\ WorkAt' /\ SystemWork' /\ UserWork'
    BY <2>1 DEF Current, WorkAt, SystemWork, UserWork, InSystem, InUsers, OnDay, Counting
  <2> QED BY <1>1, <2>2, OnlyWork
<1>4. CASE GetAgentsIds
  <2>1. /\ work.at = "agents"
        /\ work' = [at |-> "users", today |-> work.today, toVisit |-> agents, users |-> {}, dates |-> {},
                    agent |-> NoCommand, user |-> NoCommand, statistic |-> 0, commands |-> {}]
    BY <1>4 DEF GetAgentsIds
  <2>2. Current' = Current /\ WorkAt' /\ SystemWork' /\ UserWork'
    BY <1>2, <2>1 DEF Current, WorkAt, SystemWork, UserWork, InSystem, InUsers, OnDay, Counting
  <2> QED BY <1>1, <2>2, OnlyWork
<1> QED BY <1>3, <1>4

\* The users of an agent, and the days of a user: no day that has a statistic of the user.
LEMMA InvChooseUser ==
    IInv /\ (GetSystemUsersIdsFromLogs \/ GetNotCalculatedDates \/ UserDone \/ CreateStatisticsEnds) => IInv'
<1> SUFFICES ASSUME IInv,
                    GetSystemUsersIdsFromLogs \/ GetNotCalculatedDates \/ UserDone \/ CreateStatisticsEnds
             PROVE  IInv'
  OBVIOUS
<1>1. UNCHANGED <<tables, bounds, hist, call>>
  BY DEF GetSystemUsersIdsFromLogs, GetNotCalculatedDates, UserDone, CreateStatisticsEnds, Analyzer, hist
<1>2. UNCHANGED <<dates, agents, names, logs, system, daily, counted>>
  BY <1>1 DEF tables, names3
<1>3. ASSUME work.at \in {"users", "dates"}, work'.at \in {"idle", "users", "dates"}, UserWork' PROVE IInv'
  <2>1. Current' = Current /\ WorkAt' /\ SystemWork'
    BY <1>3 DEF Current, WorkAt, SystemWork, InSystem, InUsers, Counting
  <2> QED BY <1>1, <1>3, <2>1, OnlyWork
<1>4. CASE GetSystemUsersIdsFromLogs
  <2>1. work.at = "users" /\ work.toVisit # {}
    BY <1>4 DEF GetSystemUsersIdsFromLogs
  <2>2. PICK U, a :
          /\ a \in work.toVisit /\ U = {l.user : l \in {k \in logs : k.agent = a}}
          /\ work' = [work EXCEPT !.toVisit = work.toVisit \ {a}, !.agent = a, !.users = U]
    BY <1>4, <2>1 DEF GetSystemUsersIdsFromLogs
  <2>3. work' = [at |-> "users", today |-> work.today, toVisit |-> work.toVisit \ {a},
                 users |-> U, dates |-> work.dates, agent |-> a, user |-> work.user,
                 statistic |-> work.statistic, commands |-> work.commands]
    BY <2>1, <2>2 DEF IInv, UserWork, InUsers
  <2>4. U \subseteq Users
    BY <2>2 DEF IInv, TypeOK
  <2>5. work.toVisit \subseteq agents
    BY <2>1 DEF IInv, UserWork, InUsers
  <2>6. UserWork'
    <3>1. /\ work'.at = "users" /\ work'.agent \in agents' /\ work'.toVisit \subseteq agents'
          /\ work'.users \subseteq Users
      <4>1. work'.at = "users" /\ work'.agent = a /\ work'.toVisit = work.toVisit \ {a} /\ work'.users = U
        BY <2>3
      <4>2. a \in agents
        BY <2>2, <2>5
      <4> QED BY <1>2, <2>4, <2>5, <4>1, <4>2
    <3>2. work' = [at |-> work'.at, today |-> work'.today, toVisit |-> work'.toVisit, users |-> work'.users,
                   dates |-> work'.dates, agent |-> work'.agent, user |-> work'.user,
                   statistic |-> work'.statistic, commands |-> work'.commands]
      BY <2>3
    <3> QED BY <3>1, <3>2 DEF UserWork, InUsers, OnDay, Counting
  <2> QED BY <1>3, <2>1, <2>3, <2>6
<1>5. CASE GetNotCalculatedDates
  <2>1. work.at = "users" /\ work.users # {}
    BY <1>5 DEF GetNotCalculatedDates
  <2>2. PICK u \in work.users :
          work' = [work EXCEPT !.at = "dates", !.users = work.users \ {u}, !.user = u,
                               !.dates = NotCalculatedDates(work.agent, u) \ {work.today}]
    BY <1>5, <2>1 DEF GetNotCalculatedDates
  <2>3. work' = [at |-> "dates", today |-> work.today, toVisit |-> work.toVisit, users |-> work.users \ {u},
                 dates |-> NotCalculatedDates(work.agent, u) \ {work.today}, agent |-> work.agent, user |-> u,
                 statistic |-> work.statistic, commands |-> work.commands]
    BY <2>1, <2>2 DEF IInv, UserWork, InUsers
  <2>4. /\ work.agent \in agents /\ work.users \subseteq Users /\ work.toVisit \subseteq agents
    BY <2>1 DEF IInv, UserWork, InUsers
  <2>5. ASSUME NEW d \in work'.dates
        PROVE  d \in dates /\ \A s \in 1..Len(daily) : daily[s].user # u
    BY <2>3 DEF NotCalculatedDates, IInv, TypeOK
  <2>6. \A d \in work'.dates, s \in 1..Len(daily) : daily[s] # [agent |-> work.agent, user |-> u, date |-> d]
    BY <2>5
  <2>7. UserWork'
    BY <1>2, <2>2, <2>3, <2>4, <2>5, <2>6 DEF UserWork, InUsers, OnDay, Counting
  <2> QED BY <1>3, <2>1, <2>3, <2>7
<1>6. CASE UserDone
  <2>1. work.at = "dates" /\ work' = [work EXCEPT !.at = "users"]
    BY <1>6 DEF UserDone
  <2>2. work' = [at |-> "users", today |-> work.today, toVisit |-> work.toVisit, users |-> work.users,
                 dates |-> work.dates, agent |-> work.agent, user |-> work.user,
                 statistic |-> work.statistic, commands |-> work.commands]
    BY <2>1 DEF IInv, UserWork, InUsers
  <2>3. UserWork'
    BY <1>2, <2>1, <2>2 DEF IInv, UserWork, InUsers, OnDay, Counting
  <2> QED BY <1>3, <2>1, <2>2, <2>3
<1>7. CASE CreateStatisticsEnds
  <2>1. work.at = "users" /\ work' = [at |-> "idle"]
    BY <1>7 DEF CreateStatisticsEnds, NoWork
  <2>2. UserWork'
    BY <2>1 DEF UserWork, InUsers, OnDay, Counting
  <2> QED BY <1>3, <2>1, <2>2
<1> QED BY <1>4, <1>5, <1>6, <1>7

\* A statistic is added before its rows: until they are there it is the current one.
LEMMA InvAddStatistic == IInv /\ AddDailyUserStatistic => IInv'
<1> SUFFICES ASSUME IInv, AddDailyUserStatistic PROVE IInv'
  OBVIOUS
<1>1. /\ UNCHANGED <<dates, agents, names, logs, system, counted, day, sent, late, interrupted, call>>
      /\ work.at = "dates" /\ work.dates # {}
  BY DEF AddDailyUserStatistic, Analyzer, names3, bounds
<1>2. PICK d, row :
        /\ d \in work.dates
        /\ row = [agent |-> work.agent, user |-> work.user, date |-> d]
        /\ daily' = Append(daily, row)
        /\ work' = [work EXCEPT !.at = "commands of user", !.dates = work.dates \ {d}, !.statistic = d]
  BY <1>1 DEF AddDailyUserStatistic
<1>3. work' = [at |-> "commands of user", today |-> work.today, toVisit |-> work.toVisit, users |-> work.users,
               dates |-> work.dates \ {d}, agent |-> work.agent, user |-> work.user,
               statistic |-> d, commands |-> work.commands]
  BY <1>1, <1>2 DEF IInv, UserWork, InUsers
<1>4. /\ work.agent \in agents /\ work.user \in Users /\ work.dates \subseteq dates /\ d \in dates
      /\ work.toVisit \subseteq agents /\ work.users \subseteq Users
      /\ \A e \in work.dates, s \in 1..Len(daily) :
           daily[s] # [agent |-> work.agent, user |-> work.user, date |-> e]
  BY <1>1, <1>2 DEF IInv, UserWork, InUsers, OnDay
<1>5. /\ row \in [agent : agents, user : Users, date : dates] /\ row \in DailyRow
      /\ \A s \in 1..Len(daily) : daily[s] # row
  BY <1>2, <1>4 DEF DailyRow, IInv, TypeOK
<1>6. /\ Len(daily) \in Nat /\ daily \in Seq(DailyRow)
      /\ daily' \in Seq(DailyRow) /\ Len(daily') = Len(daily) + 1 /\ daily'[Len(daily) + 1] = row
      /\ \A s \in 1..Len(daily) : daily'[s] = daily[s]
  BY <1>2, <1>5, LenProperties, AppendProperties DEF IInv, UserTable
<1>7. ASSUME NEW s \in 1..Len(daily')
      PROVE  \/ s \in 1..Len(daily) /\ daily'[s] = daily[s]
             \/ s = Len(daily') /\ daily'[s] = row
  <2>1. s \in 1..Len(daily) \/ s = Len(daily) + 1
    BY <1>6
  <2> QED BY <1>6, <2>1
<1>8. TypeOK'
  <2>1. \A s \in 1..Len(daily') : daily'[s] \in [agent : agents, user : Users, date : dates]
    BY <1>5, <1>7 DEF IInv, TypeOK
  <2>2. 1..Len(daily) \subseteq 1..Len(daily')
    BY <1>6
  <2>3. \A i \in 1..Len(counted) :
          counted[i] \in [statistic : 1..Len(daily'), command : names \cup {NoCommand},
                          summary : 1..Cardinality(logs)]
    BY <2>2 DEF IInv, TypeOK
  <2>4. interrupted \subseteq 1..Len(daily')
    BY <2>2 DEF IInv, TypeOK
  <2>5. work'.at \notin {"agent", "count", "full"}
    BY <1>3
  <2> QED BY <1>1, <2>1, <2>3, <2>4, <2>5 DEF IInv, TypeOK
<1>9. Current' = {Len(daily')} /\ Current = {}
  BY <1>1, <1>3 DEF Current, Counting
<1>10. ASSUME NEW s \in 1..Len(daily), NEW c
       PROVE  /\ RowOnce(s, c) => RowOnce(s, c)'
              /\ RowTrue(s, c) => RowTrue(s, c)'
              /\ RowMade(s, c) => RowMade(s, c)'
  <2>1. RowsOf(s, c)' = RowsOf(s, c)
    BY <1>1 DEF RowsOf
  <2>2. OfDay(s, c)' = OfDay(s, c)
    BY <1>1, <1>6 DEF OfDay, WithCommand, OfUser, Of
  <2> QED BY <1>1, <2>1, <2>2 DEF RowOnce, RowTrue, RowMade
<1>11. UserTable'
  <2>1. \A s, r \in 1..Len(daily') : daily'[s] = daily'[r] => s = r
    BY <1>5, <1>7 DEF IInv, UserTable
  <2>2. ASSUME NEW s \in (1..Len(daily')) \ (interrupted' \cup Current'), NEW c \in Commands \cup {NoCommand}
        PROVE  RowOnce(s, c)' /\ RowTrue(s, c)' /\ RowMade(s, c)'
    <3>1. s \in (1..Len(daily)) \ (interrupted \cup Current)
      BY <1>1, <1>6, <1>7, <1>9
    <3>2. RowOnce(s, c) /\ RowTrue(s, c) /\ RowMade(s, c)
      BY <3>1 DEF IInv, UserTable
    <3> QED BY <1>10, <3>1, <3>2
  <2>3. counted' \in Seq(CountedRow)
    BY <1>1 DEF IInv, UserTable
  <2> QED BY <1>6, <2>1, <2>2, <2>3 DEF UserTable
<1>12. UserWork'
  <2>1. /\ Len(daily') # 0
        /\ daily'[Len(daily')] = [agent |-> work'.agent, user |-> work'.user, date |-> work'.statistic]
    <3>1. Len(daily') # 0 /\ daily'[Len(daily')] = row
      BY <1>6
    <3> QED BY <1>2, <1>3, <3>1
  <2>2. \A i \in 1..Len(counted) : counted[i].statistic # Len(daily')
    <3>1. \A i \in 1..Len(counted) : counted[i].statistic \in 1..Len(daily)
      BY DEF IInv, TypeOK
    <3> QED BY <1>6, <3>1
  <2>3. \A e \in work'.dates, s \in 1..Len(daily') :
           daily'[s] # [agent |-> work'.agent, user |-> work'.user, date |-> e]
    <3>1. ASSUME NEW e \in work.dates \ {d}, NEW s \in 1..Len(daily')
          PROVE  daily'[s] # [agent |-> work.agent, user |-> work.user, date |-> e]
      <4>1. row # [agent |-> work.agent, user |-> work.user, date |-> e]
        BY <1>2, <3>1
      <4> QED BY <1>4, <1>7, <4>1
    <3> QED BY <1>3, <3>1
  <2>4. /\ work'.at = "commands of user" /\ work'.agent \in agents' /\ work'.toVisit \subseteq agents'
        /\ work'.users \subseteq Users /\ work'.user \in Users /\ work'.dates \subseteq dates'
        /\ counted' = counted
    BY <1>1, <1>3, <1>4
  <2>5. work' = [at |-> work'.at, today |-> work'.today, toVisit |-> work'.toVisit, users |-> work'.users,
                   dates |-> work'.dates, agent |-> work'.agent, user |-> work'.user,
                   statistic |-> work'.statistic, commands |-> work'.commands]
    BY <1>3
  <2> QED BY <2>1, <2>2, <2>3, <2>4, <2>5 DEF UserWork, InUsers, OnDay, Counting
<1>13. SystemTable' /\ SystemWork' /\ CallOK' /\ WorkAt'
  <2>1. SystemTable'
    BY <1>1 DEF IInv, SystemTable, RowsOnce, Truthful, Of, WithCommand
  <2> QED BY <1>1, <1>3, <2>1 DEF IInv, SystemWork, CallOK, WorkAt, InSystem, InUsers
<1> QED BY <1>1, <1>8, <1>11, <1>12, <1>13 DEF IInv

\* The commands of the day are read: each of them has an entry, and no row yet.
LEMMA InvGetCommands == IInv /\ GetCommandsIdsFromLogs => IInv'
<1> SUFFICES ASSUME IInv, GetCommandsIdsFromLogs PROVE IInv'
  OBVIOUS
<1>1. /\ UNCHANGED <<tables, bounds, hist, call>> /\ work.at = "commands of user"
  BY DEF GetCommandsIdsFromLogs, Analyzer, hist
<1>2. UNCHANGED <<dates, agents, names, logs, system, daily, counted, late>>
  BY <1>1 DEF tables, names3, hist
<1>3. PICK C : /\ C = {l.command : l \in OfUser(work.agent, work.user, work.statistic)}
               /\ work' = [work EXCEPT !.at = "statistic", !.commands = C]
  BY DEF GetCommandsIdsFromLogs
<1>4. work' = [at |-> "statistic", today |-> work.today, toVisit |-> work.toVisit, users |-> work.users,
               dates |-> work.dates, agent |-> work.agent, user |-> work.user,
               statistic |-> work.statistic, commands |-> C]
  BY <1>1, <1>3 DEF IInv, UserWork, InUsers
<1>5. Current' = Current /\ Current = {Len(daily)}
  BY <1>1, <1>2, <1>4 DEF Current, Counting
<1>6. ASSUME NEW s \in Current
      PROVE  /\ \A c : OfDay(s, c) = WithCommand(OfUser(work.agent, work.user, work.statistic), c)
             /\ \A c : RowsOf(s, c) = {}
  <2>1. s = Len(daily) /\ daily[s] = [agent |-> work.agent, user |-> work.user, date |-> work.statistic]
    BY <1>1, <1>5 DEF IInv, UserWork, Counting
  <2>2. \A c : OfDay(s, c) = WithCommand(OfUser(work.agent, work.user, work.statistic), c)
    BY <2>1 DEF OfDay
  <2>3. \A c : RowsOf(s, c) = {}
    BY <1>1, <2>1 DEF RowsOf, IInv, UserWork
  <2> QED BY <2>2, <2>3
<1>7. ASSUME NEW s \in Current, NEW c
      PROVE  /\ RowsOf(s, c)' = {} /\ RowOnce(s, c)' /\ RowTrue(s, c)'
             /\ c \in C => OfDay(s, c)' # {}
             /\ c \notin C => RowMade(s, c)'
  <2>1. RowsOf(s, c)' = {} /\ OfDay(s, c)' = OfDay(s, c)
    BY <1>2, <1>6, CountsStay
  <2>2. c \in C => OfDay(s, c) # {}
    BY <1>3, <1>6 DEF WithCommand
  <2>3. c \notin C => OfDay(s, c) = {}
    BY <1>3, <1>6 DEF WithCommand
  <2> QED BY <2>1, <2>2, <2>3 DEF RowOnce, RowTrue, RowMade
<1>8. C \subseteq names \cup {NoCommand}
  BY <1>3 DEF OfUser, Of, IInv, TypeOK
<1>9. UserWork'
  <2>1. /\ work.toVisit \subseteq agents /\ work.users \subseteq Users
        /\ work.agent \in agents /\ work.user \in Users /\ work.dates \subseteq dates
        /\ \A d \in work.dates, s \in 1..Len(daily) :
             daily[s] # [agent |-> work.agent, user |-> work.user, date |-> d]
        /\ Len(daily) # 0
        /\ daily[Len(daily)] = [agent |-> work.agent, user |-> work.user, date |-> work.statistic]
    BY <1>1 DEF IInv, UserWork, InUsers, OnDay, Counting
  <2>2. /\ \A s \in Current', c \in work'.commands : RowsOf(s, c)' = {} /\ OfDay(s, c)' # {}
        /\ \A s \in Current', c \in Commands \cup {NoCommand} :
             /\ RowOnce(s, c)' /\ RowTrue(s, c)'
             /\ c \notin work'.commands => RowMade(s, c)'
    BY <1>4, <1>5, <1>7
  <2> QED BY <1>2, <1>4, <1>8, <2>1, <2>2 DEF UserWork, InUsers, OnDay, Counting
<1>10. WorkAt' /\ SystemWork'
  BY <1>4 DEF WorkAt, SystemWork, InSystem, InUsers
<1> QED BY <1>1, <1>5, <1>9, <1>10, OnlyWork

\* One row is added, of a command that has none, with a count that is true now.
LEMMA InvAddRow == IInv /\ AddDailyUserCommandStatistic => IInv'
<1> SUFFICES ASSUME IInv, AddDailyUserCommandStatistic PROVE IInv'
  OBVIOUS
<1>1. /\ UNCHANGED <<dates, agents, names, logs, system, daily, day, sent, late, interrupted, call>>
      /\ work.at = "statistic" /\ work.commands # {}
  BY DEF AddDailyUserCommandStatistic, Analyzer, names3, bounds
<1>2. /\ StatisticId = Len(daily) /\ Len(daily) \in Nat /\ Len(daily) \in 1..Len(daily)
      /\ Current = {Len(daily)}
  BY <1>1, LastStatistic DEF Counting, Current
<1>3. PICK k : k = Len(daily) /\ k \in 1..Len(daily) /\ Current = {k} /\ StatisticId = k
  BY <1>2
<1>4. \A c : OfDay(k, c) = WithCommand(OfUser(work.agent, work.user, work.statistic), c)
  <2>1. daily[k] = [agent |-> work.agent, user |-> work.user, date |-> work.statistic]
    BY <1>1, <1>3 DEF IInv, UserWork, Counting
  <2> QED BY <2>1 DEF OfDay
<1>5. PICK c \in work.commands :
        /\ counted' = Append(counted, [statistic |-> k, command |-> c, summary |-> Cardinality(OfDay(k, c))])
        /\ work' = [work EXCEPT !.commands = work.commands \ {c}]
  BY <1>1, <1>3, <1>4 DEF AddDailyUserCommandStatistic
<1>6. PICK row : /\ row = [statistic |-> k, command |-> c, summary |-> Cardinality(OfDay(k, c))]
                 /\ counted' = Append(counted, row)
  BY <1>5
<1>7. work' = [at |-> "statistic", today |-> work.today, toVisit |-> work.toVisit, users |-> work.users,
               dates |-> work.dates, agent |-> work.agent, user |-> work.user,
               statistic |-> work.statistic, commands |-> work.commands \ {c}]
  BY <1>1, <1>5 DEF IInv, UserWork, InUsers
<1>8. Current' = Current
  BY <1>1, <1>7 DEF Current
<1>9. /\ c \in names \cup {NoCommand} /\ OfDay(k, c) # {} /\ RowsOf(k, c) = {}
      /\ work.commands \subseteq Commands \cup {NoCommand} /\ work.commands \subseteq names \cup {NoCommand}
  BY <1>1, <1>3 DEF IInv, UserWork, TypeOK
<1>10. /\ OfDay(k, c) \subseteq logs /\ IsFiniteSet(OfDay(k, c)) /\ Cardinality(OfDay(k, c)) \in 1..Cardinality(logs)
       /\ Cardinality(OfDay(k, c) \ late) <= Cardinality(OfDay(k, c))
  <2>1. OfDay(k, c) \subseteq logs
    BY DEF OfDay, WithCommand, OfUser, Of
  <2>2. /\ IsFiniteSet(OfDay(k, c)) /\ Cardinality(OfDay(k, c)) \in Nat
        /\ Cardinality(OfDay(k, c)) <= Cardinality(logs) /\ Cardinality(logs) \in Nat
    BY <2>1, SomeLogs, FS_CardinalityType DEF IInv
  <2>3. Cardinality(OfDay(k, c)) # 0
    BY <1>9, <2>2, FS_EmptySet
  <2>4. Cardinality(OfDay(k, c) \ late) <= Cardinality(OfDay(k, c))
    BY <2>2, SmallerSet
  <2>5. \A m, n \in Nat : m # 0 /\ m <= n => m \in 1..n
    OBVIOUS
  <2> QED BY <2>1, <2>2, <2>3, <2>4, <2>5
<1>11. row.statistic = k /\ row.command = c /\ row.summary = Cardinality(OfDay(k, c))
  BY <1>6
<1>12. row \in [statistic : 1..Len(daily), command : names \cup {NoCommand}, summary : 1..Cardinality(logs)]
  BY <1>3, <1>6, <1>9, <1>10
<1>13. row \in CountedRow
  <2>1. 1..Len(daily) \subseteq Nat /\ 1..Cardinality(logs) \subseteq Nat /\ names \subseteq Commands
    BY <1>2, FS_CardinalityType DEF IInv, TypeOK
  <2> QED BY <1>12, <2>1 DEF CountedRow
<1>14. /\ Len(counted) \in Nat /\ counted' \in Seq(CountedRow) /\ Len(counted') = Len(counted) + 1
       /\ counted'[Len(counted) + 1] = row /\ \A i \in 1..Len(counted) : counted'[i] = counted[i]
  BY <1>6, <1>13, LenProperties, AppendProperties DEF IInv, UserTable
<1>15. ASSUME NEW i \in 1..Len(counted')
       PROVE  \/ i \in 1..Len(counted) /\ counted'[i] = counted[i]
              \/ i = Len(counted') /\ counted'[i] = row
  <2>1. i \in 1..Len(counted) \/ i = Len(counted) + 1
    BY <1>14
  <2> QED BY <1>14, <2>1
<1>16. TypeOK'
  <2>1. \A i \in 1..Len(counted') :
          counted'[i] \in [statistic : 1..Len(daily), command : names \cup {NoCommand}, summary : 1..Cardinality(logs)]
    BY <1>12, <1>15 DEF IInv, TypeOK
  <2>2. work'.at \notin {"agent", "count", "full"}
    BY <1>7
  <2> QED BY <1>1, <2>1, <2>2 DEF IInv, TypeOK
<1>17. ASSUME NEW s, NEW e
       PROVE  /\ OfDay(s, e)' = OfDay(s, e)
              /\ s = k /\ e = c => RowsOf(s, e)' = {Len(counted')}
              /\ ~ (s = k /\ e = c) => RowsOf(s, e)' = RowsOf(s, e)
  <2>1. OfDay(s, e)' = OfDay(s, e)
    BY <1>1 DEF OfDay, WithCommand, OfUser, Of
  <2>2. Len(counted') \in 1..Len(counted') /\ counted'[Len(counted')] = row
    BY <1>14
  <2>3. 1..Len(counted) \subseteq 1..Len(counted')
    BY <1>14
  <2>4. RowsOf(s, e)' = {i \in 1..Len(counted') : counted'[i].statistic = s /\ counted'[i].command = e}
    BY DEF RowsOf
  <2>5. ASSUME s = k, e = c PROVE RowsOf(s, e)' = {Len(counted')}
    <3>1. \A i \in 1..Len(counted) : ~ (counted[i].statistic = k /\ counted[i].command = c)
      BY <1>9 DEF RowsOf
    <3> QED BY <1>11, <1>15, <2>2, <2>4, <2>5, <3>1
  <2>6. ASSUME ~ (s = k /\ e = c) PROVE RowsOf(s, e)' = RowsOf(s, e)
    <3>1. \A i \in RowsOf(s, e)' : i \in RowsOf(s, e)
      BY <1>11, <1>15, <2>4, <2>6 DEF RowsOf
    <3>2. \A i \in RowsOf(s, e) : i \in RowsOf(s, e)'
      BY <1>14, <2>3, <2>4 DEF RowsOf
    <3> QED BY <3>1, <3>2
  <2> QED BY <2>1, <2>5, <2>6
<1>18. ASSUME NEW s, NEW e, ~ (s = k /\ e = c)
       PROVE  /\ RowOnce(s, e) => RowOnce(s, e)'
              /\ RowTrue(s, e) => RowTrue(s, e)'
              /\ RowMade(s, e) => RowMade(s, e)'
  <2>1. RowsOf(s, e)' = RowsOf(s, e) /\ OfDay(s, e)' = OfDay(s, e) /\ late' = late
    BY <1>1, <1>17, <1>18
  <2>2. \A i \in RowsOf(s, e) : counted'[i] = counted[i]
    BY <1>14 DEF RowsOf
  <2> QED BY <2>1, <2>2 DEF RowOnce, RowTrue, RowMade
<1>19. RowOnce(k, c)' /\ RowTrue(k, c)' /\ RowMade(k, c)'
  <2>1. RowsOf(k, c)' = {Len(counted')} /\ OfDay(k, c)' = OfDay(k, c) /\ late' = late
    BY <1>1, <1>17
  <2>2. counted'[Len(counted')].summary = Cardinality(OfDay(k, c))
    BY <1>11, <1>14
  <2>3. Cardinality(OfDay(k, c)) <= Cardinality(OfDay(k, c))
    BY <1>10
  <2>4. \A i \in RowsOf(k, c)' : counted'[i].summary = Cardinality(OfDay(k, c))
    BY <2>1, <2>2
  <2>5. RowTrue(k, c)'
    BY <1>10, <2>1, <2>3, <2>4 DEF RowTrue
  <2> QED BY <2>1, <2>5 DEF RowOnce, RowMade
<1>20. UserTable'
  <2>1. ASSUME NEW s \in (1..Len(daily)) \ (interrupted \cup Current), NEW e \in Commands \cup {NoCommand}
        PROVE  RowOnce(s, e)' /\ RowTrue(s, e)' /\ RowMade(s, e)'
    <3>1. s # k
      BY <1>3
    <3>2. RowOnce(s, e) /\ RowTrue(s, e) /\ RowMade(s, e)
      BY DEF IInv, UserTable
    <3> QED BY <1>18, <3>1, <3>2
  <2> QED BY <1>1, <1>8, <1>14, <2>1 DEF IInv, UserTable
<1>21. UserWork'
  <2>1. /\ work.toVisit \subseteq agents /\ work.users \subseteq Users
        /\ work.agent \in agents /\ work.user \in Users /\ work.dates \subseteq dates
        /\ \A d \in work.dates, s \in 1..Len(daily) :
             daily[s] # [agent |-> work.agent, user |-> work.user, date |-> d]
        /\ Len(daily) # 0
        /\ daily[Len(daily)] = [agent |-> work.agent, user |-> work.user, date |-> work.statistic]
    BY <1>1 DEF IInv, UserWork, InUsers, OnDay, Counting
  <2>2. ASSUME NEW e \in work.commands \ {c} PROVE RowsOf(k, e)' = {} /\ OfDay(k, e)' # {}
    <3>1. RowsOf(k, e) = {} /\ OfDay(k, e) # {}
      BY <1>1, <1>3 DEF IInv, UserWork
    <3> QED BY <1>17, <3>1
  <2>3. ASSUME NEW e \in Commands \cup {NoCommand}
        PROVE  /\ RowOnce(k, e)' /\ RowTrue(k, e)'
               /\ e \notin work.commands \ {c} => RowMade(k, e)'
    <3>1. CASE e = c
      BY <1>19, <3>1
    <3>2. CASE e # c
      <4>1. RowOnce(k, e) /\ RowTrue(k, e) /\ (e \notin work.commands => RowMade(k, e))
        BY <1>1, <1>3 DEF IInv, UserWork
      <4> QED BY <1>18, <3>2, <4>1
    <3> QED BY <3>1, <3>2
  <2>4. /\ work'.at = "statistic" /\ work'.agent = work.agent /\ work'.toVisit = work.toVisit
        /\ work'.users = work.users /\ work'.user = work.user /\ work'.dates = work.dates
        /\ work'.statistic = work.statistic /\ work'.commands = work.commands \ {c}
    BY <1>7
  <2>5. work' = [at |-> work'.at, today |-> work'.today, toVisit |-> work'.toVisit, users |-> work'.users,
                 dates |-> work'.dates, agent |-> work'.agent, user |-> work'.user,
                 statistic |-> work'.statistic, commands |-> work'.commands]
    BY <1>7
  <2>6. Current' = {k} /\ work'.commands \subseteq names \cup {NoCommand}
    BY <1>3, <1>8, <1>9, <2>4
  <2>7. /\ \A s \in Current', e \in work'.commands : RowsOf(s, e)' = {} /\ OfDay(s, e)' # {}
        /\ \A s \in Current', e \in Commands \cup {NoCommand} :
             /\ RowOnce(s, e)' /\ RowTrue(s, e)'
             /\ e \notin work'.commands => RowMade(s, e)'
    BY <2>2, <2>3, <2>4, <2>6
  <2> QED BY <1>1, <2>1, <2>4, <2>5, <2>6, <2>7 DEF UserWork, InUsers, OnDay, Counting
<1>22. SystemTable' /\ SystemWork' /\ CallOK' /\ WorkAt'
  <2>1. SystemTable'
    BY <1>1 DEF IInv, SystemTable, RowsOnce, Truthful, Of, WithCommand
  <2> QED BY <1>1, <1>7, <2>1 DEF IInv, SystemWork, CallOK, WorkAt, InSystem, InUsers
<1> QED BY <1>1, <1>16, <1>20, <1>21, <1>22 DEF IInv

\* The rows of the statistic are complete: it is like the others from now on.
LEMMA InvStatisticDone == IInv /\ StatisticDone => IInv'
<1> SUFFICES ASSUME IInv, StatisticDone PROVE IInv'
  OBVIOUS
<1>1. /\ UNCHANGED <<dates, agents, names, logs, system, daily, counted, day, sent, late, interrupted, call>>
      /\ work.at = "statistic" /\ work.commands = {} /\ work' = [work EXCEPT !.at = "dates"]
  BY DEF StatisticDone, Analyzer, tables, names3, bounds
<1>2. work' = [at |-> "dates", today |-> work.today, toVisit |-> work.toVisit, users |-> work.users,
               dates |-> work.dates, agent |-> work.agent, user |-> work.user,
               statistic |-> work.statistic, commands |-> work.commands]
  BY <1>1 DEF IInv, UserWork, InUsers
<1>3. UserTable'
  <2>1. ASSUME NEW s \in (1..Len(daily)) \ (interrupted \cup Current'), NEW c \in Commands \cup {NoCommand}
        PROVE  RowOnce(s, c)' /\ RowTrue(s, c)' /\ RowMade(s, c)'
    <3>1. CASE s \in Current
      <4>1. RowOnce(s, c) /\ RowTrue(s, c) /\ RowMade(s, c)
        BY <1>1, <3>1 DEF IInv, UserWork
      <4> QED BY <1>1, <4>1, CountsStay
    <3>2. CASE s \notin Current
      <4>1. RowOnce(s, c) /\ RowTrue(s, c) /\ RowMade(s, c)
        BY <3>2 DEF IInv, UserTable
      <4> QED BY <1>1, <4>1, CountsStay
    <3> QED BY <3>1, <3>2
  <2> QED BY <1>1, <2>1 DEF IInv, UserTable
<1>4. UserWork'
  BY <1>1, <1>2 DEF IInv, UserWork, InUsers, OnDay, Counting
<1>5. TypeOK'
  BY <1>1, <1>2 DEF IInv, TypeOK
<1>6. SystemTable' /\ SystemWork' /\ CallOK' /\ WorkAt'
  <2>1. SystemTable'
    BY <1>1 DEF IInv, SystemTable, RowsOnce, Truthful, Of, WithCommand
  <2> QED BY <1>1, <1>2, <2>1 DEF IInv, SystemWork, CallOK, WorkAt, InSystem, InUsers
<1> QED BY <1>1, <1>3, <1>4, <1>5, <1>6 DEF IInv

\* A statistic whose rows are not all there is interrupted for good; a buffer is lost.
LEMMA InvCrash == IInv /\ Crash => IInv'
<1> SUFFICES ASSUME IInv, Crash PROVE IInv'
  OBVIOUS
<1>1. /\ UNCHANGED <<dates, agents, names, logs, system, daily, counted, day, sent, late>>
      /\ call' = NoCall /\ work' = NoWork /\ interrupted' = interrupted \cup BeingCounted
  BY DEF Crash, tables, names3
<1>2. /\ BeingCounted \subseteq Current /\ Current \subseteq 1..Len(daily)
      /\ Current # {} /\ BeingCounted = {} => work.at = "statistic" /\ work.commands = {}
      /\ BeingCounted = {} \/ BeingCounted = Current
  <2>1. CASE work.at \in Counting
    <3>1. StatisticId = Len(daily) /\ Len(daily) \in 1..Len(daily)
      BY <2>1, LastStatistic
    <3>2. Current = {Len(daily)}
      BY <2>1 DEF Current
    <3>3. BeingCounted = IF work.at = "statistic" /\ work.commands = {} THEN {} ELSE {Len(daily)}
      BY <2>1, <3>1 DEF BeingCounted, Counting
    <3> QED BY <3>1, <3>2, <3>3
  <2>2. CASE work.at \notin Counting
    <3>1. BeingCounted = {} /\ Current = {}
      BY <2>2 DEF BeingCounted, Current, Counting
    <3> QED BY <3>1
  <2> QED BY <2>1, <2>2
<1>3. Current' = {}
  BY <1>1 DEF Current, Counting, NoWork
<1>4. UserTable'
  <2>1. ASSUME NEW s \in (1..Len(daily)) \ interrupted', NEW c \in Commands \cup {NoCommand}
        PROVE  RowOnce(s, c)' /\ RowTrue(s, c)' /\ RowMade(s, c)'
    <3>1. CASE s \in Current
      <4>1. work.at = "statistic" /\ work.commands = {}
        BY <1>1, <1>2, <3>1
      <4>2. RowOnce(s, c) /\ RowTrue(s, c) /\ RowMade(s, c)
        BY <3>1, <4>1 DEF IInv, UserWork
      <4> QED BY <1>1, <4>2, CountsStay
    <3>2. CASE s \notin Current
      <4>1. RowOnce(s, c) /\ RowTrue(s, c) /\ RowMade(s, c)
        BY <1>1, <3>2 DEF IInv, UserTable
      <4> QED BY <1>1, <4>1, CountsStay
    <3> QED BY <3>1, <3>2
  <2> QED BY <1>1, <1>3, <2>1 DEF IInv, UserTable
<1>5. TypeOK'
  BY <1>1, <1>2 DEF IInv, TypeOK, NoWork
<1>6. SystemTable'
  BY <1>1 DEF IInv, SystemTable, RowsOnce, Truthful, Of, WithCommand
<1>7. UserWork' /\ SystemWork' /\ CallOK' /\ WorkAt'
  BY <1>1 DEF UserWork, SystemWork, CallOK, WorkAt, InSystem, InUsers, OnDay, Counting, NoCall, NoWork
<1> QED BY <1>1, <1>4, <1>5, <1>6, <1>7 DEF IInv

-----------------------------------------------------------------------------
LEMMA Inductive == IInv /\ [Next]_vars => IInv'
<1> SUFFICES ASSUME IInv, [Next]_vars PROVE IInv'
  OBVIOUS
<1>1. CASE UNCHANGED vars
  <2>1. UNCHANGED <<tables, bounds, hist, call>>
    BY <1>1 DEF vars
  <2>2. UNCHANGED <<dates, agents, names, logs, system, daily, counted, late, work>>
    BY <1>1 DEF vars, tables, names3, hist
  <2>3. Current' = Current /\ WorkAt'
    BY <2>2 DEF Current, IInv, WorkAt
  <2>4. SystemWork'
    BY <2>2 DEF IInv, SystemWork, RowsOnce, SameKey, NoRowYet, Truthful, Of, WithCommand
  <2>5. UserWork'
    <3>1. work.at = "statistic" =>
            /\ \A s \in Current, c \in work.commands : RowsOf(s, c)' = {} /\ OfDay(s, c)' # {}
            /\ \A s \in Current, c \in Commands \cup {NoCommand} :
                 /\ RowOnce(s, c)' /\ RowTrue(s, c)'
                 /\ c \notin work.commands => RowMade(s, c)'
      BY <2>2, CountsStay DEF IInv, UserWork
    <3> QED BY <2>2, <2>3, <3>1 DEF IInv, UserWork
  <2> QED BY <2>1, <2>3, <2>4, <2>5, OnlyWork
<1>2. CASE NextDay \/ MainThread
  BY <1>2, InvNames, InvAddLog DEF MainThread
<1>3. CASE SystemStatistics
  BY <1>3, InvAnalyze, InvChooseAgent, InvCountCommands, InvAddRows DEF SystemStatistics
<1>4. CASE UserStatistics
  BY <1>4, InvGetAgentsIds, InvChooseUser, InvAddStatistic, InvGetCommands, InvAddRow, InvStatisticDone
     DEF UserStatistics
<1>5. CASE Crash
  BY <1>5, InvCrash
<1> QED BY <1>1, <1>2, <1>3, <1>4, <1>5 DEF Next

\* What is in the tables, in the buffer and in the statistic being written agrees in every
\* state with the rows of logs.
THEOREM Invariance == Spec => []IInv
BY InitInv, Inductive, PTL DEF Spec

\* The tables keep their types and the buffer its size, for any number of entries, days
\* and crashes.
THEOREM TypeCorrect == Spec => []TypeOK
<1>1. IInv => TypeOK
  BY DEF IInv
<1> QED BY <1>1, Invariance, PTL

\* A day and a command of an agent are counted once by CreateDailySystemStatistics,
\* whatever the size of the buffer and wherever the process ends.
THEOREM SystemRowsAreOnce == Spec => []SystemRowsOnce
BY SystemRowsFollow, Invariance, PTL

\* The statistic of a user accounts for every entry that was there when it was made,
\* unless the process ended while its rows were written.
THEOREM UserRowsAreAccounted == Spec => []UserRowsAccount
BY UserRowsFollow, Invariance, PTL
=============================================================================
