--------------------------- MODULE BashStatistics ---------------------------
(***************************************************************************)
(* Commands of the shell users of the agents, and what is counted of them. *)
(* The main thread adds an entry statement by statement (Scripts::AddLog); *)
(* the analyzer thread writes the daily statistics of each agent           *)
(* (Scripts::CreateDailySystemStatistics) and of each user                 *)
(* (DailyUserStatisticsCreator).  A row is written once and never brought  *)
(* up to date, so what matters is which entries a row misses and why.      *)
(* Each step is one statement with the local work after it.                *)
(*                                                                         *)
(* A date is a number and is its own DATE_TABLE id; agents, users and      *)
(* commands stand for their ids.  The times and the users have tables of   *)
(* their own that no statement here reads but to find the id of a row just *)
(* added: AddTime and AddSystemUser are left out.                          *)
(***************************************************************************)
EXTENDS Integers, Sequences, FiniteSets

CONSTANTS
    Entries,      \* calls of AddLogEntry: [agent, user, command, white]
    Agents, Users, Commands,
    NoCommand,    \* the id (-1) of a command that is not in BASH_COMMAND_TABLE
    Offsets,      \* local date of the server less the UTC date the agents send
    BufferSize,   \* capacity of statistics (1000 in the code)
    MaxDay,       \* bound: days that pass
    MaxAnalyses,  \* bound: runs of Analyze
    MaxCrashes    \* bound: ends of the process

NoDate == -1      \* GetDateId of a date that is not in DATE_TABLE
NoCall == [at |-> "none"]
NoWork == [at |-> "idle"]

ASSUME StatisticsAssumption ==
    /\ Entries \subseteq [agent : Agents, user : Users, command : Commands, white : BOOLEAN]
    /\ NoCommand \notin Commands
    /\ Offsets \subseteq Int /\ BufferSize \in Nat \ {0}
    /\ MaxDay \in Nat \ {0} /\ MaxAnalyses \in Nat /\ MaxCrashes \in Nat

VARIABLES
    day,          \* the UTC date
    sent,         \* entries sent so far
    call,         \* the call the main thread works on: [at, entry, date]
    dates, agents, names, \* DATE_TABLE, AGENT_NAMES, BASH_COMMAND_TABLE
    logs,         \* BASH_LOGS_TABLE: [agent, user, date, command, id]
    system,       \* BASH_DAILY_STATISTICS_TABLE, in the order of the ids
    daily,        \* BASH_DAILY_USER_STATISTICS_TABLE, in the order of the ids
    counted,      \* BASH_DAILY_USER_COMMAND_STATISTICS_TABLE, likewise
    work,         \* what the analyzer does next, and its local variables
    analyses, crashes,
    late,         \* history: rows of logs added when their day had its statistic
    interrupted   \* history: statistics left without some of their commands

names3 == <<dates, agents, names>>
tables == <<names3, logs, system, daily, counted>>
bounds == <<day, sent, analyses, crashes>>
hist == <<late, interrupted>>
vars == <<tables, bounds, hist, call, work>>

Of(a, d) == {l \in logs : l.agent = a /\ l.date = d}
OfUser(a, u, d) == {l \in Of(a, d) : l.user = u}
WithCommand(S, c) == {l \in S : l.command = c}

Init ==
    /\ day = 1 /\ sent = {} /\ analyses = 0 /\ crashes = 0
    /\ dates = {} /\ agents = {} /\ names = {} /\ logs = {}
    /\ system = <<>> /\ daily = <<>> /\ counted = <<>>
    /\ call = NoCall /\ work = NoWork
    /\ late = {} /\ interrupted = {}

NextDay ==
    /\ day < MaxDay
    /\ day' = day + 1
    /\ UNCHANGED <<tables, hist, call, work, sent, analyses, crashes>>

-----------------------------------------------------------------------------
(* The main thread.  An entry may come a day late: it waits in the list of *)
(* the agent and in the connection to the bus.                             *)

Receive ==
    /\ call = NoCall
    /\ \E e \in Entries \ sent, d \in {day - 1, day} \cap 1..MaxDay :
         /\ call' = [at |-> "date", entry |-> e, date |-> d]
         /\ sent' = sent \cup {e}
    /\ UNCHANGED <<tables, hist, work, day, analyses, crashes>>

AddDate ==
    /\ call.at = "date"
    /\ dates' = dates \cup {call.date}
    /\ call' = [call EXCEPT !.at = "agent"]
    /\ UNCHANGED <<agents, names, logs, system, daily, counted, bounds, hist, work>>

AddAgentName ==
    /\ call.at = "agent"
    /\ agents' = agents \cup {call.entry.agent}
    /\ call' = [call EXCEPT !.at = "command"]
    /\ UNCHANGED <<dates, names, logs, system, daily, counted, bounds, hist, work>>

\* The name without its white space is added.
AddCommand ==
    /\ call.at = "command"
    /\ names' = names \cup {call.entry.command}
    /\ call' = [call EXCEPT !.at = "log"]
    /\ UNCHANGED <<dates, agents, logs, system, daily, counted, bounds, hist, work>>

\* The name as it was sent is looked up: with white space it is not there.
CommandId(e) == IF e.white \/ e.command \notin names THEN NoCommand ELSE e.command

AddLog ==
    /\ call.at = "log"
    /\ LET e == call.entry
           row == [agent |-> e.agent, user |-> e.user, date |-> call.date,
                   command |-> CommandId(e), id |-> Cardinality(logs) + 1]
       IN /\ logs' = logs \cup {row}
          /\ late' = IF \E s \in 1..Len(daily) :
                           daily[s] = [agent |-> e.agent, user |-> e.user, date |-> call.date]
                     THEN late \cup {row} ELSE late
    /\ call' = NoCall
    /\ UNCHANGED <<names3, system, daily, counted, bounds, interrupted, work>>

-----------------------------------------------------------------------------
(* The analyzer thread, Analyze of BashAnalyzerObject up to the training.  *)

Analyzer == UNCHANGED <<bounds, call, late, interrupted>>

Analyze ==
    /\ work = NoWork
    /\ analyses < MaxAnalyses
    /\ analyses' = analyses + 1
    /\ \E o \in Offsets :
         work' = [at |-> "commands", today |-> day + o, toVisit |-> agents]
    /\ UNCHANGED <<tables, hist, call, day, sent, crashes>>

GetAllCommandsIds ==
    /\ work.at = "commands"
    /\ work' = [at |-> "agent", today |-> work.today, toVisit |-> work.toVisit,
                commands |-> names, buffer |-> <<>>, agent |-> NoCommand, pairs |-> {}]
    /\ UNCHANGED tables /\ Analyzer

\* A defect: a join that forgets "is null".
EveryDate(a) == dates

\* The left join: the days of the table, of logs or not, today or not,
\* without a row of this agent.
DatesWithoutStatistic(a) ==
    {d \in dates : ~ \E i \in 1..Len(system) : system[i].agent = a /\ system[i].date = d}

NextAgent ==
    /\ work.at = "agent" /\ work.toVisit # {}
    /\ LET a == CHOOSE x \in work.toVisit : TRUE
       IN work' = [work EXCEPT !.at = "count", !.agent = a, !.toVisit = @ \ {a},
                               !.pairs = DatesWithoutStatistic(a) \X work.commands]
    /\ UNCHANGED tables /\ Analyzer

CountCommands ==
    /\ work.at = "count" /\ work.pairs # {}
    /\ LET p == CHOOSE x \in work.pairs : TRUE
           row == [agent |-> work.agent, date |-> p[1], command |-> p[2],
                   summary |-> Cardinality(WithCommand(Of(work.agent, p[1]), p[2]))]
       IN work' = [work EXCEPT !.pairs = @ \ {p}, !.buffer = Append(@, row),
                               !.at = IF Len(work.buffer) + 1 = BufferSize THEN "full" ELSE "count"]
    /\ UNCHANGED tables /\ Analyzer

AgentDone ==
    /\ work.at = "count" /\ work.pairs = {}
    /\ work' = [work EXCEPT !.at = "agent"]
    /\ UNCHANGED tables /\ Analyzer

\* AddDailySystemStatistics is one Exec, a transaction of its own.
AddFullBuffer ==
    /\ work.at = "full"
    /\ system' = system \o work.buffer
    /\ work' = [work EXCEPT !.at = "count", !.buffer = <<>>]
    /\ UNCHANGED <<names3, logs, daily, counted>> /\ Analyzer

AddRest ==
    /\ work.at = "agent" /\ work.toVisit = {}
    /\ system' = system \o work.buffer
    /\ work' = [at |-> "today", today |-> work.today]
    /\ UNCHANGED <<names3, logs, daily, counted>> /\ Analyzer

-----------------------------------------------------------------------------
(* CreateStatistics.                                                       *)

DateId(d) == IF d \in dates THEN d ELSE NoDate

GetDateId ==
    /\ work.at = "today"
    /\ work' = [at |-> "agents", today |-> DateId(work.today)]
    /\ UNCHANGED tables /\ Analyzer

GetAgentsIds ==
    /\ work.at = "agents"
    /\ work' = [at |-> "users", today |-> work.today, toVisit |-> agents, users |-> {}, dates |-> {},
                agent |-> NoCommand, user |-> NoCommand, statistic |-> 0, commands |-> {}]
    /\ UNCHANGED tables /\ Analyzer

GetSystemUsersIdsFromLogs ==
    /\ work.at = "users" /\ work.users = {} /\ work.toVisit # {}
    /\ LET a == CHOOSE x \in work.toVisit : TRUE
       IN work' = [work EXCEPT !.toVisit = @ \ {a}, !.agent = a,
                               !.users = {l.user : l \in {k \in logs : k.agent = a}}]
    /\ UNCHANGED tables /\ Analyzer

\* A defect: a join that forgets "is null".
AllDates(a, u) == {l.date : l \in {k \in logs : k.agent = a /\ k.user = u}}

\* The left join is on the user alone: days of a user who has a statistic,
\* of any day and any agent, are not among them.
NotCalculatedDates(a, u) ==
    {l.date : l \in {k \in logs : /\ k.agent = a /\ k.user = u
                                  /\ \A s \in 1..Len(daily) : daily[s].user # u}}

GetNotCalculatedDates ==
    /\ work.at = "users" /\ work.users # {}
    /\ LET u == CHOOSE x \in work.users : TRUE
       IN work' = [work EXCEPT !.at = "dates", !.users = @ \ {u}, !.user = u,
                               !.dates = NotCalculatedDates(work.agent, u) \ {work.today}]
    /\ UNCHANGED tables /\ Analyzer

AddDailyUserStatistic ==
    /\ work.at = "dates" /\ work.dates # {}
    /\ LET d == CHOOSE x \in work.dates : TRUE
       IN /\ daily' = Append(daily, [agent |-> work.agent, user |-> work.user, date |-> d])
          /\ work' = [work EXCEPT !.at = "commands of user", !.dates = @ \ {d}, !.statistic = d]
    /\ UNCHANGED <<names3, logs, system, counted>> /\ Analyzer

\* GetDailyUserStatisticId: the first row of the agent, the user and the day.
StatisticId ==
    CHOOSE s \in 1..Len(daily) :
        /\ daily[s] = [agent |-> work.agent, user |-> work.user, date |-> work.statistic]
        /\ \A r \in 1..(s - 1) : daily[r] # daily[s]

GetCommandsIdsFromLogs ==
    /\ work.at = "commands of user"
    /\ work' = [work EXCEPT !.at = "statistic", !.commands =
                  {l.command : l \in OfUser(work.agent, work.user, work.statistic)}]
    /\ UNCHANGED tables /\ Analyzer

\* The count and the insert are two statements; a row added to logs between
\* them changes neither.
AddDailyUserCommandStatistic ==
    /\ work.at = "statistic" /\ work.commands # {}
    /\ LET c == CHOOSE x \in work.commands : TRUE
           ofUser == OfUser(work.agent, work.user, work.statistic)
       IN /\ counted' = Append(counted, [statistic |-> StatisticId, command |-> c,
                                         summary |-> Cardinality(WithCommand(ofUser, c))])
          /\ work' = [work EXCEPT !.commands = @ \ {c}]
    /\ UNCHANGED <<names3, logs, system, daily>> /\ Analyzer

StatisticDone ==
    /\ work.at = "statistic" /\ work.commands = {}
    /\ work' = [work EXCEPT !.at = "dates"]
    /\ UNCHANGED tables /\ Analyzer

UserDone ==
    /\ work.at = "dates" /\ work.dates = {}
    /\ work' = [work EXCEPT !.at = "users"]
    /\ UNCHANGED tables /\ Analyzer

\* The training and the classification that follow write none of these tables.
CreateStatisticsEnds ==
    /\ work.at = "users" /\ work.users = {} /\ work.toVisit = {}
    /\ work' = NoWork
    /\ UNCHANGED tables /\ Analyzer

-----------------------------------------------------------------------------
(* The process ends between two statements, and starts again.              *)

BeingCounted ==
    IF work.at = "commands of user" \/ (work.at = "statistic" /\ work.commands # {})
    THEN {StatisticId} ELSE {}

Crash ==
    /\ crashes < MaxCrashes
    /\ crashes' = crashes + 1
    /\ call' = NoCall /\ work' = NoWork
    /\ interrupted' = interrupted \cup BeingCounted
    /\ UNCHANGED <<tables, day, sent, analyses, late>>

MainThread == Receive \/ AddDate \/ AddAgentName \/ AddCommand \/ AddLog
SystemStatistics ==
    \/ Analyze \/ GetAllCommandsIds \/ NextAgent \/ CountCommands \/ AgentDone
    \/ AddFullBuffer \/ AddRest
UserStatistics ==
    \/ GetDateId \/ GetAgentsIds \/ GetSystemUsersIdsFromLogs \/ GetNotCalculatedDates
    \/ AddDailyUserStatistic \/ GetCommandsIdsFromLogs \/ AddDailyUserCommandStatistic
    \/ StatisticDone \/ UserDone \/ CreateStatisticsEnds

Next == NextDay \/ MainThread \/ SystemStatistics \/ UserStatistics \/ Crash

Spec == Init /\ [][Next]_vars

-----------------------------------------------------------------------------
(* The variables have their types, the buffer of CreateDailySystemStatistics *)
(* never grows past the memory reserved for it, and the ids kept for a day   *)
(* are of tables that have them.                                             *)
TypeOK ==
    /\ day \in 1..MaxDay /\ sent \subseteq Entries
    /\ agents \subseteq Agents /\ names \subseteq Commands /\ dates \subseteq 1..MaxDay
    /\ logs \subseteq [agent : agents, user : Users, date : dates,
                       command : names \cup {NoCommand}, id : 1..Cardinality(logs)]
    /\ \A i \in 1..Len(system) :
         system[i] \in [agent : agents, date : dates, command : names, summary : 0..Cardinality(logs)]
    /\ \A s \in 1..Len(daily) : daily[s] \in [agent : agents, user : Users, date : dates]
    /\ \A i \in 1..Len(counted) :
         counted[i] \in [statistic : 1..Len(daily), command : names \cup {NoCommand},
                         summary : 1..Cardinality(logs)]
    /\ work.at \in {"agent", "count", "full"} => Len(work.buffer) <= BufferSize
    /\ late \subseteq logs /\ interrupted \subseteq 1..Len(daily)

(* The statistics of an agent (CreateDailySystemStatistics) have at most one *)
(* row for a day and a command, though a day may be cut in two by the size   *)
(* of the buffer, or by a crash after the first part was written; and no row *)
(* counts entries that are not there.                                        *)
SystemRowsOnce ==
    \A i \in 1..Len(system) :
        /\ system[i].summary <= Cardinality(WithCommand(Of(system[i].agent, system[i].date), system[i].command))
        /\ \A j \in 1..(i - 1) :
             <<system[i].agent, system[i].date, system[i].command>>
                # <<system[j].agent, system[j].date, system[j].command>>

(* The statistics of a user (DailyUserStatisticsCreator) account for every   *)
(* entry of the day: there is one statistic for an agent, a user and a day,  *)
(* with at most one row for a command, and the row counts all the entries    *)
(* but those that came when the statistic was there already, unless the      *)
(* process ended while its rows were being written.                          *)
UserRowsAccount ==
    /\ \A s, r \in 1..Len(daily) : daily[s] = daily[r] => s = r
    /\ \A s \in (1..Len(daily)) \ (interrupted \cup BeingCounted) :
         \A c \in Commands \cup {NoCommand} :
            LET ofDay == WithCommand(OfUser(daily[s].agent, daily[s].user, daily[s].date), c)
                rows == {i \in 1..Len(counted) : counted[i].statistic = s /\ counted[i].command = c}
            IN /\ Cardinality(rows) <= 1
               /\ ofDay \ late # {} => rows # {}
               /\ \A i \in rows : /\ counted[i].summary >= Cardinality(ofDay \ late)
                                  /\ counted[i].summary <= Cardinality(ofDay)
=============================================================================
