--------------------------- MODULE ApacheSessions ---------------------------
(***************************************************************************)
(* PrepareStatisticsAnalyzerObject: the requests of one client (an address *)
(* and a user agent) to one virtual host are gathered into sessions.  The  *)
(* unused entries of a host are counted once, then read in parts in the    *)
(* order of their time, gathered in memory and marked as used part by      *)
(* part; the sessions are saved when the host is done.  The main thread    *)
(* adds entries between any two of these statements.                       *)
(*                                                                         *)
(* ServerDatabase follows the transactions and their failures; here is     *)
(* what the sessions are.  A host stands for an agent and a virtual host,  *)
(* a day is a number, an entry is the place of its row in logs.            *)
(***************************************************************************)
EXTENDS Timestamps, Sequences, FiniteSets

CONSTANTS
    Hosts, Clients,
    Kinds,          \* what an agent may send: [host, client, day, second, error]
    SessionLength,  \* SESSION_LENGTH, 3600 s
    Batch,          \* MAX_ROWS_IN_MEMORY, 100
    NoHost,
    MaxEntries,     \* bound: entries sent
    MaxAnalyses,    \* bound: calls of Prepare
    MaxFaults       \* bound: ends of the process and sessions not saved

ASSUME SessionsAssumption ==
    /\ Kinds \subseteq [host : Hosts, client : Clients, day : Nat, second : Times, error : BOOLEAN]
    /\ SessionLength \in Nat \ {0} /\ Batch \in Nat \ {0}
    /\ NoHost \notin Hosts
    /\ MaxEntries \in Nat /\ MaxAnalyses \in Nat /\ MaxFaults \in Nat

VARIABLES
    logs,       \* APACHE_LOGS_TABLE, in the order of the ids
    used,       \* entries with USED_IN_STATISTICS = 1
    at,         \* what the analyzer does next
    toVisit,    \* hosts the loops of Prepare have not reached
    host,       \* the host of CreateStatistics
    left,       \* rows RunPartially has still to ask for
    part, rows, \* logs of CalculateStatistics: all of them, those not yet gathered
    open,       \* sessions_statistics_: the session in memory of each client
    closed,     \* calculated_sessions_statistics_
    saved,      \* APACHE_SESSION_TABLE
    lost,       \* history: used entries whose session was never saved
    reached,    \* history: the latest entry read for this host, 0 before the first
    horizon,    \* history: the number of rows in logs when it was read
    late,       \* history: entries read for a host after one with a later time
    analyses, faults

NoSession == [requests |-> 0]  \* no entry of the map

tableVars == <<logs, used, saved>>
partVars  == <<host, left, part, rows>>
memory    == <<open, closed, reached, horizon>>
boundVars == <<analyses, faults>>
vars == <<tableVars, at, toVisit, partVars, memory, lost, late, boundVars>>

Earlier(e, f) ==
    \/ logs[e].day < logs[f].day
    \/ logs[e].day = logs[f].day /\ logs[e].second < logs[f].second

UnusedLogs(h) == {e \in DOMAIN logs \ used : logs[e].host = h}

Init ==
    /\ logs = <<>> /\ used = {} /\ saved = {}
    /\ at = "idle" /\ toVisit = {}
    /\ host = NoHost /\ left = 0 /\ part = {} /\ rows = {}
    /\ open = [c \in Clients |-> NoSession] /\ closed = {}
    /\ lost = {} /\ reached = 0 /\ horizon = 0 /\ late = {}
    /\ analyses = 0 /\ faults = 0

\* AddLogs, from the main thread: entries of one host come in any order of time.
AddLog ==
    /\ Len(logs) < MaxEntries
    /\ \E k \in Kinds : logs' = Append(logs, k)
    /\ UNCHANGED <<used, saved, at, toVisit, partVars, memory, lost, late, boundVars>>

-----------------------------------------------------------------------------
(* Prepare.  Whether an analysis is due is left open.                      *)

Prepare ==
    /\ at = "idle" /\ analyses < MaxAnalyses
    /\ analyses' = analyses + 1
    /\ toVisit' = {logs[e].host : e \in DOMAIN logs}
    /\ at' = "host"
    /\ UNCHANGED <<tableVars, partVars, memory, lost, late, faults>>

\* GetUnusedLogsCount: the rows that come later are not asked for.
CreateStatistics(h) ==
    /\ at = "host" /\ h \in toVisit
    /\ toVisit' = toVisit \ {h} /\ host' = h
    /\ left' = Cardinality(UnusedLogs(h))
    /\ at' = "part"
    /\ UNCHANGED <<tableVars, part, rows, memory, lost, late, boundVars>>

PrepareEnds ==
    /\ at = "host" /\ toVisit = {}
    /\ at' = "idle"
    /\ UNCHANGED <<tableVars, toVisit, partVars, memory, lost, late, boundVars>>

-----------------------------------------------------------------------------
(* RunPartially: parts of Batch rows, then the remainder.                  *)

PartCount == IF left < Batch THEN left ELSE Batch

\* A defect: no "order by".
AnyUnused(h, count) == {S \in SUBSET UnusedLogs(h) : Cardinality(S) = count}

\* The first count rows in the order of time: the offset is always 0, the
\* rows of the part before are marked by now.
FirstUnused(h, count) ==
    {S \in SUBSET UnusedLogs(h) :
        /\ Cardinality(S) = count
        /\ \A e \in S, f \in UnusedLogs(h) \ S : ~ Earlier(f, e)}

\* Rows that were there when a later one was read cannot be late.
IsLate(e) == reached # 0 /\ Earlier(e, reached) /\ e > horizon

GetUnusedLogs ==
    /\ at = "part" /\ left > 0
    /\ \E S \in FirstUnused(host, PartCount) : \E last \in S :
         /\ \A e \in S : ~ Earlier(last, e)
         /\ part' = S /\ rows' = S
         /\ late' = late \cup {e \in S : IsLate(e)}
         /\ IF reached # 0 /\ Earlier(last, reached)
            THEN UNCHANGED <<reached, horizon>>
            ELSE reached' = last /\ horizon' = Len(logs)
    /\ left' = left - PartCount
    /\ at' = "gather"
    /\ UNCHANGED <<tableVars, toVisit, host, open, closed, lost, boundVars>>

IsErrorCode(e) == IF logs[e].error THEN 1 ELSE 0

\* A defect: the day is not compared.
IsWithinTheHour(s, e) == Distance(s.start, logs[e].second) < SessionLength

IsInThisSameSession(s, e) ==
    Distance(s.start, logs[e].second) < SessionLength /\ s.day = logs[e].day

\* members and analysis are history: the entries gathered, the analysis that did it.
CreateSession(e) ==
    [host |-> logs[e].host, client |-> logs[e].client, day |-> logs[e].day,
     start |-> logs[e].second, length |-> 0, requests |-> 1, errors |-> IsErrorCode(e),
     members |-> {e}, analysis |-> analyses]

Extend(s, e) ==
    [s EXCEPT !.requests = @ + 1, !.errors = @ + IsErrorCode(e),
              !.length = Distance(s.start, logs[e].second), !.members = @ \cup {e}]

\* One turn of the loop of CalculateStatistics.
Gather ==
    /\ at = "gather"
    /\ \E e \in rows :
         LET c == logs[e].client
         IN /\ \A f \in rows : ~ Earlier(f, e)
            /\ rows' = rows \ {e}
            /\ \/ /\ open[c] = NoSession
                  /\ open' = [open EXCEPT ![c] = CreateSession(e)] /\ UNCHANGED closed
               \/ /\ open[c] # NoSession /\ IsInThisSameSession(open[c], e)
                  /\ open' = [open EXCEPT ![c] = Extend(@, e)] /\ UNCHANGED closed
               \/ /\ open[c] # NoSession /\ ~ IsInThisSameSession(open[c], e)
                  /\ open' = [open EXCEPT ![c] = CreateSession(e)]
                  /\ closed' = closed \cup {open[c]}
    /\ UNCHANGED <<tableVars, at, toVisit, host, left, part, reached, horizon, lost, late, boundVars>>

\* A defect: the entry gathered last is not marked.
MarkLogsButOne ==
    /\ at = "gather" /\ rows = {}
    /\ used' = used \cup (part \ {reached}) /\ part' = {}
    /\ at' = "part"
    /\ UNCHANGED <<logs, saved, toVisit, host, left, rows, memory, lost, late, boundVars>>

MarkLogsAsUsed ==
    /\ at = "gather" /\ rows = {}
    /\ used' = used \cup part /\ part' = {}
    /\ at' = "part"
    /\ UNCHANGED <<logs, saved, toVisit, host, left, rows, memory, lost, late, boundVars>>

-----------------------------------------------------------------------------
InMemory == closed \cup {open[c] : c \in {d \in Clients : open[d] # NoSession}}
MembersOf(S) == UNION {s.members : s \in S}

Cleared ==
    /\ open' = [c \in Clients |-> NoSession] /\ closed' = {} /\ reached' = 0 /\ horizon' = 0
    /\ host' = NoHost /\ part' = {} /\ rows' = {}

SaveAllSessions ==
    /\ at = "part" /\ left = 0
    /\ saved' = saved \cup InMemory
    /\ at' = "host" /\ Cleared
    /\ UNCHANGED <<logs, used, toVisit, left, lost, late, boundVars>>

\* The transaction of AddSessionStatistics fails; its answer is not looked at.
SaveFails ==
    /\ at = "part" /\ left = 0
    /\ faults < MaxFaults /\ faults' = faults + 1
    /\ lost' = lost \cup MembersOf(InMemory)
    /\ at' = "host" /\ Cleared
    /\ UNCHANGED <<tableVars, toVisit, left, late, analyses>>

\* The process ends, of itself or by an exception of a statement, and starts again.
Crash ==
    /\ at # "idle"
    /\ faults < MaxFaults /\ faults' = faults + 1
    /\ lost' = lost \cup (MembersOf(InMemory) \cap used)
    /\ late' = late \cap used
    /\ at' = "idle" /\ toVisit' = {} /\ left' = 0 /\ Cleared
    /\ UNCHANGED <<tableVars, analyses>>

Next ==
    \/ AddLog \/ Prepare \/ PrepareEnds \/ \E h \in Hosts : CreateStatistics(h)
    \/ GetUnusedLogs \/ Gather \/ MarkLogsAsUsed
    \/ SaveAllSessions \/ SaveFails \/ Crash

Spec == Init /\ [][Next]_vars

-----------------------------------------------------------------------------
Sessions == saved \cup InMemory

SessionType ==
    [host : Hosts, client : Clients, day : Nat, start : Times, length : 0..LastSecond,
     requests : Nat, errors : Nat, members : SUBSET DOMAIN logs, analysis : 1..MaxAnalyses]

(* The variables have their types; only entries of the host at hand are in *)
(* the part, and no row is asked for that is not there.                    *)
TypeOK ==
    /\ logs \in Seq(Kinds) /\ used \subseteq DOMAIN logs /\ lost \subseteq used
    /\ at \in {"idle", "host", "part", "gather"} /\ toVisit \subseteq Hosts
    /\ host \in Hosts \cup {NoHost} /\ (host = NoHost <=> at \in {"idle", "host"})
    /\ left \in 0..Cardinality(UnusedLogs(host) \ part)
    /\ part \subseteq UnusedLogs(host) /\ rows \subseteq part
    /\ open \in [Clients -> SessionType \cup {NoSession}]
    /\ closed \subseteq SessionType /\ saved \subseteq SessionType
    /\ reached \in {0} \cup DOMAIN logs /\ horizon \in 0..Len(logs) /\ late \subseteq DOMAIN logs
    /\ analyses \in 0..MaxAnalyses /\ faults \in 0..MaxFaults

(* Every entry marked as used is a request of exactly one session, saved   *)
(* or in memory, unless a session of its was never saved; and no session   *)
(* has an entry that is not used or being gathered.  Entries come while    *)
(* the parts are read, and the sessions outlive the parts.                 *)
EachEntryInOneSession ==
    /\ MembersOf(Sessions) = (used \ lost) \cup (part \ rows)
    /\ \A s, t \in Sessions : s # t => s.members \cap t.members = {}

(* A session has requests of one client to one host on one day, each less  *)
(* than SessionLength from its start, and counts each of them once: no     *)
(* session runs into the next host's or past midnight.                     *)
SessionsAreOfOneClient ==
    \A s \in Sessions :
        /\ \A e \in s.members :
             /\ logs[e].host = s.host /\ logs[e].client = s.client /\ logs[e].day = s.day
             /\ Distance(s.start, logs[e].second) < SessionLength
        /\ s.requests = Cardinality(s.members)
        /\ s.errors = Cardinality({e \in s.members : logs[e].error})

Muddled(s) ==
    \E e \in late : /\ logs[e].host = s.host /\ logs[e].client = s.client
                    /\ e \in MembersOf({t \in Sessions : t.analysis = s.analysis})

(* What a session is: it starts with its first request, its length is the  *)
(* time to the last one, and the sessions of a client that one analysis    *)
(* finds on a day start at least SessionLength apart.  So the parts do not *)
(* show in the sessions: a session is only cut where an analysis ends.     *)
(* Except the sessions of a client one of whose entries came late, with a  *)
(* time before one of the host that was gathered in an earlier part.       *)
SessionsAsDefined ==
    \A s \in Sessions : ~ Muddled(s) =>
        /\ \E e \in s.members : logs[e].second = s.start
        /\ \E e \in s.members : logs[e].second = s.start + s.length
        /\ \A e \in s.members : logs[e].second \in s.start..(s.start + s.length)
        /\ \A t \in Sessions \ {s} :
             <<t.host, t.client, t.day, t.analysis>> = <<s.host, s.client, s.day, s.analysis>>
                => Distance(s.start, t.start) >= SessionLength
=============================================================================
