--------------------------- MODULE ServerDatabase ---------------------------
(***************************************************************************)
(* The one SQLite connection of slas-server and the three threads that use *)
(* it without a lock (server/src/main.cpp hands the same handle to all):   *)
(*                                                                         *)
(*   "dbus"      the main thread: bus->Loop() calls the AddLogEntry        *)
(*               handlers of the objects for Apache and for shell entries  *)
(*   "analyzer"  ApacheAnalyzerObject::Analyze, from the analyzer thread   *)
(*   "web"       set_apache_sessions_as_anomaly, from the command receiver *)
(*                                                                         *)
(* A step is one SQL statement: SQLite serialises the statements (and the  *)
(* whole of one sqlite3_exec) but not a transaction, so a statement of one *)
(* thread joins the transaction another thread has open, is committed or   *)
(* rolled back with it, and a second "begin transaction" is an error.      *)
(***************************************************************************)
EXTENDS Naturals, FiniteSets

CONSTANTS
    Hosts,          \* monitored hosts: an agent and its virtual host
    Logs,           \* Apache log entries
    ShellLogs,      \* shell entries: a command a user typed
    HostOf,         \* the host that sends a log entry
    WebHost,        \* the host whose learning set the web user chooses
    Batch,          \* MAX_ROWS_IN_MEMORY of CreateStatistics (100 in the code)
    MaxClock,       \* bound: how often more than SESSION_LENGTH passes
    MaxRequests,    \* bound: requests of the web user
    MaxFaults,      \* bound: statements that fail
    MaxCrashes,     \* bound: restarts after a kill or a power loss
    FaultyThreads,  \* the threads whose statements may fail
    NoLog, NoHost   \* "not set" values

ASSUME DatabaseAssumption ==
    /\ IsFiniteSet(Logs) /\ NoLog \notin Logs \cup ShellLogs /\ Logs \cap ShellLogs = {}
    /\ HostOf \in [Logs \cup ShellLogs -> Hosts] /\ NoHost \notin Hosts /\ WebHost \in Hosts
    /\ Batch \in Nat \ {0} /\ MaxClock \in Nat \ {0}
    /\ MaxRequests \in Nat /\ MaxFaults \in Nat /\ MaxCrashes \in Nat

Threads == {"dbus", "analyzer", "web"}

VARIABLES
    disk,      \* the committed contents of the database file
    work,      \* the contents the connection sees: disk and the open transaction
    txn,       \* the thread whose "begin" opened the transaction, or "none"
    up,        \* is the server process running
    pc,        \* what each thread does next
    entry,     \* dbus: the entry being added
    sent,      \* agents: the entries whose AddLogEntry call was made
    acked,     \* agents: the entries whose call was answered
    joined,    \* history: shell entries answered without a commit of their own
    hosts,     \* analyzer: the hosts Prepare has still to visit
    host,      \* analyzer: the host being prepared
    left,      \* analyzer: rows RunPartially has still to ask for
    batch,     \* analyzer: the rows read by the last GetUnusedLogs
    mem,       \* analyzer: how often a session in memory counts an entry
    now,       \* analyzer: the time Analyze took at its start
    request,   \* web: number of the last request
    reply,     \* web: the answer to it, "pending" or "none"
    clock,     \* the current time, one tick per SESSION_LENGTH
    faults,    \* statements that have failed
    crashes,   \* crashes so far
    undone,    \* history: entries whose row a failing AddLogs rolled back
    dropped,   \* history: entries of the sessions lost with a failed save or a crash
    lostNames  \* history: hosts whose name rows were rolled back

connVars     == <<disk, work, txn>>
dbusVars     == <<entry, sent, acked, joined>>
analyzerVars == <<hosts, host, left, batch, mem, now>>
webVars      == <<request, reply>>
envVars      == <<clock, crashes>>
histVars     == <<undone, dropped, lostNames>>
vars == <<connVars, up, pc, dbusVars, analyzerVars, webVars, envVars, faults, histVars>>

(***************************************************************************)
(* The tables.  "log" is APACHE_LOGS_TABLE with USED_IN_STATISTICS, "count"*)
(* is how many requests of saved sessions (APACHE_SESSION_TABLE) stand for *)
(* an entry, "learning" is the number of the web request that last set the *)
(* learning set of WebHost (0: empty).  The CLASSIFICATION column is left  *)
(* out: the statements that write it are steps here, their values are not. *)
(* "shell" is BASH_LOGS_TABLE; of the rows an entry of it refers to only   *)
(* the agent's is kept, the one whose absence is an error.                 *)
(***************************************************************************)
Contents == [agents: SUBSET Hosts, vhosts: SUBSET Hosts,
             log: [Logs -> {"absent", "unused", "used"}], shell: SUBSET ShellLogs,
             count: [Logs -> Nat], lastRun: 0..MaxClock,
             learning: 0..MaxRequests]

EmptyTables == [agents |-> {}, vhosts |-> {}, log |-> [l \in Logs |-> "absent"],
                shell |-> {}, count |-> [l \in Logs |-> 0], lastRun |-> 0, learning |-> 0]

NoSessions == [l \in Logs |-> 0]
InMemory == {l \in Logs : mem[l] > 0}
HostsWithLogs == {HostOf[l] : l \in {k \in Logs : work.log[k] # "absent"}}
UnusedLogs(h) == {l \in Logs : HostOf[l] = h /\ work.log[l] = "unused"}

Init ==
    /\ disk = EmptyTables /\ work = EmptyTables /\ txn = "none"
    /\ up = TRUE /\ pc = [t \in Threads |-> "idle"]
    /\ entry = NoLog /\ sent = {} /\ acked = {} /\ joined = {}
    /\ hosts = {} /\ host = NoHost /\ left = 0 /\ batch = {} /\ mem = NoSessions /\ now = 1
    /\ request = 0 /\ reply = "none"
    /\ clock = 1 /\ faults = 0 /\ crashes = 0 /\ undone = {} /\ dropped = {} /\ lostNames = {}

(***************************************************************************)
(* The connection.                                                         *)
(***************************************************************************)
\* A write statement: it commits by itself unless a transaction is open.
Write(contents) ==
    /\ work' = contents
    /\ disk' = IF txn = "none" THEN contents ELSE disk
    /\ UNCHANGED txn

Begin(t) == txn = "none" /\ txn' = t /\ UNCHANGED <<disk, work>>

Commit == txn' = "none" /\ disk' = work /\ UNCHANGED work

Rollback == txn' = "none" /\ work' = disk /\ UNCHANGED disk

\* A whole "begin; ...; end" in one Exec: no other thread's statement comes between.
ExecTransaction(contents) ==
    /\ txn = "none"
    /\ work' = contents /\ disk' = contents /\ UNCHANGED txn

Fault(t) == t \in FaultyThreads /\ faults < MaxFaults /\ faults' = faults + 1

At(t, label) == up /\ pc[t] = label
Goto(t, label) == pc' = [pc EXCEPT ![t] = label]

\* The entries counted only in memory or in the open transaction.
Unsaved == InMemory \cup {l \in Logs : work.count[l] # disk.count[l]}

\* The hosts whose name rows are in the open transaction only.
UncommittedNames == (work.agents \ disk.agents) \cup (work.vhosts \ disk.vhosts)

(***************************************************************************)
(* The process ends: SQLite rolls the open transaction back at the next    *)
(* start, and everything in memory is gone.                                *)
(***************************************************************************)
ServerEnds ==
    /\ up' = FALSE /\ Rollback
    /\ pc' = [t \in Threads |-> "idle"]
    /\ entry' = NoLog /\ UNCHANGED <<sent, acked, joined>>
    /\ hosts' = {} /\ host' = NoHost /\ left' = 0 /\ batch' = {} /\ mem' = NoSessions
    /\ reply' = (IF reply = "pending" THEN "none" ELSE reply)
    /\ dropped' = dropped \cup Unsaved
    /\ UNCHANGED <<now, request, clock, undone, lostNames>>

Crash ==
    /\ up /\ crashes < MaxCrashes /\ crashes' = crashes + 1
    /\ ServerEnds /\ UNCHANGED faults

Restart ==
    /\ ~up /\ up' = TRUE
    /\ UNCHANGED <<connVars, pc, dbusVars, analyzerVars, webVars, envVars, faults, histVars>>

\* More than SESSION_LENGTH passes.
Tick ==
    /\ clock < MaxClock /\ clock' = clock + 1
    /\ UNCHANGED <<connVars, up, pc, dbusVars, analyzerVars, webVars, crashes, faults, histVars>>

-----------------------------------------------------------------------------
(***************************************************************************)
(* Thread "dbus": Apache::OwnMessageHandler and Bash::OwnMessageHandler    *)
(* for AddLogEntry.  Only the first opens a transaction for its entry.     *)
(***************************************************************************)
DbusStep == UNCHANGED <<up, analyzerVars, webVars, envVars, dropped>>

Receive(l) ==
    /\ At("dbus", "idle") /\ l \notin sent
    /\ entry' = l /\ sent' = sent \cup {l}
    /\ Goto("dbus", "agent")
    /\ UNCHANGED <<connVars, acked, joined, faults, undone, lostNames>> /\ DbusStep

\* A defect: the handler forgets AddVirtualhostName.
AddAgentNameOnly ==
    /\ At("dbus", "agent")
    /\ Write([work EXCEPT !.agents = @ \cup {HostOf[entry]}])
    /\ Goto("dbus", IF entry \in ShellLogs THEN "id" ELSE "begin")
    /\ UNCHANGED <<dbusVars, faults, undone, lostNames>> /\ DbusStep

AddAgentName ==
    /\ At("dbus", "agent")
    /\ Write([work EXCEPT !.agents = @ \cup {HostOf[entry]}])
    /\ Goto("dbus", IF entry \in ShellLogs THEN "id" ELSE "vhost")
    /\ UNCHANGED <<dbusVars, faults, undone, lostNames>> /\ DbusStep

AddVirtualhostName ==
    /\ At("dbus", "vhost")
    /\ Write([work EXCEPT !.vhosts = @ \cup {HostOf[entry]}])
    /\ Goto("dbus", "begin")
    /\ UNCHANGED <<dbusVars, faults, undone, lostNames>> /\ DbusStep

AddLogsBegin ==
    /\ At("dbus", "begin") /\ Begin("dbus")
    /\ Goto("dbus", "insert")
    /\ UNCHANGED <<dbusVars, faults, undone, lostNames>> /\ DbusStep

AddLogsInsert ==
    /\ At("dbus", "insert")
    /\ Write([work EXCEPT !.log[entry] = "unused"])
    /\ Goto("dbus", "end")
    /\ UNCHANGED <<dbusVars, faults, undone, lostNames>> /\ DbusStep

AddLogsEnd ==
    /\ At("dbus", "end") /\ Commit
    /\ Goto("dbus", "reply")
    /\ UNCHANGED <<dbusVars, faults, undone, lostNames>> /\ DbusStep

\* Scripts::AddLog does not add a command that is nothing but white space.
SkipBlank ==
    /\ At("dbus", "agent") /\ entry \in ShellLogs
    /\ joined' = joined \cup {entry}
    /\ Goto("dbus", "reply")
    /\ UNCHANGED <<connVars, entry, sent, acked, faults, undone, lostNames>> /\ DbusStep

\* DatabaseFunctions::AddLog: the ids are looked up, each in a statement of its own.
GetShellIds ==
    /\ At("dbus", "id") /\ HostOf[entry] \in work.agents
    /\ Goto("dbus", "shell")
    /\ UNCHANGED <<connVars, dbusVars, faults, undone, lostNames>> /\ DbusStep

\* RawDatabaseFunctions::AddLog inserts the row without a transaction: it commits by
\* itself, or belongs to the one another thread has open and is answered all the same.
InsertShell ==
    /\ At("dbus", "shell")
    /\ Write([work EXCEPT !.shell = @ \cup {entry}])
    /\ joined' = IF txn = "none" THEN joined ELSE joined \cup {entry}
    /\ Goto("dbus", "reply")
    /\ UNCHANGED <<entry, sent, acked, faults, undone, lostNames>> /\ DbusStep

\* dbus_connection_send and flush: the agent's blocking call returns.
Reply ==
    /\ At("dbus", "reply")
    /\ acked' = acked \cup {entry} /\ entry' = NoLog
    /\ Goto("dbus", "idle")
    /\ UNCHANGED <<connVars, sent, joined, faults, undone, lostNames>> /\ DbusStep

\* A defect: the handler catches the exception and answers all the same.
FailureAnswered ==
    /\ pc["dbus"] \in {"agent", "vhost", "begin", "id", "shell"} /\ Fault("dbus")
    /\ up /\ Goto("dbus", "reply")
    /\ UNCHANGED <<connVars, dbusVars, undone, lostNames>> /\ DbusStep

\* A statement outside AddLogs' transaction fails, "begin" finds one open already or
\* the agent has no id: nothing is rolled back and the exception leaves the handler.
NamesOrBeginFail ==
    /\ \/ /\ pc["dbus"] \in {"agent", "vhost", "begin", "id", "shell"} /\ Fault("dbus")
       \/ /\ pc["dbus"] = "begin" /\ txn # "none" /\ UNCHANGED faults
       \/ /\ pc["dbus"] = "id" /\ HostOf[entry] \notin work.agents /\ UNCHANGED faults
    /\ up /\ Goto("dbus", "dying")
    /\ UNCHANGED <<connVars, dbusVars, undone, lostNames>> /\ DbusStep

\* The insert or "end" fails: AddLogs rolls back, with whatever joined, and rethrows.
AddLogsFails ==
    /\ up /\ pc["dbus"] \in {"insert", "end"} /\ Fault("dbus")
    /\ Rollback
    /\ undone' = undone \cup {l \in Logs : work.log[l] # disk.log[l]}
    /\ Goto("dbus", "dying")
    /\ UNCHANGED <<dbusVars, lostNames>> /\ DbusStep

\* The exception reaches main, which returns while the other threads still run.
MainReturns ==
    /\ At("dbus", "dying") /\ ServerEnds
    /\ UNCHANGED <<crashes, faults>>

-----------------------------------------------------------------------------
(***************************************************************************)
(* Thread "analyzer": ApacheAnalyzerObject::Analyze with the statistics it *)
(* prepares (PrepareStatisticsAnalyzerObject).  The thread has no handler  *)
(* for exceptions: one that leaves Analyze terminates the process.         *)
(***************************************************************************)
AnalyzerStep == UNCHANGED <<up, dbusVars, webVars, envVars, undone>>

\* After a host: the next one, or the KNN analysis.
NextHost(rest) == Goto("analyzer", IF rest = {} THEN "knn" ELSE "count")

\* Analyze when ShouldRun holds: the last run is unknown or too long ago.
StartAnalysis ==
    /\ At("analyzer", "idle") /\ work.lastRun # clock
    /\ now' = clock /\ hosts' = HostsWithLogs
    /\ NextHost(HostsWithLogs)
    /\ UNCHANGED <<connVars, host, left, batch, mem, faults, dropped, lostNames>>
    /\ AnalyzerStep

\* ... and when it does not: the last run is too recent.
SkipAnalysis ==
    /\ At("analyzer", "idle") /\ work.lastRun = clock
    /\ UNCHANGED vars

\* CreateStatistics counts the unused rows; a host whose rows were rolled back
\* since has no virtual host left and is skipped.
CountUnused(h) ==
    /\ At("analyzer", "count") /\ h \in hosts
    /\ hosts' = hosts \ {h}
    /\ IF h \in HostsWithLogs
       THEN /\ host' = h /\ left' = Cardinality(UnusedLogs(h))
            /\ Goto("analyzer", IF UnusedLogs(h) = {} THEN "begin" ELSE "fetch")
       ELSE UNCHANGED <<host, left>> /\ NextHost(hosts \ {h})
    /\ UNCHANGED <<connVars, batch, mem, now, faults, dropped, lostNames>>
    /\ AnalyzerStep

\* GetUnusedLogs(limit, offset 0) and the sessions the rows are added to.
FetchUnused(rows) ==
    LET limit == IF left < Batch THEN left ELSE Batch
        found == Cardinality(UnusedLogs(host))
    IN  /\ At("analyzer", "fetch")
        /\ rows \subseteq UnusedLogs(host)
        /\ Cardinality(rows) = IF found < limit THEN found ELSE limit
        /\ batch' = rows /\ left' = left - limit
        /\ mem' = [l \in Logs |-> IF l \in rows THEN mem[l] + 1 ELSE mem[l]]
        /\ Goto("analyzer", "mark")
        /\ UNCHANGED <<connVars, hosts, host, now, faults, dropped, lostNames>>
        /\ AnalyzerStep

\* The rows marked as used; an update of a row that is gone changes nothing.
Marked(rows) == [work EXCEPT !.log = [l \in Logs |->
    IF l \in rows /\ work.log[l] # "absent" THEN "used" ELSE work.log[l]]]

\* A defect: the rows are marked by host, not by the ids that were read.
MarkWholeHost ==
    /\ At("analyzer", "mark")
    /\ Write(Marked({l \in Logs : HostOf[l] = host})) /\ batch' = {}
    /\ Goto("analyzer", IF left = 0 THEN "begin" ELSE "fetch")
    /\ UNCHANGED <<hosts, host, left, mem, now, faults, dropped, lostNames>>
    /\ AnalyzerStep

\* A defect: only the rows of the last part are marked.
MarkLastPart ==
    /\ At("analyzer", "mark")
    /\ Write(IF left = 0 THEN Marked(batch) ELSE work) /\ batch' = {}
    /\ Goto("analyzer", IF left = 0 THEN "begin" ELSE "fetch")
    /\ UNCHANGED <<hosts, host, left, mem, now, faults, dropped, lostNames>>
    /\ AnalyzerStep

\* A defect: the entries have no ids, GetUnusedLogs does not read the column.
MarkNoRow ==
    /\ At("analyzer", "mark")
    /\ Write(Marked({})) /\ batch' = {}
    /\ Goto("analyzer", IF left = 0 THEN "begin" ELSE "fetch")
    /\ UNCHANGED <<hosts, host, left, mem, now, faults, dropped, lostNames>>
    /\ AnalyzerStep

MarkLogsAsUsed ==
    /\ At("analyzer", "mark")
    /\ Write(Marked(batch)) /\ batch' = {}
    /\ Goto("analyzer", IF left = 0 THEN "begin" ELSE "fetch")
    /\ UNCHANGED <<hosts, host, left, mem, now, faults, dropped, lostNames>>
    /\ AnalyzerStep

\* A defect: AddApacheSessionStatistics without "begin transaction".
SaveWithoutBegin ==
    /\ At("analyzer", "begin") /\ txn = "none" /\ UNCHANGED connVars
    /\ Goto("analyzer", "insert")
    /\ UNCHANGED <<analyzerVars, faults, dropped, lostNames>> /\ AnalyzerStep

SaveBegin ==
    /\ At("analyzer", "begin") /\ Begin("analyzer")
    /\ Goto("analyzer", "insert")
    /\ UNCHANGED <<analyzerVars, faults, dropped, lostNames>> /\ AnalyzerStep

\* One row of APACHE_SESSION_TABLE: a session that stands for the entries in s.
SaveInsert(s) ==
    /\ At("analyzer", "insert") /\ s # {} /\ s \subseteq InMemory
    /\ Write([work EXCEPT !.count = [l \in Logs |->
           IF l \in s THEN work.count[l] + mem[l] ELSE work.count[l]]])
    /\ mem' = [l \in Logs |-> IF l \in s THEN 0 ELSE mem[l]]
    /\ UNCHANGED <<pc, hosts, host, left, batch, now, faults, dropped, lostNames>>
    /\ AnalyzerStep

\* A defect: the sessions still open in sessions_statistics_ are not saved.
SaveEndEarly ==
    /\ At("analyzer", "insert") /\ Commit
    /\ mem' = NoSessions /\ NextHost(hosts)
    /\ UNCHANGED <<hosts, host, left, batch, now, faults, dropped, lostNames>>
    /\ AnalyzerStep

SaveEnd ==
    /\ At("analyzer", "insert") /\ InMemory = {} /\ Commit
    /\ NextHost(hosts)
    /\ UNCHANGED <<analyzerVars, faults, dropped, lostNames>> /\ AnalyzerStep

\* SQLITE_BUSY from an insert or from "end": the transaction is rolled back, false
\* is returned, and SaveAllSessions clears the sessions without looking at it.
SaveBusy ==
    /\ At("analyzer", "insert") /\ Fault("analyzer") /\ Rollback
    /\ mem' = NoSessions
    /\ dropped' = dropped \cup Unsaved
    /\ lostNames' = lostNames \cup UncommittedNames
    /\ NextHost(hosts)
    /\ UNCHANGED <<hosts, host, left, batch, now>> /\ AnalyzerStep

\* KnnAnalyzerObject::Analyze needs the row ids of every agent and virtual host.  Its
\* updates of the CLASSIFICATION column commit one by one or join an open transaction.
KnnAnalyze ==
    /\ At("analyzer", "knn") /\ HostsWithLogs \subseteq work.agents \cap work.vhosts
    /\ Goto("analyzer", "lastrun")
    /\ UNCHANGED <<connVars, analyzerVars, faults, dropped, lostNames>> /\ AnalyzerStep

SetLastRun ==
    /\ At("analyzer", "lastrun") /\ Write([work EXCEPT !.lastRun = now])
    /\ Goto("analyzer", "idle")
    /\ UNCHANGED <<analyzerVars, faults, dropped, lostNames>> /\ AnalyzerStep

\* A defect: "begin" waits until the open transaction ends.
AnalyzerWaits ==
    /\ up
    /\ \/ /\ pc["analyzer"] = "knn" /\ UNCHANGED faults
          /\ ~(HostsWithLogs \subseteq work.agents \cap work.vhosts)
       \/ pc["analyzer"] # "idle" /\ Fault("analyzer")
    /\ ServerEnds /\ UNCHANGED crashes

\* An exception leaves Analyze: "begin" in an open transaction, a name without an
\* id, or a statement that fails.
AnalyzerThrows ==
    /\ up
    /\ \/ pc["analyzer"] = "begin" /\ txn # "none" /\ UNCHANGED faults
       \/ /\ pc["analyzer"] = "knn" /\ UNCHANGED faults
          /\ ~(HostsWithLogs \subseteq work.agents \cap work.vhosts)
       \/ pc["analyzer"] # "idle" /\ Fault("analyzer")
    /\ ServerEnds /\ UNCHANGED crashes

-----------------------------------------------------------------------------
(***************************************************************************)
(* Thread "web": SetApacheSessionsAsAnomaly.  CommandExecutor::Execute     *)
(* catches its exceptions and answers with an error.                       *)
(***************************************************************************)
WebStep == UNCHANGED <<up, dbusVars, analyzerVars, envVars, histVars>>

\* The user picks sessions of a host that GetApacheAgentNames listed.
WebRequest ==
    /\ At("web", "idle") /\ request < MaxRequests /\ WebHost \in HostsWithLogs
    /\ request' = request + 1 /\ reply' = "pending"
    /\ Goto("web", "marks")
    /\ UNCHANGED <<connVars, faults>> /\ WebStep

\* "begin transaction; update ...; end transaction;" on the CLASSIFICATION column.
SetApacheSessionAsAnomaly ==
    /\ At("web", "marks") /\ ExecTransaction(work)
    /\ Goto("web", "ids")
    /\ UNCHANGED <<webVars, faults>> /\ WebStep

\* GetAgentNameId throws for an unknown agent, GetVirtualhostNameId returns -1 for
\* an unknown virtual host and the learning set is written under that id.
GetIds ==
    /\ At("web", "ids") /\ WebHost \in work.agents
    /\ Goto("web", IF WebHost \in work.vhosts THEN "remove" ELSE "nowhere")
    /\ UNCHANGED <<connVars, webVars, faults>> /\ WebStep

RemoveAllLearningSessions ==
    /\ At("web", "remove") /\ Write([work EXCEPT !.learning = 0])
    /\ Goto("web", "learning")
    /\ UNCHANGED <<webVars, faults>> /\ WebStep

\* A defect: the return value of the Exec is not looked at.
SetLearningSessionsUnchecked ==
    /\ up /\ pc["web"] \in {"learning", "nowhere"}
    /\ \/ txn # "none" /\ UNCHANGED connVars
       \/ ExecTransaction(IF pc["web"] = "nowhere" THEN work
                          ELSE [work EXCEPT !.learning = request])
    /\ reply' = "ok" /\ Goto("web", "idle")
    /\ UNCHANGED <<request, faults>> /\ WebStep

SetLearningSessions ==
    /\ up /\ pc["web"] \in {"learning", "nowhere"}
    /\ ExecTransaction(IF pc["web"] = "nowhere" THEN work
                       ELSE [work EXCEPT !.learning = request])
    /\ reply' = "ok" /\ Goto("web", "idle")
    /\ UNCHANGED <<request, faults>> /\ WebStep

\* The request is answered with an error and the connection is as it was ...
WebError ==
    /\ up
    /\ \/ pc["web"] \in {"marks", "learning", "nowhere"} /\ txn # "none" /\ UNCHANGED faults
       \/ pc["web"] = "ids" /\ WebHost \notin work.agents /\ UNCHANGED faults
       \/ pc["web"] # "idle" /\ Fault("web")
    /\ reply' = "error" /\ Goto("web", "idle")
    /\ UNCHANGED <<connVars, request>> /\ WebStep

\* ... or, when a statement after "begin" fails, with the transaction left open:
\* Exec stops there and nobody calls "rollback".
WebErrorInside ==
    /\ up /\ pc["web"] \in {"marks", "learning", "nowhere"} /\ txn = "none" /\ Fault("web")
    /\ txn' = "web" /\ UNCHANGED disk
    /\ \/ UNCHANGED work
       \/ pc["web"] = "learning" /\ work' = [work EXCEPT !.learning = request]
    /\ reply' = "error" /\ Goto("web", "idle")
    /\ UNCHANGED request /\ WebStep

-----------------------------------------------------------------------------
DbusNext ==
    \/ \E l \in Logs \cup ShellLogs : Receive(l)
    \/ AddAgentName \/ AddVirtualhostName
    \/ AddLogsBegin \/ AddLogsInsert \/ AddLogsEnd
    \/ SkipBlank \/ GetShellIds \/ InsertShell \/ Reply
    \/ NamesOrBeginFail \/ AddLogsFails \/ MainReturns

AnalyzerNext ==
    \/ StartAnalysis \/ SkipAnalysis \/ \E h \in hosts : CountUnused(h)
    \/ \E rows \in SUBSET UnusedLogs(host) : FetchUnused(rows)
    \/ MarkLogsAsUsed \/ SaveBegin \/ \E s \in SUBSET InMemory : SaveInsert(s)
    \/ SaveEnd \/ SaveBusy \/ KnnAnalyze \/ SetLastRun \/ AnalyzerThrows

WebNext ==
    \/ WebRequest \/ SetApacheSessionAsAnomaly \/ GetIds
    \/ RemoveAllLearningSessions \/ SetLearningSessions
    \/ WebError \/ WebErrorInside

Next == DbusNext \/ AnalyzerNext \/ WebNext \/ Crash \/ Restart \/ Tick

Spec == Init /\ [][Next]_vars

-----------------------------------------------------------------------------
(***************************************************************************)
(* Properties.                                                             *)
(***************************************************************************)
DbusLabels == {"idle", "agent", "vhost", "begin", "insert", "end",
               "id", "shell", "reply", "dying"}
AnalyzerLabels == {"idle", "count", "fetch", "mark", "begin", "insert", "knn", "lastrun"}
WebLabels == {"idle", "marks", "ids", "remove", "learning", "nowhere"}

\* Every variable has its type, and every thread is at one of its own labels.
TypeOK ==
    /\ disk \in Contents /\ work \in Contents /\ txn \in Threads \cup {"none"}
    /\ up \in BOOLEAN /\ pc \in [Threads -> DbusLabels \cup AnalyzerLabels \cup WebLabels]
    /\ pc["dbus"] \in DbusLabels /\ pc["analyzer"] \in AnalyzerLabels /\ pc["web"] \in WebLabels
    /\ entry \in Logs \cup ShellLogs \cup {NoLog} /\ joined \in SUBSET ShellLogs
    /\ sent \in SUBSET (Logs \cup ShellLogs) /\ acked \in SUBSET (Logs \cup ShellLogs)
    /\ hosts \in SUBSET Hosts /\ host \in Hosts \cup {NoHost} /\ left \in Nat
    /\ batch \in SUBSET Logs /\ mem \in [Logs -> Nat] /\ now \in 1..MaxClock
    /\ request \in 0..MaxRequests /\ reply \in {"none", "pending", "ok", "error"}
    /\ clock \in 1..MaxClock /\ faults \in 0..MaxFaults /\ crashes \in 0..MaxCrashes
    /\ undone \in SUBSET Logs /\ dropped \in SUBSET Logs /\ lostNames \in SUBSET Hosts

Stored(contents) == {l \in Logs : contents.log[l] # "absent"}

\* An entry whose AddLogEntry call was answered is in the database file, whatever the
\* other threads did with the transaction it was added in and whatever crashed since.
\* The exception: a shell entry that is blank or joined another thread's transaction.
AckedDurable == acked \ joined \subseteq Stored(disk) \cup disk.shell

\* No entry is counted by two saved sessions, or twice by one, even when an analysis
\* is killed half way and repeated.  The exception: a failing AddLogs rolls back the
\* analyzer's marks that had joined its transaction.
CountedOnce == \A l \in Logs : disk.count[l] > 1 => l \in undone

\* A saved session counts only entries that are marked as used, so that the next
\* analysis cannot count them again (MarkLogsAsUsed comes before SaveAllSessions).
MarkedBeforeCounted == \A l \in Logs : disk.count[l] > 0 => disk.log[l] = "used" \/ l \in undone

\* The agent and virtual host of a stored entry have their rows in the name tables,
\* which GetAgentNameId needs: they are added before the entry, outside its
\* transaction.  The exception: they had joined a transaction the analyzer rolled back.
NamesKnown ==
    /\ \A l \in Stored(disk) : HostOf[l] \in (disk.agents \cap disk.vhosts) \cup lostNames
    /\ \A l \in disk.shell : HostOf[l] \in disk.agents \cup lostNames

\* An entry marked as used and counted by no saved session is in the analyzer's hands,
\* or is among the entries lost with the sessions of a failed save or of a crash:
\* an analysis that runs through forgets none of the rows it marks.
NoSilentLoss ==
    \A l \in Logs : work.log[l] = "used" /\ work.count[l] = 0
                      => l \in InMemory \cup batch \cup dropped

\* When the web user is answered "ok", the learning set chosen is in the file, although
\* other threads begin, commit and roll back transactions on the same connection.  The
\* exception: the virtual host's row was rolled back and the set has no id to go under.
WebOkDurable ==
    pc["web"] = "idle" /\ reply = "ok" => disk.learning = request \/ WebHost \in lostNames

\* The sessions of a host reach the file in one commit: never some of them while
\* others are still only in memory.
SessionsCommittedWhole == [][disk'.count # disk.count => InMemory = {}]_vars

\* Seen by the agents and from the file, a call is answered when its entry is in the
\* file, and an entry is stored, claimed, counted and never goes back.  An entry whose
\* mark a rollback of the dbus thread undid stays claimed: the analysis that took it
\* still counts it.
LedgerOf(l) ==
    IF l \in ShellLogs THEN IF l \in disk.shell THEN "stored" ELSE "absent"
    ELSE IF disk.log[l] = "absent" THEN "absent"
    ELSE IF disk.count[l] > 0 THEN "counted"
    ELSE IF disk.log[l] = "used" \/ l \in undone THEN "claimed" ELSE "stored"

Ledger == INSTANCE LogLedger WITH ledger <- [l \in Logs \cup ShellLogs |-> LedgerOf(l)],
                                 called <- sent, answered <- acked

ImplementsLedger == Ledger!LedgerSpec

(***************************************************************************)
(* Liveness.  Threads are scheduled by the kernel and time passes.  The    *)
(* other two are the operator's part: a server that ended is started       *)
(* again, and SIGUSR1 asks for an analysis again and again.  Calls, web    *)
(* requests, faults and crashes are not bound to happen.                   *)
(***************************************************************************)
Continues(t, step) == pc[t] # "idle" /\ step

Fairness ==
    /\ WF_vars(Continues("dbus", DbusNext))
    /\ WF_vars(Continues("analyzer", AnalyzerNext)) /\ WF_vars(StartAnalysis)
    /\ WF_vars(Continues("web", WebNext))
    /\ WF_vars(Restart) /\ WF_vars(Tick)

FairSpec == Spec /\ Fairness

\* Every AddLogEntry call, analysis and web request ends: a "begin" that another
\* thread's transaction forbids is an error and never a wait.
EveryOperationEnds == \A t \in Threads : pc[t] # "idle" ~> pc[t] = "idle"

\* An answered entry ends up counted in a saved session, or was lost with the sessions
\* of a failed save or of a crash, or came after the last analysis the bound allows.
AckedIsCounted ==
    \A l \in Logs : l \in acked ~>
        \/ disk.count[l] > 0 \/ l \in dropped
        \/ disk.log[l] = "unused" /\ work.lastRun = MaxClock
=============================================================================
