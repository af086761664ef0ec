----------------------- MODULE ServerDatabase_proofs -----------------------
(***************************************************************************)
(* Proofs about ServerDatabase for every set of hosts and entries, every   *)
(* batch size and every number of faults, crashes and requests.            *)
(***************************************************************************)
EXTENDS ServerDatabase, FiniteSetTheorems, TLAPS

\* The handler has an entry in its hands from Receive until the reply, and which
\* statements it runs depends on the object called.
EntryHeld ==
    /\ pc["dbus"] \notin {"idle", "dying"} => entry \in Logs \cup ShellLogs
    /\ pc["dbus"] \in {"vhost", "begin", "insert", "end"} => entry \in Logs
    /\ pc["dbus"] \in {"id", "shell"} => entry \in ShellLogs

TypeInv == TypeOK /\ EntryHeld

-----------------------------------------------------------------------------
\* The contents written by each statement are contents again.
LEMMA WriteType ==
    ASSUME TypeOK, NEW c \in Contents, Write(c)
    PROVE  disk' \in Contents /\ work' \in Contents /\ txn' \in Threads \cup {"none"}
BY DEF TypeOK, Write

LEMMA ExecType ==
    ASSUME TypeOK, NEW c \in Contents, ExecTransaction(c)
    PROVE  disk' \in Contents /\ work' \in Contents /\ txn' \in Threads \cup {"none"}
BY DEF TypeOK, ExecTransaction

\* The number of rows a count returns is a natural number: the table is finite.
LEMMA UnusedCount ==
    ASSUME NEW h PROVE Cardinality(UnusedLogs(h)) \in Nat
<1>1. IsFiniteSet(UnusedLogs(h))
  BY DatabaseAssumption, FS_Subset DEF UnusedLogs
<1> QED BY <1>1, FS_CardinalityType

LEMMA HostsWithLogsType == HostsWithLogs \subseteq Hosts
BY DatabaseAssumption DEF HostsWithLogs

LEMMA TypeInit == Init => TypeInv
BY DatabaseAssumption DEF Init, TypeInv, TypeOK, EntryHeld, EmptyTables, NoSessions, Contents,
   DbusLabels, AnalyzerLabels, WebLabels, Threads

\* The end of the process leaves everything in its type.
LEMMA TypeServerEnds ==
    ASSUME TypeInv, ServerEnds, faults' \in 0..MaxFaults, crashes' \in 0..MaxCrashes
    PROVE  TypeInv'
BY DEF TypeInv, TypeOK, EntryHeld, ServerEnds, Rollback, NoSessions, Unsaved, InMemory,
   DbusLabels, AnalyzerLabels, WebLabels, Threads

-----------------------------------------------------------------------------
LEMMA TypeDbus == TypeInv /\ DbusNext => TypeInv'
<1> SUFFICES ASSUME TypeInv, DbusNext PROVE TypeInv'
  OBVIOUS
<1> USE DEF DbusStep, dbusVars, analyzerVars, webVars, envVars, connVars, At, Goto, EntryHeld,
            DbusLabels, AnalyzerLabels, WebLabels, Threads
<1>1. ASSUME NEW l \in Logs \cup ShellLogs, Receive(l) PROVE TypeInv'
  BY <1>1, DatabaseAssumption DEF Receive, TypeInv, TypeOK
<1>2. CASE AddAgentName
  <2>1. [work EXCEPT !.agents = @ \cup {HostOf[entry]}] \in Contents
    BY <1>2, DatabaseAssumption DEF AddAgentName, TypeInv, TypeOK, Contents
  <2> QED BY <1>2, <2>1, WriteType DEF AddAgentName, TypeInv, TypeOK
<1>3. CASE AddVirtualhostName
  <2>1. [work EXCEPT !.vhosts = @ \cup {HostOf[entry]}] \in Contents
    BY <1>3, DatabaseAssumption DEF AddVirtualhostName, TypeInv, TypeOK, Contents
  <2> QED BY <1>3, <2>1, WriteType DEF AddVirtualhostName, TypeInv, TypeOK
<1>4. CASE AddLogsBegin
  BY <1>4 DEF AddLogsBegin, Begin, TypeInv, TypeOK
<1>5. CASE AddLogsInsert
  <2>1. [work EXCEPT !.log[entry] = "unused"] \in Contents
    BY <1>5 DEF AddLogsInsert, TypeInv, TypeOK, Contents
  <2> QED BY <1>5, <2>1, WriteType DEF AddLogsInsert, TypeInv, TypeOK
<1>6. CASE AddLogsEnd
  BY <1>6 DEF AddLogsEnd, Commit, TypeInv, TypeOK
<1>7. CASE Reply
  BY <1>7 DEF Reply, TypeInv, TypeOK
<1>8. CASE NamesOrBeginFail
  BY <1>8, DatabaseAssumption DEF NamesOrBeginFail, Fault, TypeInv, TypeOK
<1>9. CASE AddLogsFails
  BY <1>9, DatabaseAssumption DEF AddLogsFails, Fault, Rollback, TypeInv, TypeOK
<1>10. CASE MainReturns
  BY <1>10, TypeServerEnds DEF MainReturns, TypeInv, TypeOK
<1>11. CASE SkipBlank
  BY <1>11 DEF SkipBlank, TypeInv, TypeOK
<1>12. CASE GetShellIds
  BY <1>12 DEF GetShellIds, TypeInv, TypeOK
<1>13. CASE InsertShell
  <2>1. [work EXCEPT !.shell = @ \cup {entry}] \in Contents
    BY <1>13 DEF InsertShell, TypeInv, TypeOK, Contents
  <2> QED BY <1>13, <2>1, WriteType DEF InsertShell, TypeInv, TypeOK
<1> QED BY <1>1, <1>2, <1>3, <1>4, <1>5, <1>6, <1>7, <1>8, <1>9, <1>10, <1>11, <1>12, <1>13 DEF DbusNext

LEMMA TypeAnalyzer == TypeInv /\ AnalyzerNext => TypeInv'
<1> SUFFICES ASSUME TypeInv, AnalyzerNext PROVE TypeInv'
  OBVIOUS
<1> USE DEF AnalyzerStep, dbusVars, analyzerVars, webVars, envVars, connVars, At, Goto, EntryHeld,
            DbusLabels, AnalyzerLabels, WebLabels, Threads, NextHost
<1>1. CASE StartAnalysis
  BY <1>1, HostsWithLogsType DEF StartAnalysis, TypeInv, TypeOK
<1>2. CASE SkipAnalysis
  BY <1>2 DEF SkipAnalysis, vars, histVars, TypeInv, TypeOK
<1>3. ASSUME NEW h \in hosts, CountUnused(h) PROVE TypeInv'
  <2>1. Cardinality(UnusedLogs(h)) \in Nat
    BY UnusedCount
  <2> QED BY <1>3, <2>1 DEF CountUnused, TypeInv, TypeOK
<1>4. ASSUME NEW rows \in SUBSET UnusedLogs(host), FetchUnused(rows) PROVE TypeInv'
  <2>1. rows \subseteq Logs
    BY DEF UnusedLogs
  <2>2. left' \in Nat
    BY <1>4, DatabaseAssumption DEF FetchUnused, TypeInv, TypeOK
  <2>3. mem' \in [Logs -> Nat]
    BY <1>4 DEF FetchUnused, TypeInv, TypeOK
  <2> QED BY <1>4, <2>1, <2>2, <2>3 DEF FetchUnused, TypeInv, TypeOK
<1>5. CASE MarkLogsAsUsed
  <2>1. Marked(batch) \in Contents
    BY DEF Marked, TypeInv, TypeOK, Contents
  <2> QED BY <1>5, <2>1, WriteType DEF MarkLogsAsUsed, TypeInv, TypeOK
<1>6. CASE SaveBegin
  BY <1>6 DEF SaveBegin, Begin, TypeInv, TypeOK
<1>7. ASSUME NEW s \in SUBSET InMemory, SaveInsert(s) PROVE TypeInv'
  <2>1. [work EXCEPT !.count = [l \in Logs |->
            IF l \in s THEN work.count[l] + mem[l] ELSE work.count[l]]] \in Contents
    BY DEF TypeInv, TypeOK, Contents
  <2>2. mem' \in [Logs -> Nat]
    BY <1>7 DEF SaveInsert, TypeInv, TypeOK
  <2> QED BY <1>7, <2>1, <2>2, WriteType DEF SaveInsert, TypeInv, TypeOK
<1>8. CASE SaveEnd
  BY <1>8 DEF SaveEnd, Commit, TypeInv, TypeOK
<1>9. CASE SaveBusy
  <2>1. lostNames' \in SUBSET Hosts
    BY <1>9 DEF SaveBusy, UncommittedNames, TypeInv, TypeOK, Contents
  <2>2. dropped' \in SUBSET Logs
    BY <1>9 DEF SaveBusy, Unsaved, InMemory, TypeInv, TypeOK
  <2> QED BY <1>9, <2>1, <2>2, DatabaseAssumption
      DEF SaveBusy, Rollback, Fault, NoSessions, TypeInv, TypeOK
<1>10. CASE KnnAnalyze
  BY <1>10 DEF KnnAnalyze, TypeInv, TypeOK
<1>11. CASE SetLastRun
  <2>1. [work EXCEPT !.lastRun = now] \in Contents
    BY DatabaseAssumption DEF TypeInv, TypeOK, Contents
  <2> QED BY <1>11, <2>1, WriteType DEF SetLastRun, TypeInv, TypeOK
<1>12. CASE AnalyzerThrows
  BY <1>12, TypeServerEnds, DatabaseAssumption DEF AnalyzerThrows, Fault, TypeInv, TypeOK
<1> QED BY <1>1, <1>2, <1>3, <1>4, <1>5, <1>6, <1>7, <1>8, <1>9, <1>10, <1>11, <1>12 DEF AnalyzerNext

LEMMA TypeWeb == TypeInv /\ WebNext => TypeInv'
<1> SUFFICES ASSUME TypeInv, WebNext PROVE TypeInv'
  OBVIOUS
<1> USE DEF WebStep, dbusVars, analyzerVars, webVars, envVars, histVars, connVars, At, Goto, EntryHeld,
            DbusLabels, AnalyzerLabels, WebLabels, Threads
<1>0. /\ work \in Contents
      /\ [work EXCEPT !.learning = request] \in Contents
      /\ [work EXCEPT !.learning = 0] \in Contents
  BY DatabaseAssumption DEF TypeInv, TypeOK, Contents
<1>1. CASE WebRequest
  BY <1>1, DatabaseAssumption DEF WebRequest, TypeInv, TypeOK
<1>2. CASE SetApacheSessionAsAnomaly
  BY <1>0, <1>2, ExecType DEF SetApacheSessionAsAnomaly, TypeInv, TypeOK
<1>3. CASE GetIds
  BY <1>3 DEF GetIds, TypeInv, TypeOK
<1>4. CASE RemoveAllLearningSessions
  BY <1>0, <1>4, WriteType DEF RemoveAllLearningSessions, TypeInv, TypeOK
<1>5. CASE SetLearningSessions
  BY <1>0, <1>5, ExecType DEF SetLearningSessions, TypeInv, TypeOK
<1>6. CASE WebError
  BY <1>6, DatabaseAssumption DEF WebError, Fault, TypeInv, TypeOK
<1>7. CASE WebErrorInside
  BY <1>0, <1>7, DatabaseAssumption DEF WebErrorInside, Fault, TypeInv, TypeOK
<1> QED BY <1>1, <1>2, <1>3, <1>4, <1>5, <1>6, <1>7 DEF WebNext

LEMMA TypeStep == TypeInv /\ [Next]_vars => TypeInv'
<1> SUFFICES ASSUME TypeInv, [Next]_vars PROVE TypeInv'
  OBVIOUS
<1> USE DEF dbusVars, analyzerVars, webVars, envVars, histVars, connVars
<1>1. CASE Crash
  BY <1>1, TypeServerEnds, DatabaseAssumption DEF Crash, TypeInv, TypeOK
<1>2. CASE Restart
  BY <1>2 DEF Restart, TypeInv, TypeOK, EntryHeld
<1>3. CASE Tick
  BY <1>3, DatabaseAssumption DEF Tick, TypeInv, TypeOK, EntryHeld
<1>4. CASE UNCHANGED vars
  BY <1>4 DEF vars, TypeInv, TypeOK, EntryHeld
<1> QED BY <1>1, <1>2, <1>3, <1>4, TypeDbus, TypeAnalyzer, TypeWeb DEF Next

\* Type correctness of the database and its three threads.
THEOREM TypeCorrect == Spec => []TypeOK
<1>1. Spec => []TypeInv
  BY TypeInit, TypeStep, PTL DEF Spec
<1> QED BY <1>1, PTL DEF TypeInv
-----------------------------------------------------------------------------
(***************************************************************************)
(* The inductive invariant behind AckedDurable: which thread the open      *)
(* transaction belongs to, and where the entry in the dbus thread's hands  *)
(* is.  It is needed because AddLogs answers for a commit made by SQLite   *)
(* on behalf of every thread that joined the transaction.                  *)
(***************************************************************************)
Transactions ==
    /\ txn = "none" => disk = work
    /\ txn = "dbus" <=> pc["dbus"] \in {"insert", "end"}
    /\ txn = "analyzer" <=> pc["analyzer"] = "insert"

EntryWhere ==
    /\ pc["dbus"] \notin {"idle", "dying"} => entry \in sent
    /\ entry \in Logs =>
          /\ pc["dbus"] \in {"agent", "vhost", "begin", "insert"} => work.log[entry] = "absent"
          /\ pc["dbus"] = "end" => work.log[entry] # "absent"
          /\ pc["dbus"] = "reply" => disk.log[entry] # "absent"
    /\ entry \in ShellLogs /\ pc["dbus"] = "reply" => entry \in joined \cup disk.shell

StoredOnly ==
    /\ \A l \in Logs : disk.log[l] # "absent" => work.log[l] # "absent"
    /\ \A l \in Logs : work.log[l] # "absent" => l \in sent
    /\ disk.shell \subseteq work.shell /\ work.shell \subseteq sent

DurableInv == TypeInv /\ Transactions /\ EntryWhere /\ StoredOnly /\ AckedDurable


LEMMA DurableInit == Init => DurableInv
BY TypeInit, DatabaseAssumption
   DEF Init, DurableInv, Transactions, EntryWhere, StoredOnly, AckedDurable, Stored, EmptyTables, Threads

\* The end of the process rolls the open transaction back and loses the entry in hand.
LEMMA DurableServerEnds ==
    ASSUME DurableInv, TypeInv', ServerEnds PROVE DurableInv'
BY DEF DurableInv, Transactions, EntryWhere, StoredOnly, AckedDurable, Stored, TypeInv, TypeOK,
   ServerEnds, Rollback, Threads

LEMMA DurableStep == DurableInv /\ [Next]_vars => DurableInv'
<1> SUFFICES ASSUME DurableInv, [Next]_vars PROVE DurableInv'
  OBVIOUS
<1>0. TypeInv /\ TypeInv'
  BY TypeStep DEF DurableInv
<1>00. \A l \in Logs : l \notin ShellLogs
  BY DatabaseAssumption
<1> USE <1>0 DEF DurableInv, Transactions, EntryWhere, StoredOnly, AckedDurable, Stored,
            TypeInv, TypeOK, EntryHeld, Contents,
            dbusVars, analyzerVars, webVars, envVars, histVars, connVars, At, Goto, Threads,
            DbusLabels, AnalyzerLabels, WebLabels, DbusStep, AnalyzerStep, WebStep,
            Write, Begin, Commit, Rollback, ExecTransaction, NextHost
<1>1. ASSUME NEW l \in Logs \cup ShellLogs, Receive(l) PROVE DurableInv'
  BY <1>1 DEF Receive
<1>2. CASE AddAgentName
  BY <1>2 DEF AddAgentName
<1>3. CASE AddVirtualhostName
  BY <1>3 DEF AddVirtualhostName
<1>4. CASE AddLogsBegin
  BY <1>4 DEF AddLogsBegin
<1>5. CASE AddLogsInsert
  BY <1>5 DEF AddLogsInsert
<1>6. CASE AddLogsEnd
  BY <1>00, <1>6 DEF AddLogsEnd
<1>7. CASE Reply
  BY <1>7 DEF Reply
<1>8. CASE NamesOrBeginFail
  BY <1>8 DEF NamesOrBeginFail
<1>9. CASE AddLogsFails
  BY <1>9 DEF AddLogsFails
<1>10. CASE MainReturns
  BY <1>10, DurableServerEnds DEF MainReturns
<1>11. CASE StartAnalysis
  BY <1>11 DEF StartAnalysis
<1>12. CASE SkipAnalysis
  BY <1>12 DEF SkipAnalysis, vars
<1>13. ASSUME NEW h \in hosts, CountUnused(h) PROVE DurableInv'
  BY <1>13 DEF CountUnused
<1>14. ASSUME NEW rows \in SUBSET UnusedLogs(host), FetchUnused(rows) PROVE DurableInv'
  BY <1>14 DEF FetchUnused
<1>15. CASE MarkLogsAsUsed
  <2>1. /\ Marked(batch).shell = work.shell
        /\ \A l \in Logs : Marked(batch).log[l] = "absent" <=> work.log[l] = "absent"
    BY DEF Marked
  <2>2. work' = Marked(batch) /\ (disk' = disk \/ disk' = work')
    BY <1>15 DEF MarkLogsAsUsed
  <2>3. Transactions'
    BY <1>15 DEF MarkLogsAsUsed
  <2>4. EntryWhere'
    BY <1>15, <2>1, <2>2 DEF MarkLogsAsUsed
  <2>5. StoredOnly'
    BY <1>15, <2>1, <2>2 DEF MarkLogsAsUsed
  <2>6. AckedDurable'
    BY <1>15, <2>1, <2>2 DEF MarkLogsAsUsed
  <2> QED BY <2>3, <2>4, <2>5, <2>6
<1>16. CASE SaveBegin
  BY <1>16 DEF SaveBegin
<1>17. ASSUME NEW s \in SUBSET InMemory, SaveInsert(s) PROVE DurableInv'
  BY <1>17 DEF SaveInsert
<1>18. CASE SaveEnd
  BY <1>18 DEF SaveEnd
<1>19. CASE SaveBusy
  BY <1>19 DEF SaveBusy
<1>20. CASE KnnAnalyze
  BY <1>20 DEF KnnAnalyze
<1>21. CASE SetLastRun
  BY <1>21 DEF SetLastRun
<1>22. CASE AnalyzerThrows
  BY <1>22, DurableServerEnds DEF AnalyzerThrows
<1>23. CASE WebRequest
  BY <1>23 DEF WebRequest
<1>24. CASE SetApacheSessionAsAnomaly
  BY <1>24 DEF SetApacheSessionAsAnomaly
<1>25. CASE GetIds
  BY <1>25 DEF GetIds
<1>26. CASE RemoveAllLearningSessions
  BY <1>26 DEF RemoveAllLearningSessions
<1>27. CASE SetLearningSessions
  BY <1>27 DEF SetLearningSessions
<1>28. CASE WebError
  BY <1>28 DEF WebError
<1>29. CASE WebErrorInside
  BY <1>29 DEF WebErrorInside
<1>30. CASE Crash
  BY <1>30, DurableServerEnds DEF Crash
<1>31. CASE Restart
  BY <1>31 DEF Restart
<1>32. CASE Tick
  BY <1>32 DEF Tick
<1>33. CASE UNCHANGED vars
  BY <1>33 DEF vars
<1>34. CASE SkipBlank
  BY <1>00, <1>34 DEF SkipBlank
<1>35. CASE GetShellIds
  BY <1>35 DEF GetShellIds
<1>36. CASE InsertShell
  BY <1>00, <1>36 DEF InsertShell
<1> QED BY <1>1, <1>2, <1>3, <1>4, <1>5, <1>6, <1>7, <1>8, <1>9, <1>10, <1>11, <1>12, <1>13, <1>14, <1>15, <1>16, <1>17, <1>18, <1>19, <1>20, <1>21, <1>22, <1>23, <1>24, <1>25, <1>26, <1>27, <1>28, <1>29, <1>30, <1>31, <1>32, <1>33, <1>34, <1>35, <1>36
  DEF Next, DbusNext, AnalyzerNext, WebNext

\* An answered AddLogEntry is durable, for every interleaving of the three threads
\* on the connection and every pattern of failing statements and crashes.
THEOREM AckedIsDurable == Spec => []AckedDurable
<1>1. Spec => []DurableInv
  BY DurableInit, DurableStep, PTL DEF Spec
<1> QED BY <1>1, PTL DEF DurableInv
-----------------------------------------------------------------------------
(***************************************************************************)
(* The inductive invariant behind CountedOnce and MarkedBeforeCounted, for *)
(* the entries no failing AddLogs touched: an entry is counted in memory   *)
(* only between GetUnusedLogs and the commit of its session, and marked as *)
(* used meanwhile.                                                         *)
(***************************************************************************)
BatchOnlyAtMark == pc["analyzer"] # "mark" => batch = {}

LogOnlyGrows ==
    /\ \A l \in Logs : disk.log[l] = "used" => work.log[l] = "used" \/ l \in undone
    /\ txn = "analyzer" => work.log = disk.log
    /\ txn # "analyzer" => work.count = disk.count

CountedFor(l) ==
    /\ work.count[l] + mem[l] <= 1 /\ disk.count[l] <= work.count[l]
    /\ disk.count[l] > 0 => disk.log[l] = "used"
    /\ work.count[l] > 0 => work.log[l] = "used"
    /\ mem[l] > 0 => l \in batch \/ work.log[l] = "used"
    /\ l \in batch => work.log[l] = "unused" /\ work.count[l] = 0

CountInv ==
    /\ DurableInv /\ BatchOnlyAtMark /\ LogOnlyGrows
    /\ \A l \in Logs : l \notin undone => CountedFor(l)

LEMMA CountInit == Init => CountInv
BY DurableInit, DatabaseAssumption
   DEF Init, CountInv, BatchOnlyAtMark, LogOnlyGrows, CountedFor, EmptyTables, NoSessions, Threads

LEMMA CountServerEnds ==
    ASSUME CountInv, DurableInv', ServerEnds PROVE CountInv'
BY DEF CountInv, DurableInv, Transactions, TypeInv, TypeOK, Contents, BatchOnlyAtMark, LogOnlyGrows,
   CountedFor, ServerEnds, Rollback, NoSessions, Threads

LEMMA CountStep == CountInv /\ [Next]_vars => CountInv'
<1> SUFFICES ASSUME CountInv, [Next]_vars PROVE CountInv'
  OBVIOUS
<1>0. DurableInv /\ DurableInv'
  BY DurableStep DEF CountInv
<1> USE <1>0 DEF CountInv, BatchOnlyAtMark, LogOnlyGrows, CountedFor, DurableInv, Transactions, EntryWhere,
            TypeInv, TypeOK, EntryHeld, Contents,
            dbusVars, analyzerVars, webVars, envVars, histVars, connVars, At, Goto, Threads,
            DbusLabels, AnalyzerLabels, WebLabels, DbusStep, AnalyzerStep, WebStep,
            Write, Begin, Commit, Rollback, ExecTransaction, NextHost
<1>1. ASSUME NEW l \in Logs \cup ShellLogs, Receive(l) PROVE CountInv'
  BY <1>1 DEF Receive
<1>2. CASE AddAgentName
  BY <1>2 DEF AddAgentName
<1>3. CASE AddVirtualhostName
  BY <1>3 DEF AddVirtualhostName
<1>4. CASE AddLogsBegin
  BY <1>4 DEF AddLogsBegin
<1>5. CASE AddLogsInsert
  BY <1>5 DEF AddLogsInsert
<1>6. CASE AddLogsEnd
  BY <1>6 DEF AddLogsEnd
<1>7. CASE Reply
  BY <1>7 DEF Reply
<1>8. CASE NamesOrBeginFail
  BY <1>8 DEF NamesOrBeginFail
<1>9. CASE AddLogsFails
  BY <1>9 DEF AddLogsFails
<1>10. CASE MainReturns
  BY <1>10, CountServerEnds DEF MainReturns
<1>11. CASE StartAnalysis
  BY <1>11 DEF StartAnalysis
<1>12. CASE SkipAnalysis
  BY <1>12 DEF SkipAnalysis, vars
<1>13. ASSUME NEW h \in hosts, CountUnused(h) PROVE CountInv'
  BY <1>13 DEF CountUnused
<1>14. ASSUME NEW rows \in SUBSET UnusedLogs(host), FetchUnused(rows) PROVE CountInv'
  BY <1>14 DEF FetchUnused, UnusedLogs
<1>15. CASE MarkLogsAsUsed
  BY <1>15 DEF MarkLogsAsUsed, Marked
<1>16. CASE SaveBegin
  BY <1>16 DEF SaveBegin
<1>17. ASSUME NEW s \in SUBSET InMemory, SaveInsert(s) PROVE CountInv'
  BY <1>17 DEF SaveInsert, InMemory
<1>18. CASE SaveEnd
  BY <1>18 DEF SaveEnd
<1>19. CASE SaveBusy
  BY <1>19 DEF SaveBusy, NoSessions
<1>20. CASE KnnAnalyze
  BY <1>20 DEF KnnAnalyze
<1>21. CASE SetLastRun
  BY <1>21 DEF SetLastRun
<1>22. CASE AnalyzerThrows
  BY <1>22, CountServerEnds DEF AnalyzerThrows
<1>23. CASE WebRequest
  BY <1>23 DEF WebRequest
<1>24. CASE SetApacheSessionAsAnomaly
  BY <1>24 DEF SetApacheSessionAsAnomaly
<1>25. CASE GetIds
  BY <1>25 DEF GetIds
<1>26. CASE RemoveAllLearningSessions
  BY <1>26 DEF RemoveAllLearningSessions
<1>27. CASE SetLearningSessions
  BY <1>27 DEF SetLearningSessions
<1>28. CASE WebError
  BY <1>28 DEF WebError
<1>29. CASE WebErrorInside
  BY <1>29 DEF WebErrorInside
<1>30. CASE Crash
  BY <1>30, CountServerEnds DEF Crash
<1>31. CASE Restart
  BY <1>31 DEF Restart
<1>32. CASE Tick
  BY <1>32 DEF Tick
<1>33. CASE UNCHANGED vars
  BY <1>33 DEF vars
<1>34. CASE SkipBlank
  BY <1>34 DEF SkipBlank
<1>35. CASE GetShellIds
  BY <1>35 DEF GetShellIds
<1>36. CASE InsertShell
  BY <1>36 DEF InsertShell
<1> QED BY <1>1, <1>2, <1>3, <1>4, <1>5, <1>6, <1>7, <1>8, <1>9, <1>10, <1>11, <1>12, <1>13, <1>14, <1>15, <1>16, <1>17, <1>18, <1>19, <1>20, <1>21, <1>22, <1>23, <1>24, <1>25, <1>26, <1>27, <1>28, <1>29, <1>30, <1>31, <1>32, <1>33, <1>34, <1>35, <1>36
  DEF Next, DbusNext, AnalyzerNext, WebNext

\* No entry is counted by two saved sessions: an analysis that is interrupted by a
\* crash or a failed save may lose entries but never counts one again.
THEOREM CountedAtMostOnce == Spec => [](CountedOnce /\ MarkedBeforeCounted)
<1>1. Spec => []CountInv
  BY CountInit, CountStep, PTL DEF Spec
<1>2. CountInv => CountedOnce /\ MarkedBeforeCounted
  BY DEF CountInv, CountedFor, CountedOnce, MarkedBeforeCounted, DurableInv, TypeInv, TypeOK, Contents
<1> QED BY <1>1, <1>2, PTL
-----------------------------------------------------------------------------
(***************************************************************************)
(* The invariant behind the other properties, on top of CountInv.  A mark  *)
(* or a count that reached the file is never taken back; an entry that is  *)
(* not in the table yet is counted nowhere; the names of a stored entry    *)
(* are stored before it, outside the transaction of AddLogs.               *)
(***************************************************************************)
MarksStay ==
    \A l \in Logs : /\ disk.log[l] = "used" => work.log[l] = "used"
                    /\ disk.count[l] <= work.count[l]

\* AddLogs may still add the entry to the table.
NotAdded(l) == l \notin sent \/ (l = entry /\ pc["dbus"] \in {"agent", "vhost", "begin", "insert"})

NewUncounted ==
    /\ \A l \in Logs : NotAdded(l) => mem[l] = 0 /\ work.count[l] = 0
    /\ \A l \in Logs : disk.log[l] = "absent" /\ work.log[l] # "absent" => work.count[l] = 0

Known == (work.agents \cap work.vhosts) \cup lostNames

NamesInv ==
    /\ disk.agents \subseteq work.agents /\ disk.vhosts \subseteq work.vhosts
    /\ txn = "dbus" => UncommittedNames = {}
    /\ pc["dbus"] \in {"vhost", "begin", "insert", "end"} =>
          HostOf[entry] \in work.agents \cup lostNames
    /\ pc["dbus"] \in {"begin", "insert", "end"} => HostOf[entry] \in work.vhosts \cup lostNames
    /\ \A l \in Stored(work) : HostOf[l] \in Known
    /\ pc["dbus"] \in {"id", "shell"} => HostOf[entry] \in work.agents \cup lostNames
    /\ \A l \in work.shell : HostOf[l] \in work.agents \cup lostNames
    /\ NamesKnown

LossInv == NoSilentLoss /\ batch \subseteq InMemory

WebInv ==
    /\ pc["web"] # "idle" => reply = "pending" /\ WebHost \in Known
    /\ pc["web"] = "nowhere" => WebHost \in lostNames
    /\ pc["web"] = "idle" /\ reply = "ok" => work.learning = request \/ WebHost \in lostNames
    /\ WebOkDurable

FileInv == CountInv /\ MarksStay /\ NewUncounted /\ NamesInv /\ LossInv /\ WebInv

LEMMA FileMarksStep == FileInv /\ [Next]_vars => (MarksStay' /\ NewUncounted')
<1> SUFFICES ASSUME FileInv, [Next]_vars PROVE (MarksStay' /\ NewUncounted')
  OBVIOUS
<1> USE DEF FileInv, MarksStay, NewUncounted, NotAdded, NoSessions, InMemory,
            CountInv, LogOnlyGrows, DurableInv, Transactions, EntryWhere, StoredOnly, TypeInv, TypeOK, EntryHeld, Contents,
            dbusVars, analyzerVars, webVars, envVars, histVars, connVars, At, Goto, Threads,
            DbusLabels, AnalyzerLabels, WebLabels, DbusStep, AnalyzerStep, WebStep,
            Write, Begin, Commit, Rollback, ExecTransaction, NextHost
<1>1. ASSUME NEW l \in Logs \cup ShellLogs, Receive(l) PROVE (MarksStay' /\ NewUncounted')
  BY <1>1 DEF Receive
<1>2. CASE AddAgentName
  BY <1>2 DEF AddAgentName
<1>3. CASE AddVirtualhostName
  BY <1>3 DEF AddVirtualhostName
<1>4. CASE AddLogsBegin
  BY <1>4 DEF AddLogsBegin
<1>5. CASE AddLogsInsert
  BY <1>5 DEF AddLogsInsert
<1>6. CASE AddLogsEnd
  BY <1>6 DEF AddLogsEnd
<1>7. CASE Reply
  BY <1>7 DEF Reply
<1>8. CASE NamesOrBeginFail
  BY <1>8 DEF NamesOrBeginFail
<1>9. CASE AddLogsFails
  BY <1>9 DEF AddLogsFails
<1>10. CASE MainReturns
  BY <1>10 DEF MainReturns, ServerEnds
<1>11. CASE StartAnalysis
  BY <1>11 DEF StartAnalysis
<1>12. CASE SkipAnalysis
  BY <1>12 DEF SkipAnalysis, vars
<1>13. ASSUME NEW h \in hosts, CountUnused(h) PROVE (MarksStay' /\ NewUncounted')
  BY <1>13 DEF CountUnused
<1>14. ASSUME NEW rows \in SUBSET UnusedLogs(host), FetchUnused(rows) PROVE (MarksStay' /\ NewUncounted')
  BY <1>14 DEF FetchUnused, UnusedLogs
<1>15. CASE MarkLogsAsUsed
  BY <1>15 DEF MarkLogsAsUsed, Marked
<1>16. CASE SaveBegin
  BY <1>16 DEF SaveBegin
<1>17. ASSUME NEW s \in SUBSET InMemory, SaveInsert(s) PROVE (MarksStay' /\ NewUncounted')
  BY <1>17 DEF SaveInsert
<1>18. CASE SaveEnd
  BY <1>18 DEF SaveEnd
<1>19. CASE SaveBusy
  BY <1>19 DEF SaveBusy
<1>20. CASE KnnAnalyze
  BY <1>20 DEF KnnAnalyze
<1>21. CASE SetLastRun
  BY <1>21 DEF SetLastRun
<1>22. CASE AnalyzerThrows
  BY <1>22 DEF AnalyzerThrows, ServerEnds
<1>23. CASE WebRequest
  BY <1>23 DEF WebRequest
<1>24. CASE SetApacheSessionAsAnomaly
  BY <1>24 DEF SetApacheSessionAsAnomaly
<1>25. CASE GetIds
  BY <1>25 DEF GetIds
<1>26. CASE RemoveAllLearningSessions
  BY <1>26 DEF RemoveAllLearningSessions
<1>27. CASE SetLearningSessions
  BY <1>27 DEF SetLearningSessions
<1>28. CASE WebError
  BY <1>28 DEF WebError
<1>29. CASE WebErrorInside
  BY <1>29 DEF WebErrorInside
<1>30. CASE Crash
  BY <1>30 DEF Crash, ServerEnds
<1>31. CASE Restart
  BY <1>31 DEF Restart
<1>32. CASE Tick
  BY <1>32 DEF Tick
<1>33. CASE UNCHANGED vars
  BY <1>33 DEF vars
<1>34. CASE SkipBlank
  BY <1>34 DEF SkipBlank
<1>35. CASE GetShellIds
  BY <1>35 DEF GetShellIds
<1>36. CASE InsertShell
  BY <1>36 DEF InsertShell
<1> QED BY <1>1, <1>2, <1>3, <1>4, <1>5, <1>6, <1>7, <1>8, <1>9, <1>10, <1>11, <1>12, <1>13, <1>14, <1>15, <1>16, <1>17, <1>18, <1>19, <1>20, <1>21, <1>22, <1>23, <1>24, <1>25, <1>26, <1>27, <1>28, <1>29, <1>30, <1>31, <1>32, <1>33, <1>34, <1>35, <1>36
  DEF Next, DbusNext, AnalyzerNext, WebNext

LEMMA FileNamesStep == FileInv /\ [Next]_vars => NamesInv'
<1> SUFFICES ASSUME FileInv, [Next]_vars PROVE NamesInv'
  OBVIOUS
<1> USE DEF FileInv, NamesInv, Known, NamesKnown, Stored, UncommittedNames,
            CountInv, LogOnlyGrows, DurableInv, Transactions, EntryWhere, StoredOnly, TypeInv, TypeOK, EntryHeld, Contents,
            dbusVars, analyzerVars, webVars, envVars, histVars, connVars, At, Goto, Threads,
            DbusLabels, AnalyzerLabels, WebLabels, DbusStep, AnalyzerStep, WebStep,
            Write, Begin, Commit, Rollback, ExecTransaction, NextHost
<1>1. ASSUME NEW l \in Logs \cup ShellLogs, Receive(l) PROVE NamesInv'
  BY <1>1 DEF Receive
<1>2. CASE AddAgentName
  BY <1>2 DEF AddAgentName
<1>3. CASE AddVirtualhostName
  BY <1>3 DEF AddVirtualhostName
<1>4. CASE AddLogsBegin
  BY <1>4 DEF AddLogsBegin
<1>5. CASE AddLogsInsert
  BY <1>5 DEF AddLogsInsert
<1>6. CASE AddLogsEnd
  BY <1>6 DEF AddLogsEnd
<1>7. CASE Reply
  BY <1>7 DEF Reply
<1>8. CASE NamesOrBeginFail
  BY <1>8 DEF NamesOrBeginFail
<1>9. CASE AddLogsFails
  BY <1>9 DEF AddLogsFails
<1>10. CASE MainReturns
  BY <1>10 DEF MainReturns, ServerEnds
<1>11. CASE StartAnalysis
  BY <1>11 DEF StartAnalysis
<1>12. CASE SkipAnalysis
  BY <1>12 DEF SkipAnalysis, vars
<1>13. ASSUME NEW h \in hosts, CountUnused(h) PROVE NamesInv'
  BY <1>13 DEF CountUnused
<1>14. ASSUME NEW rows \in SUBSET UnusedLogs(host), FetchUnused(rows) PROVE NamesInv'
  BY <1>14 DEF FetchUnused, UnusedLogs
<1>15. CASE MarkLogsAsUsed
  BY <1>15 DEF MarkLogsAsUsed, Marked
<1>16. CASE SaveBegin
  BY <1>16 DEF SaveBegin
<1>17. ASSUME NEW s \in SUBSET InMemory, SaveInsert(s) PROVE NamesInv'
  BY <1>17 DEF SaveInsert
<1>18. CASE SaveEnd
  BY <1>18 DEF SaveEnd
<1>19. CASE SaveBusy
  BY <1>19 DEF SaveBusy
<1>20. CASE KnnAnalyze
  BY <1>20 DEF KnnAnalyze
<1>21. CASE SetLastRun
  BY <1>21 DEF SetLastRun
<1>22. CASE AnalyzerThrows
  BY <1>22 DEF AnalyzerThrows, ServerEnds
<1>23. CASE WebRequest
  BY <1>23 DEF WebRequest
<1>24. CASE SetApacheSessionAsAnomaly
  BY <1>24 DEF SetApacheSessionAsAnomaly
<1>25. CASE GetIds
  BY <1>25 DEF GetIds
<1>26. CASE RemoveAllLearningSessions
  BY <1>26 DEF RemoveAllLearningSessions
<1>27. CASE SetLearningSessions
  BY <1>27 DEF SetLearningSessions
<1>28. CASE WebError
  BY <1>28 DEF WebError
<1>29. CASE WebErrorInside
  BY <1>29 DEF WebErrorInside
<1>30. CASE Crash
  BY <1>30 DEF Crash, ServerEnds
<1>31. CASE Restart
  BY <1>31 DEF Restart
<1>32. CASE Tick
  BY <1>32 DEF Tick
<1>33. CASE UNCHANGED vars
  BY <1>33 DEF vars
<1>34. CASE SkipBlank
  BY <1>34 DEF SkipBlank
<1>35. CASE GetShellIds
  BY <1>35 DEF GetShellIds
<1>36. CASE InsertShell
  BY <1>36 DEF InsertShell
<1> QED BY <1>1, <1>2, <1>3, <1>4, <1>5, <1>6, <1>7, <1>8, <1>9, <1>10, <1>11, <1>12, <1>13, <1>14, <1>15, <1>16, <1>17, <1>18, <1>19, <1>20, <1>21, <1>22, <1>23, <1>24, <1>25, <1>26, <1>27, <1>28, <1>29, <1>30, <1>31, <1>32, <1>33, <1>34, <1>35, <1>36
  DEF Next, DbusNext, AnalyzerNext, WebNext

LEMMA FileLossStep == FileInv /\ [Next]_vars => LossInv'
<1> SUFFICES ASSUME FileInv, [Next]_vars PROVE LossInv'
  OBVIOUS
<1> USE DEF FileInv, LossInv, NoSilentLoss, NoSessions, InMemory, Unsaved, MarksStay,
            CountInv, BatchOnlyAtMark, LogOnlyGrows, DurableInv, Transactions, EntryWhere, StoredOnly, TypeInv, TypeOK, EntryHeld, Contents,
            dbusVars, analyzerVars, webVars, envVars, histVars, connVars, At, Goto, Threads,
            DbusLabels, AnalyzerLabels, WebLabels, DbusStep, AnalyzerStep, WebStep,
            Write, Begin, Commit, Rollback, ExecTransaction, NextHost
<1>1. ASSUME NEW l \in Logs \cup ShellLogs, Receive(l) PROVE LossInv'
  BY <1>1 DEF Receive
<1>2. CASE AddAgentName
  BY <1>2 DEF AddAgentName
<1>3. CASE AddVirtualhostName
  BY <1>3 DEF AddVirtualhostName
<1>4. CASE AddLogsBegin
  BY <1>4 DEF AddLogsBegin
<1>5. CASE AddLogsInsert
  BY <1>5 DEF AddLogsInsert
<1>6. CASE AddLogsEnd
  BY <1>6 DEF AddLogsEnd
<1>7. CASE Reply
  BY <1>7 DEF Reply
<1>8. CASE NamesOrBeginFail
  BY <1>8 DEF NamesOrBeginFail
<1>9. CASE AddLogsFails
  BY <1>9 DEF AddLogsFails
<1>10. CASE MainReturns
  BY <1>10 DEF MainReturns, ServerEnds
<1>11. CASE StartAnalysis
  BY <1>11 DEF StartAnalysis
<1>12. CASE SkipAnalysis
  BY <1>12 DEF SkipAnalysis, vars
<1>13. ASSUME NEW h \in hosts, CountUnused(h) PROVE LossInv'
  BY <1>13 DEF CountUnused
<1>14. ASSUME NEW rows \in SUBSET UnusedLogs(host), FetchUnused(rows) PROVE LossInv'
  BY <1>14 DEF FetchUnused, UnusedLogs
<1>15. CASE MarkLogsAsUsed
  BY <1>15 DEF MarkLogsAsUsed, Marked
<1>16. CASE SaveBegin
  BY <1>16 DEF SaveBegin
<1>17. ASSUME NEW s \in SUBSET InMemory, SaveInsert(s) PROVE LossInv'
  BY <1>17 DEF SaveInsert
<1>18. CASE SaveEnd
  BY <1>18 DEF SaveEnd
<1>19. CASE SaveBusy
  BY <1>19 DEF SaveBusy
<1>20. CASE KnnAnalyze
  BY <1>20 DEF KnnAnalyze
<1>21. CASE SetLastRun
  BY <1>21 DEF SetLastRun
<1>22. CASE AnalyzerThrows
  BY <1>22 DEF AnalyzerThrows, ServerEnds
<1>23. CASE WebRequest
  BY <1>23 DEF WebRequest
<1>24. CASE SetApacheSessionAsAnomaly
  BY <1>24 DEF SetApacheSessionAsAnomaly
<1>25. CASE GetIds
  BY <1>25 DEF GetIds
<1>26. CASE RemoveAllLearningSessions
  BY <1>26 DEF RemoveAllLearningSessions
<1>27. CASE SetLearningSessions
  BY <1>27 DEF SetLearningSessions
<1>28. CASE WebError
  BY <1>28 DEF WebError
<1>29. CASE WebErrorInside
  BY <1>29 DEF WebErrorInside
<1>30. CASE Crash
  BY <1>30 DEF Crash, ServerEnds
<1>31. CASE Restart
  BY <1>31 DEF Restart
<1>32. CASE Tick
  BY <1>32 DEF Tick
<1>33. CASE UNCHANGED vars
  BY <1>33 DEF vars
<1>34. CASE SkipBlank
  BY <1>34 DEF SkipBlank
<1>35. CASE GetShellIds
  BY <1>35 DEF GetShellIds
<1>36. CASE InsertShell
  BY <1>36 DEF InsertShell
<1> QED BY <1>1, <1>2, <1>3, <1>4, <1>5, <1>6, <1>7, <1>8, <1>9, <1>10, <1>11, <1>12, <1>13, <1>14, <1>15, <1>16, <1>17, <1>18, <1>19, <1>20, <1>21, <1>22, <1>23, <1>24, <1>25, <1>26, <1>27, <1>28, <1>29, <1>30, <1>31, <1>32, <1>33, <1>34, <1>35, <1>36
  DEF Next, DbusNext, AnalyzerNext, WebNext

LEMMA FileWebStep == FileInv /\ [Next]_vars => WebInv'
<1> SUFFICES ASSUME FileInv, [Next]_vars PROVE WebInv'
  OBVIOUS
<1> USE DEF FileInv, WebInv, WebOkDurable, NamesInv, Known, Stored, HostsWithLogs, UncommittedNames,
            CountInv, LogOnlyGrows, DurableInv, Transactions, TypeInv, TypeOK, EntryHeld, Contents,
            dbusVars, analyzerVars, webVars, envVars, histVars, connVars, At, Goto, Threads,
            DbusLabels, AnalyzerLabels, WebLabels, DbusStep, AnalyzerStep, WebStep,
            Write, Begin, Commit, Rollback, ExecTransaction, NextHost
<1>1. ASSUME NEW l \in Logs \cup ShellLogs, Receive(l) PROVE WebInv'
  BY <1>1 DEF Receive
<1>2. CASE AddAgentName
  BY <1>2 DEF AddAgentName
<1>3. CASE AddVirtualhostName
  BY <1>3 DEF AddVirtualhostName
<1>4. CASE AddLogsBegin
  BY <1>4 DEF AddLogsBegin
<1>5. CASE AddLogsInsert
  BY <1>5 DEF AddLogsInsert
<1>6. CASE AddLogsEnd
  BY <1>6 DEF AddLogsEnd
<1>7. CASE Reply
  BY <1>7 DEF Reply
<1>8. CASE NamesOrBeginFail
  BY <1>8 DEF NamesOrBeginFail
<1>9. CASE AddLogsFails
  BY <1>9 DEF AddLogsFails
<1>10. CASE MainReturns
  BY <1>10 DEF MainReturns, ServerEnds
<1>11. CASE StartAnalysis
  BY <1>11 DEF StartAnalysis
<1>12. CASE SkipAnalysis
  BY <1>12 DEF SkipAnalysis, vars
<1>13. ASSUME NEW h \in hosts, CountUnused(h) PROVE WebInv'
  BY <1>13 DEF CountUnused
<1>14. ASSUME NEW rows \in SUBSET UnusedLogs(host), FetchUnused(rows) PROVE WebInv'
  BY <1>14 DEF FetchUnused, UnusedLogs
<1>15. CASE MarkLogsAsUsed
  BY <1>15 DEF MarkLogsAsUsed, Marked
<1>16. CASE SaveBegin
  BY <1>16 DEF SaveBegin
<1>17. ASSUME NEW s \in SUBSET InMemory, SaveInsert(s) PROVE WebInv'
  BY <1>17 DEF SaveInsert
<1>18. CASE SaveEnd
  BY <1>18 DEF SaveEnd
<1>19. CASE SaveBusy
  BY <1>19 DEF SaveBusy
<1>20. CASE KnnAnalyze
  BY <1>20 DEF KnnAnalyze
<1>21. CASE SetLastRun
  BY <1>21 DEF SetLastRun
<1>22. CASE AnalyzerThrows
  BY <1>22 DEF AnalyzerThrows, ServerEnds
<1>23. CASE WebRequest
  BY <1>23 DEF WebRequest
<1>24. CASE SetApacheSessionAsAnomaly
  BY <1>24 DEF SetApacheSessionAsAnomaly
<1>25. CASE GetIds
  BY <1>25 DEF GetIds
<1>26. CASE RemoveAllLearningSessions
  BY <1>26 DEF RemoveAllLearningSessions
<1>27. CASE SetLearningSessions
  BY <1>27 DEF SetLearningSessions
<1>28. CASE WebError
  BY <1>28 DEF WebError
<1>29. CASE WebErrorInside
  BY <1>29 DEF WebErrorInside
<1>30. CASE Crash
  BY <1>30 DEF Crash, ServerEnds
<1>31. CASE Restart
  BY <1>31 DEF Restart
<1>32. CASE Tick
  BY <1>32 DEF Tick
<1>33. CASE UNCHANGED vars
  BY <1>33 DEF vars
<1>34. CASE SkipBlank
  BY <1>34 DEF SkipBlank
<1>35. CASE GetShellIds
  BY <1>35 DEF GetShellIds
<1>36. CASE InsertShell
  BY <1>36 DEF InsertShell
<1> QED BY <1>1, <1>2, <1>3, <1>4, <1>5, <1>6, <1>7, <1>8, <1>9, <1>10, <1>11, <1>12, <1>13, <1>14, <1>15, <1>16, <1>17, <1>18, <1>19, <1>20, <1>21, <1>22, <1>23, <1>24, <1>25, <1>26, <1>27, <1>28, <1>29, <1>30, <1>31, <1>32, <1>33, <1>34, <1>35, <1>36
  DEF Next, DbusNext, AnalyzerNext, WebNext

LEMMA FileInit == Init => FileInv
BY CountInit, DatabaseAssumption
   DEF Init, FileInv, MarksStay, NewUncounted, NotAdded, NamesInv, NamesKnown, Known, Stored,
       UncommittedNames, LossInv, NoSilentLoss, InMemory, WebInv, WebOkDurable, EmptyTables,
       NoSessions, Threads

LEMMA FileStep == FileInv /\ [Next]_vars => FileInv'
BY CountStep, FileMarksStep, FileNamesStep, FileLossStep, FileWebStep DEF FileInv

\* The conjunction holds in every state the server reaches.
THEOREM Invariance == Spec => []FileInv
BY FileInit, FileStep, PTL DEF Spec

\* The id of an agent and of a virtual host is found for every entry in the table,
\* unless the row went with a transaction of the analyzer that was rolled back.
THEOREM NamesAreKnown == Spec => []NamesKnown
<1>1. FileInv => NamesKnown
  BY DEF FileInv, NamesInv
<1> QED BY <1>1, Invariance, PTL

\* An analysis forgets no row it marked: for every batch size, every number of entries
\* and every interleaving, a marked row is counted, in memory, or among the named losses.
THEOREM NoLossIsSilent == Spec => []NoSilentLoss
<1>1. FileInv => NoSilentLoss
  BY DEF FileInv, LossInv
<1> QED BY <1>1, Invariance, PTL

\* The learning set of a request answered with ok is in the file, for any number of
\* requests, faults and crashes.
THEOREM WebOkIsDurable == Spec => []WebOkDurable
<1>1. FileInv => WebOkDurable
  BY DEF FileInv, WebInv
<1> QED BY <1>1, Invariance, PTL

-----------------------------------------------------------------------------
(***************************************************************************)
(* The refinement of LogLedger.  A step changes the marks or the counts in *)
(* the file, never both, and neither ever goes back; the counts change     *)
(* only when the analyzer has no session left in memory.                   *)
(***************************************************************************)
FileGrows ==
    /\ \A l \in Logs : /\ disk.log[l] = "used" => disk'.log[l] = "used"
                       /\ disk.log[l] # "absent" => disk'.log[l] # "absent"
                       /\ disk.count[l] <= disk'.count[l]
                       /\ disk.log[l] = "absent" /\ disk'.log[l] # "absent" => disk.count[l] = 0
    /\ undone \subseteq undone'
    /\ disk.shell \subseteq disk'.shell
    /\ \/ disk'.count = disk.count
       \/ disk'.log = disk.log /\ undone' = undone /\ InMemory = {}

LEMMA FileGrowsStep == FileInv /\ [Next]_vars => FileGrows
<1> SUFFICES ASSUME FileInv, [Next]_vars PROVE FileGrows
  OBVIOUS
<1> USE DEF FileGrows, FileInv, MarksStay, NewUncounted, CountInv, LogOnlyGrows, DurableInv, Transactions,
            EntryWhere, StoredOnly, TypeInv, TypeOK, EntryHeld, Contents,
            dbusVars, analyzerVars, webVars, envVars, histVars, connVars, At, Goto, Threads,
            DbusLabels, AnalyzerLabels, WebLabels, DbusStep, AnalyzerStep, WebStep,
            Write, Begin, Commit, Rollback, ExecTransaction, NextHost
<1>1. ASSUME NEW l \in Logs \cup ShellLogs, Receive(l) PROVE FileGrows
  BY <1>1 DEF Receive
<1>2. CASE AddAgentName
  BY <1>2 DEF AddAgentName
<1>3. CASE AddVirtualhostName
  BY <1>3 DEF AddVirtualhostName
<1>4. CASE AddLogsBegin
  BY <1>4 DEF AddLogsBegin
<1>5. CASE AddLogsInsert
  BY <1>5 DEF AddLogsInsert
<1>6. CASE AddLogsEnd
  BY <1>6 DEF AddLogsEnd
<1>7. CASE Reply
  BY <1>7 DEF Reply
<1>8. CASE NamesOrBeginFail
  BY <1>8 DEF NamesOrBeginFail
<1>9. CASE AddLogsFails
  BY <1>9 DEF AddLogsFails
<1>10. CASE MainReturns
  BY <1>10 DEF MainReturns, ServerEnds
<1>11. CASE StartAnalysis
  BY <1>11 DEF StartAnalysis
<1>12. CASE SkipAnalysis
  BY <1>12 DEF SkipAnalysis, vars
<1>13. ASSUME NEW h \in hosts, CountUnused(h) PROVE FileGrows
  BY <1>13 DEF CountUnused
<1>14. ASSUME NEW rows \in SUBSET UnusedLogs(host), FetchUnused(rows) PROVE FileGrows
  BY <1>14 DEF FetchUnused, UnusedLogs
<1>15. CASE MarkLogsAsUsed
  BY <1>15 DEF MarkLogsAsUsed, Marked
<1>16. CASE SaveBegin
  BY <1>16 DEF SaveBegin
<1>17. ASSUME NEW s \in SUBSET InMemory, SaveInsert(s) PROVE FileGrows
  BY <1>17 DEF SaveInsert
<1>18. CASE SaveEnd
  BY <1>18 DEF SaveEnd
<1>19. CASE SaveBusy
  BY <1>19 DEF SaveBusy
<1>20. CASE KnnAnalyze
  BY <1>20 DEF KnnAnalyze
<1>21. CASE SetLastRun
  BY <1>21 DEF SetLastRun
<1>22. CASE AnalyzerThrows
  BY <1>22 DEF AnalyzerThrows, ServerEnds
<1>23. CASE WebRequest
  BY <1>23 DEF WebRequest
<1>24. CASE SetApacheSessionAsAnomaly
  BY <1>24 DEF SetApacheSessionAsAnomaly
<1>25. CASE GetIds
  BY <1>25 DEF GetIds
<1>26. CASE RemoveAllLearningSessions
  BY <1>26 DEF RemoveAllLearningSessions
<1>27. CASE SetLearningSessions
  BY <1>27 DEF SetLearningSessions
<1>28. CASE WebError
  BY <1>28 DEF WebError
<1>29. CASE WebErrorInside
  BY <1>29 DEF WebErrorInside
<1>30. CASE Crash
  BY <1>30 DEF Crash, ServerEnds
<1>31. CASE Restart
  BY <1>31 DEF Restart
<1>32. CASE Tick
  BY <1>32 DEF Tick
<1>33. CASE UNCHANGED vars
  BY <1>33 DEF vars
<1>34. CASE SkipBlank
  BY <1>34 DEF SkipBlank
<1>35. CASE GetShellIds
  BY <1>35 DEF GetShellIds
<1>36. CASE InsertShell
  BY <1>36 DEF InsertShell
<1> QED BY <1>1, <1>2, <1>3, <1>4, <1>5, <1>6, <1>7, <1>8, <1>9, <1>10, <1>11, <1>12, <1>13, <1>14, <1>15, <1>16, <1>17, <1>18, <1>19, <1>20, <1>21, <1>22, <1>23, <1>24, <1>25, <1>26, <1>27, <1>28, <1>29, <1>30, <1>31, <1>32, <1>33, <1>34, <1>35, <1>36
  DEF Next, DbusNext, AnalyzerNext, WebNext

\* The sessions of a host reach the file in one commit, whatever transaction of another
\* thread is committed meanwhile on the same connection.
THEOREM SessionsAreCommittedWhole == Spec => SessionsCommittedWhole
<1>1. FileInv /\ [Next]_vars => [disk'.count # disk.count => InMemory = {}]_vars
  BY FileGrowsStep DEF FileGrows
<1> QED BY <1>1, Invariance, PTL DEF Spec, SessionsCommittedWhole

LedgerMap == [l \in Logs \cup ShellLogs |-> LedgerOf(l)]
LedgerMapVars == <<LedgerMap, sent, acked>>

(***************************************************************************)
(* The calls: a step that makes or answers one leaves the file as it is,   *)
(* and an Apache entry is answered only when it is in the file.            *)
(***************************************************************************)
CallMade ==
    \/ \E l \in (Logs \cup ShellLogs) \ sent : sent' = sent \cup {l} /\ acked' = acked
    \/ \E l \in sent : /\ sent' = sent /\ acked' = acked \cup {l}
                       /\ l \in Logs => disk.log[l] # "absent"

Calls == \/ sent' = sent /\ acked' = acked
         \/ CallMade /\ disk' = disk /\ undone' = undone

LEMMA CallsStep == FileInv /\ [Next]_vars => Calls
<1> SUFFICES ASSUME FileInv, [Next]_vars PROVE Calls
  OBVIOUS
<1> USE DEF Calls, DbusStep, AnalyzerStep, WebStep, dbusVars, connVars
<1>1. ASSUME NEW l \in Logs \cup ShellLogs, Receive(l) PROVE Calls
  BY <1>1 DEF Receive, CallMade
<1>2. CASE Reply
  <2>1. entry \in sent /\ (entry \in Logs => disk.log[entry] # "absent")
    BY <1>2 DEF Reply, At, FileInv, CountInv, DurableInv, EntryWhere
  <2> QED BY <1>2, <2>1 DEF Reply, CallMade
<1>3. CASE AddAgentName \/ AddVirtualhostName \/ AddLogsBegin \/ AddLogsInsert \/ AddLogsEnd
           \/ SkipBlank \/ GetShellIds \/ InsertShell \/ NamesOrBeginFail \/ AddLogsFails
  BY <1>3 DEF AddAgentName, AddVirtualhostName, AddLogsBegin, AddLogsInsert, AddLogsEnd,
     SkipBlank, GetShellIds, InsertShell, NamesOrBeginFail, AddLogsFails
<1>4. CASE ServerEnds
  BY <1>4 DEF ServerEnds
<1>5. CASE AnalyzerNext /\ ~ServerEnds
  BY <1>5 DEF AnalyzerNext, StartAnalysis, SkipAnalysis, CountUnused, FetchUnused, MarkLogsAsUsed,
     SaveBegin, SaveInsert, SaveEnd, SaveBusy, KnnAnalyze, SetLastRun, AnalyzerThrows, vars
<1>6. CASE WebNext
  BY <1>6 DEF WebNext, WebRequest, SetApacheSessionAsAnomaly, GetIds, RemoveAllLearningSessions,
     SetLearningSessions, WebError, WebErrorInside
<1>7. CASE Restart \/ Tick \/ UNCHANGED vars
  BY <1>7 DEF Restart, Tick, vars
<1> QED BY <1>1, <1>2, <1>3, <1>4, <1>5, <1>6, <1>7 DEF Next, DbusNext, MainReturns, Crash

LEMMA LedgerStep ==
    ASSUME FileInv, FileInv', FileGrows, Calls
    PROVE  Ledger!LedgerNext \/ UNCHANGED LedgerMapVars
<1> DEFINE Stores == {l \in Logs \cup ShellLogs : LedgerOf(l) = "absent" /\ LedgerOf(l)' # "absent"}
           Claims == {l \in Logs : LedgerOf(l) \in {"absent", "stored"} /\ LedgerOf(l)' = "claimed"}
           Counts == {l \in Logs : LedgerOf(l) # "counted" /\ LedgerOf(l)' = "counted"}
<1>0. /\ \A l \in Logs : l \notin ShellLogs
      /\ Ledger!AllEntries = Logs \cup ShellLogs
  BY DatabaseAssumption DEF Ledger!AllEntries
<1>1. \A l \in Logs : /\ disk.log[l] \in {"absent", "unused", "used"}
                      /\ disk'.log[l] \in {"absent", "unused", "used"}
                      /\ disk.count[l] \in Nat /\ disk'.count[l] \in Nat
                      /\ disk'.count[l] > 0 => disk'.log[l] = "used" \/ l \in undone'
                      /\ disk.log[l] = "absent" <=> LedgerOf(l) = "absent"
                      /\ disk'.log[l] = "absent" <=> LedgerOf(l)' = "absent"
  BY <1>0 DEF FileInv, CountInv, CountedFor, DurableInv, TypeInv, TypeOK, Contents, LedgerOf
<1>2. \A l \in ShellLogs :
          /\ LedgerOf(l) = IF l \in disk.shell THEN "stored" ELSE "absent"
          /\ LedgerOf(l)' = IF l \in disk'.shell THEN "stored" ELSE "absent"
          /\ l \in disk.shell => l \in disk'.shell
  BY DEF LedgerOf, FileGrows
<1>3. Stores \subseteq sent'
  BY <1>1, <1>2 DEF FileInv, CountInv, DurableInv, StoredOnly
<1>4. CASE CallMade /\ disk' = disk /\ undone' = undone
  <2> HIDE DEF Stores, Claims, Counts
  <2>1. UNCHANGED LedgerMap
    BY <1>4 DEF LedgerMap, LedgerOf
  <2>2. CASE \E l \in (Logs \cup ShellLogs) \ sent : sent' = sent \cup {l} /\ acked' = acked
    <3>1. PICK l \in (Logs \cup ShellLogs) \ sent : sent' = sent \cup {l} /\ acked' = acked
      BY <2>2
    <3>2. Ledger!Call(l)
      BY <2>1, <3>1 DEF Ledger!Call, LedgerMap
    <3> QED BY <1>0, <3>2 DEF Ledger!LedgerNext
  <2>3. CASE \E l \in sent : /\ sent' = sent /\ acked' = acked \cup {l}
                             /\ l \in Logs => disk.log[l] # "absent"
    <3>1. PICK l \in sent : /\ sent' = sent /\ acked' = acked \cup {l}
                            /\ l \in Logs => disk.log[l] # "absent"
      BY <2>3
    <3>2. l \in Logs \cup ShellLogs
      BY DEF FileInv, CountInv, DurableInv, TypeInv, TypeOK
    <3>3. LedgerMap[l] = LedgerOf(l)
      BY <3>2 DEF LedgerMap
    <3>4. l \in Logs => LedgerMap[l] # "absent"
      BY <1>1, <3>1, <3>3
    <3>5. Ledger!Answer(l)
      BY <2>1, <3>1, <3>4 DEF Ledger!Answer, LedgerMap
    <3> QED BY <1>0, <3>2, <3>5 DEF Ledger!LedgerNext
  <2> QED BY <1>4, <2>2, <2>3 DEF CallMade
<1>5. CASE sent' = sent /\ acked' = acked /\ disk'.count = disk.count
  <2>1. \A l \in Logs : LedgerOf(l)' = IF l \in Claims THEN "claimed"
                                     ELSE IF l \in Stores THEN "stored" ELSE LedgerOf(l)
    BY <1>0, <1>1, <1>5 DEF LedgerOf, FileGrows
  <2>2. \A l \in ShellLogs : LedgerOf(l)' = IF l \in Stores THEN "stored" ELSE LedgerOf(l)
    BY <1>2
  <2>3. \A l \in Logs \cup ShellLogs :
            LedgerOf(l)' = IF l \in Claims THEN "claimed"
                           ELSE IF l \in Stores THEN "stored" ELSE LedgerOf(l)
    BY <1>0, <2>1, <2>2
  <2>4. /\ Stores \subseteq Ledger!In("absent")
        /\ Claims \subseteq (Ledger!In("stored") \cup Stores) \cap Logs
    BY <1>0, <1>1, <1>5 DEF Ledger!In, LedgerOf, FileGrows
  <2> HIDE DEF Stores, Claims, Counts
  <2>5. Ledger!StoreAndClaim(Stores, Claims)
    BY <1>0, <1>3, <1>5, <2>3, <2>4 DEF Ledger!StoreAndClaim
  <2>6. Stores \in SUBSET Ledger!AllEntries /\ Claims \in SUBSET Logs
    BY <1>0 DEF Stores, Claims
  <2> QED BY <2>5, <2>6 DEF Ledger!LedgerNext
<1>6. CASE sent' = sent /\ acked' = acked /\ disk'.log = disk.log /\ undone' = undone
  <2>1. \A l \in Logs : LedgerOf(l)' = IF l \in Counts THEN "counted" ELSE LedgerOf(l)
    BY <1>0, <1>1, <1>6 DEF LedgerOf, FileGrows
  <2>2. Stores \subseteq ShellLogs
    BY <1>0, <1>1, <1>6
  <2>3. \A l \in Logs \cup ShellLogs :
            LedgerOf(l)' = IF l \in Counts THEN "counted"
                           ELSE IF l \in Stores THEN "stored" ELSE LedgerOf(l)
    <3>1. \A l \in ShellLogs : LedgerOf(l)' = IF l \in Stores THEN "stored" ELSE LedgerOf(l)
      BY <1>2
    <3> QED BY <1>0, <2>1, <2>2, <3>1
  <2>4. Counts \subseteq Ledger!In("claimed") /\ Stores \subseteq Ledger!In("absent")
    BY <1>0, <1>1, <1>6 DEF Ledger!In, LedgerOf
  <2> HIDE DEF Stores, Claims, Counts
  <2>5. Ledger!Count(Counts, Stores)
    BY <1>0, <1>3, <1>6, <2>2, <2>3, <2>4 DEF Ledger!Count
  <2>6. Counts \in SUBSET Logs /\ Stores \in SUBSET ShellLogs
    BY <2>2 DEF Counts
  <2> QED BY <2>5, <2>6 DEF Ledger!LedgerNext
<1> QED BY <1>4, <1>5, <1>6 DEF FileGrows, Calls

\* Seen by the agents and from the database file the server implements the ledger, for
\* every pattern of faults and crashes: a call is answered only when its entry is stored;
\* an entry is stored, claimed by an analysis, counted by a later commit, and never
\* goes back.
THEOREM ServerImplementsLedger == Spec => ImplementsLedger
<1>1. Init => Ledger!LedgerInit
  BY DEF Init, Ledger!LedgerInit, Ledger!AllEntries, LedgerOf, EmptyTables
<1>2. FileInv /\ FileInv' /\ [Next]_vars => [Ledger!LedgerNext]_LedgerMapVars
  BY FileGrowsStep, CallsStep, LedgerStep
<1>3. UNCHANGED LedgerMapVars => UNCHANGED Ledger!ledgerVars
  BY DEF LedgerMapVars, LedgerMap, Ledger!ledgerVars
<1> QED BY <1>1, <1>2, <1>3, Invariance, PTL DEF Spec, ImplementsLedger, Ledger!LedgerSpec
=============================================================================
