# A TLA+ model of the Simple Log Analysis System

SLAS collects what the shell users and the Apache servers of several machines do, keeps it in
one SQLite database, looks for unusual sessions and users, mails what it finds and shows it on
web pages. This directory models the parts of it whose correctness depends on an order of
steps: threads that share a connection, a list or a flag, a process that ends between two
statements, bytes that arrive in any pieces.

    tlc -workers 2 -config MCServerDatabase.cfg MCServerDatabase     one run of the table below
    tlapm ServerDatabase_proofs.tla                                  the proofs of one module

## 1. The system

    patched bash ----+  unix socket        +------------- slas-server ---------------+
                     +--> slas-agent ----->| main:     bus->Loop(), AddLogEntry      |
    apache_helper ---+   (3 threads) D-Bus | analyzer: Analyzer::StartLoop           |
                                           | web:      CommandReceiver::StartListen  |<-- Django pages
                                           | notifier: Notifier::Loop                |    TCP, JSON
                                           +--------- one SQLite connection ---------+
                                                            |  curl: mail

### Inventory

Paths are relative to `src/`; `server/` stands for `server/src/`, `agent/` for `agent/src/`.

| Component | State | Operations | Talks to | What is hard | What makes it correct |
|---|---|---|---|---|---|
| server database (`server/database`, `server/apache/database`) | the file, one connection, its open transaction | `Exec`, `AddLogs`, `SaveSessions`, `MarkLogsAsUsed`, `SetLearningSessions`, ... | all threads of the server, without a lock | the transaction belongs to the connection, not to the thread; failing statements; crash | an answered call is durable; an entry is counted once |
| D-Bus objects (`server/*/dbus/object`) | none | `AddLogEntry` | agents | an exception leaves `Bus::Loop` and ends the process; a shell entry has no transaction of its own | each call ends, and an Apache entry is stored before it is answered |
| Apache session builder (`server/apache/analyzer`) | hosts left, rows left, sessions in memory | count, fetch a part, gather, mark, save | database | marks and sessions are written in two transactions; sessions outlive the parts; late entries | nothing counted twice, no unexplained loss; a session is what its definition says |
| Apache classification (`knn_analyzer_object.cpp`, web commands) | classes, learning set, table of neighbours | classify, set learning set, mark by hand or by IQR | database, web | the user changes what the analyzer has read | nearest neighbours, each anomaly reported once, the user's marks hold |
| Bash statistics (`server/bash/domain`, `daily_user_statistics_creator.cpp`) | daily rows of agents and users | add entry, write rows of a day | database | rows are written once and never corrected | one row per day and command, and it counts everything |
| Bash training and classification (`network_trainer`, `classificator`, `web_scripts`) | summaries of ranges, configurations, CHANGED mark, network files | preview, save configuration, train, mark unchanged, classify | database, FANN, web | summaries cached while days are added; configuration changed during the training; file replaced in two steps | saved defaults are those of the preview; an unchanged configuration has a network of its present data |
| web command receiver (`server/web`) | `is_listen_`, socket | read a command, execute, answer | web pages, all command objects | stop against start; malformed commands | a stop ends it |
| analyzer worker (`server/analyzer`) | `is_loop_running_`, `is_analyzing_` | start, stop, request | signal handlers | request during an analysis | a request is served |
| notifier and mailer (`server/notifier`, `server/mailer`) | message queue, mail being written | add, take, send | analyzer thread, curl | messages taken before they are sent | a report is mailed once or lost with a named failure |
| server life cycle (`server/main.cpp`) | threads, handlers | boot, stop, close, join | everything | handlers before objects, close before join | a stop ends the server with nothing half done |
| agent (`agent/`) | list of commands, flags | receive, queue, call, stop | senders, D-Bus | stop against accept and sleep | each entry on its way exactly once, in order |
| socket messages (`libslas/src/network`, `web/slas-web/network`) | partial message | `SendText`, `ReceiveText`, Python twins | bash, helper, agent, pages, server | partial reads and writes, peer closes | what is received is what was sent |
| D-Bus wrapper (`libslas/src/dbus`) | bus loop flag | loop, call, register | agent, server | a reply that is late, lost or an error; a call done after it was given up | a call is made once, in order, and what it may have lost is known |
| dates and times (`libslas/src/type`, `libslas/src/util/distance.cpp`) | values | yesterday, tomorrow, compare, add, distance | database, analyzers | ends of months, of leap Februaries, of the day | the calendar's order; a distance never leaves the day |
| web pages (`web/slas-web`) | the form a window shows | ask, save | web command receiver | several windows; a server that does not answer | what is saved is what was shown |
| utilities, program options, Apache helper, patched bash | values | format, read a file, send a line | | | see section 7 |

`PROJECT.json` lists the same components with their sources and status, and under `hazards` the
places where this code is hard to test, each with the properties that watch it.

## 2. The modules

| Module | Models | Uses |
|---|---|---|
| `LogLedger` | abstract: what the server promises about the entries, to its callers and in the file | |
| `ServerDatabase` | the connection, both `AddLogEntry` handlers, the session builder, a web command, crash and restart | refines `LogLedger` |
| `AgentForwarder` | the agent's receivers, its list of commands, its D-Bus thread, its signal handler | |
| `LogDelivery` | the agent and the server with the bus between them: calls under way, late, lost, unanswered | extends `AgentForwarder`, has `LogLedger` for the server |
| `NetworkText` | `SendText`, `ReceiveText` and the Python twins | |
| `ServerWorkers` | the server's threads, signals, notifier and shutdown | |
| `Timestamps` | operators: the calendar, the order of dates, times of a day and their distance | |
| `ApacheSessions` | how the entries of a host become sessions, over parts, hosts and analyses | `Timestamps` |
| `ApacheClassification` | nearest neighbours against the commands that change the learning set | |
| `BashStatistics` | entries of shell commands and the daily statistics | |
| `BashConfiguration` | the preview of a range of days, its cached summaries, the configuration saved from it | |
| `BashTraining` | configurations, training, network files, classification, every web command that writes | |
| `<module>_proofs` | the theorems of section 5; those about `LogLedger` are in `ServerDatabase_proofs`, about `AgentForwarder` in `LogDelivery_proofs`, about `NetworkText` in `ServerWorkers_proofs`, about `Timestamps` in `ApacheSessions_proofs` | the module each is named after |

`MC*` modules give small instances; a module without one is instantiated by its `.cfg` alone.
Definitions introduced by a comment "A defect:" are deliberately wrong variants of the definition
that follows; no specification uses them. Each shows that some property would notice that defect.

### ServerDatabase

*State.* `disk` is the file as committed, `work` what the connection sees, `txn` the thread whose
`begin` is open. A table keeps what the properties tell apart: for each entry absent, unused or
used (`USED_IN_STATISTICS`) and how many saved sessions count it; which hosts have their name rows;
when the last analysis ran; which web request last set the learning set; which shell entries are
stored. `pc` has the next statement of each thread, the rest are the locals of
`ApacheAnalyzerObject` and `PrepareStatisticsAnalyzerObject`. `sent` and `acked` are the agents'
view. `undone`, `dropped`, `lostNames` and `joined` are history: they name the losses the code has,
so that the invariants can say that there are no others.

*Actions.* One per SQL statement, with the local work that follows it. `sqlite3_exec` holds the
connection's mutex for the whole of its text, so `begin; ...; end;` in one `Exec` is one step
(`ExecTransaction`), while the `begin`, `insert` and `end` of `AddLogs` and `SaveSessions` are three.
The handler for shell entries (`SkipBlank`, `GetShellIds`, `InsertShell`) opens no transaction: its
insert commits by itself or joins the one another thread has open. It throws when the agent's name
has no row, after a rollback by another thread; a missing command, day or user is id -1 (see
`BashStatistics`).
Another thread's statement between them joins the transaction; another `begin` is an error, which
means an exception: in the main thread it leaves `Bus::Loop` and ends the process
(`NamesOrBeginFail`, `MainReturns`), in the analyzer thread nobody catches it (`AnalyzerThrows`), in
the web thread it becomes an error answer, with the transaction left open if the error came after
the `begin` (`WebErrorInside`).

*Abstractions.* A host is an agent with one virtual host. A statement that fails is one SQLite does
not roll back by itself. Rows of the session query come with its `order by`, so the first step reads
them all: `FetchUnused` is atomic. The order of sessions in time is any choice. Reads see the open
transaction, since the connection is the same. Closing the database at shutdown, before the threads
are joined, has the effect of a crash here and is looked at in `ServerWorkers`. `GetIds` merges two
reads of tables that only grow or are rolled back together.

### AgentForwarder

*State.* `backlog` are the connections waiting at each socket, `hand` the entry a receiver has read,
`commands` the list `DBusThread` shares with the receivers, `running`, `fdOpen` and `loopRunning` the
flags a signal handler stores into, `process` how the process ended. `due` is history: what was in
the list when a stop reached the inner loop.

*Actions.* The steps of the two receivers between their reads of a flag, of `DBusThread::StartLoop`
(whose inner loop ignores the flag and whose outer loop reads it after its sleep), and of
`sigterm_handler`. `AcceptThrows` is any exception that leaves a thread: `Accept(-1)` after
`StopLoop`, an empty connection, a number `stoi` refuses. `ExecuteThrows` is `SendMessage` on a
closed connection: the thread has no handler for it, so that the process ends.

### LogDelivery

*State.* The agent's variables; `bus`, the calls that wait for the server; `waiting`, whether the agent's
thread blocks for a reply; the variables of `LogLedger`. *Actions.* `AgentStep` is every step that needs no
server. `Execute` of `AgentForwarder` is two steps here, `SendMessage` and `Return`: between them the
call waits, is taken (`TakeCall`) and is answered by the server, or is lost when the server's
connection closes. `Return` needs an answer only for a reply: after 25 seconds, libdbus's own limit
for a timeout of -1, and when the server is gone, the thread gets an error instead and goes on with
the next command while the call may still be under way. `ServerStep` is any step `LogLedger` allows, so
that what `ServerDatabase` is proved to do, and a server that does nothing, are both in it.

### NetworkText

*State.* The sender's position in text and message, the bytes in the channel, the receiver's
message. *Actions.* A length byte, any part of a message written, any part read, end of a message,
the sender closes at any point, a receiver times out. The loop condition is the code's, in C++ and
in Python (`Incomplete`). On a Unix socket (`path = "unix"`) a write of at most 255 bytes is whole
and a read returns what is there: an assumption about the kernel. Lengths are scaled down: a message
of three bytes stands for one of 255.

### ServerWorkers

*State.* `main`'s place in its boot and shutdown, the handler that runs on the main thread, each
thread's place in its loop, the plain `bool` flags, the notifier's queue and its mail. *Actions.*
`Boot`, the handlers call by call, each thread's loop, `CloseDatabase` before `Join`. The work of an
analysis is one step per analyzer object that may end in a report; `ServerDatabase`,
`ApacheClassification`, `BashStatistics` and `BashTraining` are what happens inside.

### Timestamps

*Operators.* `Dates` is what `CheckDate` lets pass, `RealDates` the calendar; the database and the pages
only make real dates. A time is the second of its day, so the conversions to hours and minutes and
back are left out; `TimeMinus` and `TimePlus` stop at the ends of the day as the code does, and
`Distance` has no direction.

### ApacheSessions

*State.* `logs` is the table in the order of the ids, `open` the map `sessions_statistics_` with the one
session in memory of each client, `closed` the list `calculated_sessions_statistics_`, `part` and `rows`
the logs of `CalculateStatistics`. A session remembers its entries (`members`): that is history, as are
`lost`, `reached`, `horizon` and `late`. *Actions.* `Prepare`, `CreateStatistics` (the count), one part
read, one turn of the loop, the marks, the save. `AddLog` may come between any two. Which of two
entries with the same time comes first is open, as it is for SQLite; so is the order in which the
hosts are visited. A failing save and a crash are outcomes here; the statements in which they happen
are those of `ServerDatabase`. Whether an analysis is due, the bandwidth and the percentage are left
out.

### ApacheClassification

*State.* A session is its row id and one of the four numbers `Distance` compares. `table` is
`NearestNeighboursTable`. `steady`, `byUser` and `overtaken` are history. *Actions.*
`KnnAnalyzerObject` statement by statement, with `RunPartially` over the sessions (always from
offset 0, since classified sessions leave the set) and over the learning set (from offset 0 too, so
that only its first part is ever read); the web commands statement by statement. The quartiles of an
empty learning set, which the pages do not offer, are not enumerated.

### BashStatistics

*State.* The tables as sets (`logs`) or in the order of their ids (`system`, `daily`, `counted`), the
call the main thread works on, the locals of the two creators. `late` and `interrupted` are history.
*Actions.* The statements of `Scripts::AddLog`, of `CreateDailySystemStatistics` with its buffer, of
`DailyUserStatisticsCreator`. `AddCommand` takes the name without white space, `GetCommandId` the
name as sent. The server's "today" is local, the dates of the entries are UTC (`Offsets`). The join
that looks for days not yet calculated compares only the user, as in the code, so that a user with a
statistic never gets another. Times and the table of system users are left out.

### BashConfiguration

*State.* The tables of one agent, what each window shows (`page`), the command the web thread
executes with its local variables (`web`). `missed` is history: a range and a command that were
counted before some of the usage was there; `blind`, `usage` and `full` in the configuration say from
which page it was saved. *Actions.* The two commands of the page `select_date_range` and the one of its
form, statement by statement: both ends of the range get their rows in `DATE_TABLE`, the days of the
range are looked up, each command without a summary is counted, the buffer is written when it is full
and at the end. `GetDateById` throws for a configuration whose date has no row: the page fails, and at
the next analysis the process ends (`AnalyzerThrows`). The form is there even when the page got no
answer, and saving it then makes such a configuration (`blind`). Of the daily statistics only their
counts are kept, since `BashStatistics` is about how they come to be.

### BashTraining

*State.* Configurations with their `CHANGED` mark, learning sets, selected commands, classes, and for
each network file the rows it was trained on and how many outputs it has. *Actions.* A web command is
the sequence of its statements; `Train` to `MarkConfigurationAsUnchanged` and `Classify` to `Run` are
the analyzer's. FANN is external: it trains only when header and rows of the learning file agree,
its answers are open, `fann_run` of a missing network ends the process. `Save` opens the file first
and so empties it. Ids of removed configurations are used again, as SQLite does. `missed` is history:
for each configuration, why its data (the learning set, the classes or the selected commands) changed
since a training began to read them and its mark `CHANGED` does not tell so. A statement of a command
that marks its configuration later gives the reason `unmarked`, which the mark takes away; a statement
of a command that should mark it and does not gives no reason. Section 4 lists the others.

## 3. The runs

| Run | Instance | Shows |
|---|---|---|
| `database` | 2 entries of a host, a shell entry of another, part size 1, one failing statement, one crash, two analyses | `AckedDurable`, `CountedOnce`, `NamesKnown`, `NoSilentLoss`, `SessionsCommittedWhole`, and that the file refines `LogLedger` |
| `database_live` | 2 entries of 2 hosts, 1 request, a failing statement of the analyzer or web thread, fairness | `WebOkDurable`, `EveryOperationEnds`, `AckedIsCounted` |
| `sessions` | up to 4 entries of 6 kinds, 2 hosts, 2 clients, 2 days, parts of 2, two analyses, one failed save or crash | `EachEntryInOneSession`, `SessionsAreOfOneClient`, `SessionsAsDefined` |
| `agent` | one entry of each source, one signal, fairness | `EachEntryOnce`, `StopDrainsTheList`, `CommandsAreExecuted`, `SignalEndsTheProcess` |
| `log_delivery` | 2 Apache entries and 1 shell entry, calls late, lost or unanswered | `CalledOnce`, `LossesKnown`, `CallsInOrder` |
| `network` | every text of up to 5 bytes on the three paths, messages of 3, fairness | `BuffersHold`, `ReceivedWhole`, `ReceivedIsPrefix`, `ReceiverEnds` |
| `network_request` | the same texts from a page to the server | a violation, see section 6 |
| `workers` | 2 reports, 2 requests, 1 stop, fairness | `ReportsAccounted`, `CleanExit`, `ReportsMailed`, `RequestServed`, `StopEndsServer` |
| `classification` | 5 sessions, parts of 3, 2 neighbours, 2 commands, fairness | `NearestKept`, `ReportedOnce`, `AllClassified`, `MarksHold`, `AnalysisEnds` |
| `bash_statistics` | a user of 2 agents, 3 entries, buffer of 2, 2 days, 2 analyses, one crash | `SystemRowsOnce`, `UserRowsAccount` |
| `bash_configuration` | 2 windows, a range of 2 days, 2 commands, buffer and limit of 1, one crash | `PreviewShowsUsage`, `DefaultsCoverPreview`, `ConfigurationsListable` |
| `bash_training` | 1 id, 2 agents, 2 statistics of a user, parts of 1, 3 commands, 2 analyses, one crash | `NetworkUpToDate`, `NoBlindRun` |

The type invariants are theorems (section 5) and are not checked again; so is `ForwardedInOrder`, which
`CallsInOrder` covers.

### The bounds

* `database`: two entries of one host with `Batch = 1` are read in two parts, the host of the shell
  entry has only that entry, so that its name row comes and goes with it, one fault and one crash
  reach every statement of every thread, and `MaxClock = 2` allows an analysis after the one that
  succeeded (one that failed may start again at once). The entries of the same host are symmetric.
  The web thread and a second host with Apache entries are in `database_live`: what the web thread
  can do to the others is hold the transaction, and one request does that. That run has no crash: a
  process that is started again as often as it ends would need one more bound.
* `sessions`: three entries of one client within and beyond the session length (3 seconds), one on the
  next day, one of another client, one of another host; four of them are two parts, so that a session
  runs over parts, a late entry falls into the second, and another analysis finds what came after
  the count.
* `bash_configuration`: two windows with the same range share its summaries and dates; a buffer of one
  is written after every command, so a crash leaves some of them; with a limit of one the default
  commands are fewer than the candidates. Ranges that differ share nothing but dates.
* `agent`: one entry of each source, so that the list mixes them. One signal may come between any
  two steps.
* `log_delivery`: order within one source needs two entries of it, mixing needs the other source, and
  a shell entry may be answered and lost. Signals only stop the agent earlier: none is sent.
* `network`: five bytes are three messages; texts of 2, 3, 4 and 5 bytes are on either side of both
  boundaries. The bytes 1 and 2 are also lengths, so a byte taken for a length gives a message.
* `classification`: the sessions and the largest learning set are more than one part, two sessions
  are equally far from a third, the learning set has an outlier.
* `bash_statistics`: three rows are one more than the buffer; a user with two agents meets the
  join; offsets of -1 and 1 are the two ways a local date differs from the UTC date.
* `bash_training`: a user with more rows than one part, a range of all statistics, and three commands
  between two analyses: an id is saved, removed and saved for the other agent. With one id all
  reasons in `missed` come up but `another`, which takes two; two ids and one analysis were checked
  once (1.1 million states), and the theorems hold for any number.
* `workers`: a second request comes before, during or after the first analysis; one stop is enough
  since the flags only go back at a loop's start.

The bounds are caps in the guards of the environment (`MaxRequests`, `MaxReports`, `MaxAsks`,
`MaxStops`, `MaxSignals`, `MaxCommands`, `MaxAnalyses`, `MaxDay`, `MaxClock`, `MaxEntries`) or of faults
(`MaxFaults`, `MaxCrashes`); the code's own limits are the parameters `Batch`, `BufferSize`, `MaxSelected`, `SessionLength`,
`MaxRows`, `MaxMessageLength`, `BufferLength`, `NumberOfNeighbours`.

`CHECK_DEADLOCK FALSE` is set where the system may rest: a server with nothing to do after the last
bounded input, a receiver that has its text.

### Fairness

* Threads are scheduled by the kernel: weak fairness of each thread's steps, once it has something to
  do; time passes (`Tick`). The loops in the code sleep and poll without a condition, so each
  step is reached again whatever the others do.
* The operator does his part in `database_live`: SIGUSR1 asks for an analysis again and again
  (`StartAnalysis`), and a server that ended is started again (`Restart`). Nothing in the repository
  sends the signal or restarts the server; without either `AckedIsCounted` could not hold.
  `EveryOperationEnds` does not depend on it.
* A signal handler, once called, runs to its end.
* Nothing is assumed about senders, calls, signals, web requests, faults, crashes or exceptions; the
  one exception that is bound to come is that of an analysis without a database.

## 4. What the properties say, and what they leave open

The code loses data in places. The properties name each loss and show that there is no other:

* Entries are marked as used in one transaction and counted in a later one. A crash or a failed save
  in between loses them for every analysis (`dropped`). `NoSilentLoss`: an analysis that runs
  through forgets none; `CountedOnce`: and nothing is ever counted twice instead.
* A shell entry has no transaction of its own. One that joined a transaction of another thread is
  answered before that thread commits, and a rollback or a crash takes it away (`joined`); a blank
  command is answered and never stored. `AckedDurable` holds of all other entries, and `NamesKnown` of
  shell entries as of the others.
* A call to the server that fails is not repeated, and the agent cannot tell whether the server got
  it. `LossesKnown`: an entry that is neither in the file nor in the agent is one whose call failed, a
  malformed line, or an answered shell entry. A late call is obeyed after its failure was seen, but
  never twice and never before an older one of its source (`CalledOnce`, `CallsInOrder`).
* A failing `AddLogs` rolls back marks of the analyzer that had joined its transaction (`undone`); a
  failing save rolls back name rows (`lostNames`). `CountedOnce`, `NamesKnown` and `WebOkDurable`
  hold but for these. The file refines `LogLedger` under every fault: an entry whose mark was undone
  counts as claimed, because the analysis that took it still counts it.
* An entry that reaches the table after a later one of its host was read comes into a later part
  (`late`). Its session keeps the start it has, so that an earlier request lies before the start, the
  length shrinks, and sessions of that client may start closer together than the session length.
  `SessionsAsDefined` excepts the sessions of that client in that analysis and no others.
* The agent drops the zone of the Apache timestamps (`apache_log_receiver.cpp:143`): the columns
  called UTC have local time, and sessions run over a change to or from summer time as the clock does.
* The summaries of a range are counted once. Usage that comes later is never seen in a preview of the
  same range (`missed`).
* A configuration saved again with another range keeps the daily statistics of the old one in its
  learning set, and `AddDailyUserStatisticsToConfiguration` selects those of all agents in the range
  (`raw_database_functions.cpp:1255`).
* A window whose page got no answer still has a form; saved, it may make a configuration with a date
  that has no row, and each analysis then ends the process (`blind`).
* The agent's stop drains the list only if it comes while the inner loop runs (`due`); commands
  that come during the sleep before it are dropped. An exception of a receiver takes everything.
* A stop before a loop has run its `running = true` is overwritten, in the agent and in the server;
  hence `Started` in `SignalEndsTheProcess` and `StopEndsServer`.
* A request for an analysis during an analysis is cleared with it; hence `~isAnalyzing` in
  `RequestServed`.
* A mail that fails takes all its reports (`lost`).
* A classification by the user between the analyzer's read and its write is overwritten
  (`overtaken`).
* Entries that come when their day has its statistic are not counted (`late`), and a crash leaves a
  statistic without some commands (`interrupted`).
* The mark `CHANGED` of a configuration misses changes of its data, which no training then reads until
  something else marks it. `NetworkUpToDate` names them (`missed`): a command has its mark still to make
  (`unmarked`, only while it is under way); the process ended between the change and the mark, which
  comes last in `UpdateDailyUserStatisticsClassification`, `SaveSelectedCommands`,
  `SelectDefaultCommands` and the removal (`cut`); the mark came during the training and
  `MarkConfigurationAsUnchanged` took it back (`training`); `SaveConfiguration` marks first and fills in
  afterwards, so a training that ends in between takes back the mark (`filled`); a command on another
  configuration changed a row both have, or a selection on which the inputs of both depend (`another`);
  the classifier wrote the class of a row of a learning set, which marks nothing (`classified`).
  `NoBlindRun` excepts all but the last two, which change no learning set.

## 5. The proofs

The theorems hold for every value of the constants that their assumptions allow.

*The server's database* (`ServerDatabase_proofs`, from `DatabaseAssumption`)

| Theorem | States |
|---|---|
| `TypeCorrect` | `Spec => []TypeOK` |
| `AckedIsDurable` | `Spec => []AckedDurable` |
| `CountedAtMostOnce` | `Spec => [](CountedOnce /\ MarkedBeforeCounted)` |
| `NamesAreKnown`, `NoLossIsSilent`, `WebOkIsDurable` | `Spec => []NamesKnown`, `[]NoSilentLoss`, `[]WebOkDurable` |
| `SessionsAreCommittedWhole` | `Spec => SessionsCommittedWhole`, an action property |
| `ServerImplementsLedger` | `Spec => ImplementsLedger`, a refinement |

`DatabaseAssumption` says that there are finitely many entries, each of one host, that the "not set"
values are none of them, and that the bounds are numbers, the batch size a positive one.

*Type.* `TypeInv` adds to `TypeOK` that the main thread holds an entry whenever it works
(`EntryHeld`); without it `work.log[entry]` has no type.

*Durability.* `AckedDurable` is not inductive: the step `Reply` needs to know that the entry has
reached the file. `DurableInv` adds who owns the open transaction (`Transactions`: with none open,
file and connection agree; `txn = "dbus"` exactly at two labels of the main thread, `txn = "analyzer"`
exactly while it inserts), how far the entry in hand has come (`EntryWhere`: not in the table before
the insert, in the file at the reply), and that the connection sees what the file has
(`StoredOnly`). The crucial cases are the commits and rollbacks by another thread than the one whose
rows they carry: `Transactions` says that only the owner ends its transaction. A transaction the web
thread left open has no owner that could end it: nothing is answered in it, because every other
`begin` fails until the process ends.

*Counting.* `CountInv` adds that a batch exists only between its fetch and its mark
(`BatchOnlyAtMark`), that marks in the file are marks on the connection (`LogOnlyGrows`), and for
each entry no failing `AddLogs` touched (`CountedFor`) that saved and unsaved sessions together
count it at most once, and only when it is marked or in the batch about to be marked. The order
"mark, then save" carries the proof: a crash may lose a count and never repeats one.

*Names, losses, requests.* `FileInv` is the conjunction of `CountInv` with five more parts, each proved to
be kept by every action given the whole. `NamesInv` follows the name rows through the main thread's
four statements and the rollbacks of others; `LossInv` says that a batch is in memory before it is
marked; `WebInv` that a request still being executed is not answered, and that its answer means the
connection has its learning set; `MarksStay` and `NewUncounted` relate file and connection.

*Refinement.* `FileGrows` holds of every step that `FileInv` allows: a step changes the marks or the
counts in the file and never both, and neither goes back. `LedgerOf` calls an entry claimed when its
mark was undone by a failing `AddLogs`, so that no assumption about the failing threads is needed;
a step is one `Call`, one `Answer`, one `StoreAndClaim`, one `Count` or a stutter of `LogLedger`. `Answer`
demands of an Apache entry what `AckedDurable` says, so that the refinement covers the interface as
well as the file. A commit carries the shell entries that joined it: that is why `Count` may store
some, and why `StoredOnly` and `EntryWhere` have a part for them. `CallsStep` says that an entry is
called once and answered only after its call.

*The agent* (`LogDelivery_proofs`, from `AgentAssumption`: each entry has a receiver and `NoEntry`
is none)

| Theorem | States |
|---|---|
| `TypeCorrect` | `Spec => []TypeOK` |
| `StopAlwaysDrains` | `Spec => []StopDrainsTheList` |
| `EntriesOnce` | `Spec => []EachEntryOnce` |
| `AlwaysInOrder` | `Spec => []ForwardedInOrder` |

`TypeOK` is inductive by itself: it says that a receiver at `accept` has a connection and that the
dbus thread at `get` has a command, which the other threads cannot take away. `StopDrainsTheList` is
not: it says nothing before the loop ends. `DrainInv` adds that what was in the list at the stop is
executed, in the thread's hand or still in the list, and that outside the inner loop all of it is
executed; the step that matters is `IsCommandAvailable`, which leaves the inner loop only when the
list and the hand are empty. The lemmas `ContentsAppend` and `ContentsHead` say what a list holds
after `push_back` and before `pop_front`.

`PlaceInv` carries the other two. It sees the way of an entry as five stages, from the backlog over a
receiver's hand, the list and the thread's hand to the server: every offered entry is at exactly one
of them, or failed, or was dropped (`Places`); within a stage the entries of one source are in the
order in which they were offered (`Sorted`); and those of a later stage were offered before those of an
earlier one (`StagesInOrder`). A step moves one entry to the next stage, and the lemmas about lists
that grow at the end and shrink at the front say that this keeps all three. No entry overtakes
another of its source because a source has one receiver and a receiver one hand (`SourcesKept`).

*The agent with the server* (`LogDelivery_proofs`, from `AgentAssumption`)

| Theorem | States |
|---|---|
| `DeliveryImplementsAgent` | `DeliverySpec => Spec`, a refinement: the theorems above hold with the server too |
| `DeliveryImplementsLedger` | `DeliverySpec => Server!LedgerSpec` |
| `DeliveryInvariance` | `DeliverySpec => []DeliveryInv` |
| `CalledAtMostOnce`, `LossesAlwaysKnown` | `DeliverySpec => []CalledOnce`, `[]LossesKnown` |
| `CallsAlwaysInOrder` | `DeliverySpec => CallsInOrder`, an action property |
| `CallsFindTheGuard` | the guard of `LogLedger`'s `Call` is true of every call that arrives |

`CalledOnce` says nothing of the agent, and a call is sent by an agent that does not remember which
calls are under way; so `DeliveryInv` adds where the calls come from. Those made, on the bus or taken
(`Made`), belong to commands executed or at hand, and all that the agent has yet to send was offered
after them (`Behind`); the command at hand too, as long as the thread does not block for it. The bus is
in the order of the offers, and what was taken comes before what waits. An entry is not before itself,
which is why none is called twice. The step that matters is `Return` without an answer: it leaves the
call on the bus while the next command is taken, and nothing in `DeliveryInv` depends on the call being
done. `LossesKnown` follows from `PlaceInv` and from one more part: a delivered entry was answered, and an
answered Apache entry is in the file.

`ServerDatabase` and `LogDelivery` meet in `LogLedger`: the one implements it, the other uses nothing else
of the server. `CallsFindTheGuard` discharges what both assume of the caller, that it calls once for an
entry.

*Messages* (in `ServerWorkers_proofs`, from `NetworkAssumption`: a message has room for its type and a
byte of text and its length fits a byte, the buffer holds as many bytes as a byte can count, the
types are not 0, texts have no 0)

| Theorem | States |
|---|---|
| `BuffersNeverOverrun` | `SocketSpec => []BuffersHold` |
| `MessagesAlwaysFit` | `SocketSpec => []MessagesFit` |
| `TextsArriveWhole` | `SocketSpec => []ReceivedWhole` |
| `TextsAreNotMadeUp` | `SocketSpec => []ReceivedIsPrefix` |

`SenderInv` says that `SendText` works on a message only while text is left for it, so that
`FrameType` bounds its length; `ReceiverInv` says that no byte on the wire is 0, so that even a byte
of the text that is taken for a length gives a message with a type. Since `total` counts the length
byte, `(total - 1) + LeftToReceive` is the length of the message after every read: the early end of
the C++ loop (section 6) loses a byte and never writes past one. The code limits a read to the
buffer with a test that is never true: a byte is at most 255 and the buffer has 256.

`TextInv` carries the other two. A text determines its messages and each byte they put on the wire:
message m begins at the place `Place(m)` with the text after `Start(m)`, and only the last may be
shorter. `Wire` says that the channel holds the bytes of that wire from the place the receiver has
read to (`ReadTo`) up to byte j of message k, where the sender is (`SenderAt`); `ReceiverAt` that the
receiver has the beginning of the text and the first bytes of message r (`InStep`). A written and a
read part move one end each. `Message` is the last one for the sender exactly when it is for the
receiver, which sees only the type. A request whose message is taken for whole one byte early leaves
this order for good: `Cut` says that what was collected until then is the text up to a 0, which no
text has, so that nothing longer than a prefix can still be returned.

*The server's threads* (`ServerWorkers_proofs`, from `WorkersAssumption`)

| Theorem | States |
|---|---|
| `TypeCorrect` | `Spec => []TypeOK` |
| `ReportsAreAccounted` | `Spec => []ReportsAccounted` |
| `ExitIsClean` | `Spec => []CleanExit` |

`TypeInv` adds that a thread is not there before `main` started it. `ReportInv` says that queue, mail and
mailed messages are lists without repetition and that they and `lost` divide the reports made so far;
the two threads that work on the queue take from its front and add to its end. `ExitInv` adds that a
mail is being written only inside the notifier's loop, so that a joined notifier has none.

*The classification* (`ApacheClassification_proofs`, from `ClassificationAssumption`)

| Theorem | States |
|---|---|
| `TypeCorrect` | `Spec => []TypeOK` |
| `TableKeepsNearest` | `Spec => []NearestKept` |
| `AnomaliesAreReportedOnce` | `Spec => []ReportedOnce` |
| `EverySessionIsClassified` | `Spec => []AllClassified` |
| `MarksAreKept` | `Spec => []MarksHold` |

`IInv` has a part for each. `NearestInv` is the argument of a bounded table: when it is full, what is
thrown out is no nearer than what stays. `ReportInv` says that a session in the analyzer's hands was
not reported and a reported one is classified; no command makes a session unclassified again.
`MarksInv` follows the method of the interquartile range through its two loops. It needs that the
quartile of the model, a member of the set with enough members below it, exists and is the one at
the place in the sorted vector (`NthIsThere`, `OneQuartile`, `OutliersAreAbove`). `CoverInv` counts: in an
analysis no command interferes with, the unclassified sessions are those left to ask for and those in
the part, which is why asking from offset 0 each time skips none; `FirstRowsAreMany` says that a
query with a limit gives as many rows. These lemmas are inductions over numbers; they are done by
the least counterexample (`LeastNatural`), which needs no induction scheme.

*The sessions* (`ApacheSessions_proofs`, from `SessionsAssumption`)

| Theorem | States |
|---|---|
| `TypeCorrect` | `Spec => []TypeOK` |
| `EntriesInOneSession` | `Spec => []EachEntryInOneSession` |
| `SessionsOfOneClient` | `Spec => []SessionsAreOfOneClient` |
| `SessionsStartAndEndRight` | `Spec => []SessionsAsDefined` |

`AtStep` says what the analyzer has in its hands at each step: nothing is open between hosts. `Memory`
says that the open session of a client is his and of the host at hand, and is not among the closed
ones, and that what is saved is marked. The step that matters is `Gather`, which puts a session in the place
of another: the family of the sessions stays disjoint because the entry that joins was in none.

`DInv` adds why the parts do not show in the sessions. `ReadInOrder` says that no entry in memory has a
later time than `reached`, that no unread entry up to `horizon` has an earlier one, and so that an
entry of the part that is not late comes after everything gathered: the parts are asked for in the
order of time, and only a row that was added after the latest entry was read can be late. `InOrder` says
of each client without a late entry that his sessions start and end with requests and that the open
one starts when every closed one is over (`Follows`). `Gather` keeps it (`NextOfASession`,
`AfterASession`), and `Follows` is an order. `OncePerAnalysis` says that an analysis comes to a host once,
so that what it saves has nothing to do with what it saved before (`DefinedTogether`). A crash
forgets which unused entries were late; none of them is in a saved session, so that nothing else
changes for the sessions there are.

*The configurations* (`BashConfiguration_proofs`, from `ConfigurationAssumption`)

| Theorem | States |
|---|---|
| `TypeCorrect` | `Spec => []TypeOK` |
| `AlwaysListable` | `Spec => []ConfigurationsListable` |
| `DefaultsAreCovered` | `Spec => []DefaultsCoverPreview` |
| `ShownIsUsage` | `Spec => []PreviewShowsUsage` |

Rows of the summaries are added and never changed. So what a page showed stays in the table
(`Covered` in `PageOK`), from the reply to the save, whatever other windows do, and both of its dates
stay in theirs (`Dated`). `BufferOK` says that the rows a calculation has not written yet are of commands it has
visited and none of them is in the table, so that a range and a command never get two rows.
`ConfigOK` carries what the page had into the configuration.

`UsageInv` says that every count, in the table or still in the buffer, is the usage of its range or is
noted in `missed`, and that a command without one had none when the range was counted. The usage is a sum over days, and no
theorem says what the sum is; the proof needs only that two sums over the same days with the same
counts are the same (`SameUsage`), which holds of any function of them. A day that gets its statistics
leaves the sum of a range and a command as it is unless the command was used on it, and then it is noted.

*The training* (`BashTraining_proofs`, from `TrainingAssumption`)

| Theorem | States |
|---|---|
| `TypeCorrect` | `Spec => []TypeOK` |
| `NetworksAreUpToDate` | `Spec => []NetworkUpToDate` |
| `NoRunIsBlind` | `Spec => []NoBlindRun` |

`TrainingInv` says what the analyzer holds in each phase (`WorkOK`) and what of it is still true of
the tables while web commands change them. `StillChanged`: the configurations a training has to visit,
and the one it is at, are marked as changed, which no web command takes back. `Sound` says what the network of an
unmarked configuration is worth: all of the property if nothing was missed, and an output for every user if
what was missed left the learning set alone (`Harmless`). `Trained`: the one just saved is sound; `Made`: so
is the number of outputs of a network about to be saved. `Progress` is the loop invariant of the file with the learning set, for a configuration with nothing
missed: the users done with have all their statistics in it, and of the user at hand those up to the
offset, but for the rows of the part not yet written (`InUser`). That `RunPartially` asks for ranks
`offset` to `offset + MaxRows` and the next part begins where this one ended is `AllRows`, `PartsAreSmall`
and `RanksDiffer`, again by a least counterexample; that a statement either leaves all the data of a
configuration as they are or is named in `missed` is `StatementData` and `StatementMisses`. It rests on the
shape of the commands (`WebMarks`): a statement that changes data is of `SaveConfiguration`, or a mark or
the removal of the same configuration comes after it; without the mark of one command there is no proof.
`Unmarked` is the second part of the property: the reason `unmarked` ends with the mark.
`TakenWhole` follows from `Sound` when the classifier takes a network, and stays because it holds the network and the number of users itself.

*The statistics of the shell* (`BashStatistics_proofs`, from `StatisticsAssumption`)

| Theorem | States |
|---|---|
| `TypeCorrect` | `Spec => []TypeOK` |
| `SystemRowsAreOnce` | `Spec => []SystemRowsOnce` |
| `UserRowsAreAccounted` | `Spec => []UserRowsAccount` |

The two properties are about tables; what makes them inductive is about the analyzer's hands. `SystemWork`
says that no row of the buffer is in the table, that no row of either is of an agent still to be
visited, and that the pairs of day and command left to count are in neither: a full buffer may then be written
anywhere, and a crash may lose it. `UserWork` says that the days left for a user have no statistic, and that
the one whose rows are being written is the last in the table, which `GetDailyUserStatisticId` finds; its
commands are counted (`RowOnce`, `RowTrue`, `RowMade`) or still to be counted. An entry that the main
thread adds meanwhile is late for every statistic there is (`InvAddLog`).

*Dates and times* (at the head of `ApacheSessions_proofs`): `TomorrowIsADate`, `YesterdayOfTomorrow`, `TomorrowIsNext`,
`DatesAreOrdered`, `TimesStayInTheDay` and `DistanceOfTimes` are about the operators, for every date from
1970 on and every second of a day.

*Only model-checked:* liveness (`EveryOperationEnds`, `AckedIsCounted`, `CommandsAreExecuted`,
`SignalEndsTheProcess`, `ReceiverEnds`, `ReportsMailed`, `RequestServed`, `StopEndsServer`, `AnalysisEnds`),
which is out of the prover's reach under fairness, as is `ENABLED`. Every invariant and action property of a
passing run has a theorem. What a fold or a recursive definition computes for every input is out of
reach too: where such a value matters, as the usage of `BashConfiguration`, the theorems say that it is
the same value, and the runs what it is. No module declares a `RECURSIVE` operator.

## 6. Findings

`network_request`: `Network::RecvMessage` starts its count with the length byte and loops
`while (total < message_length)`, so a read that leaves exactly one byte ends the message one byte
early; the byte left over is taken for the next length. The test `RecvMessageTwoParts`
(`libslas/tests/network/network.cpp:252`) says that a message received in parts is the message; its
parts leave more than one byte. On Unix sockets a message arrives whole, so that only requests over
TCP are exposed. `ReceivedIsPrefix` shows that the text is cut and never changed.

## 7. What is not modelled, and why

* JSON of the web commands: a text that does not parse, or has no such arguments, ends the process
  (`WebThrows` in `ServerWorkers`); which texts do is left open. The read-only reports of the pages
  write nothing.
* Parsing and printing dates and times. The calendar is in `Timestamps`; a date that passes `CheckDate`
  and is not in the calendar, such as the 31st of February, can be sent by no component here.
* `AddDailyUserStatistics` of a configuration is in `BashTraining`, not in `BashConfiguration`: the two
  share the commands that save and remove, each with the tables its properties are about.
* Reading configuration files, the daemon, the pid file, the logger: system calls at the start.
* The signal handlers log, which takes locks: it depends on the inside of the logging library.
* The flags shared with handlers and threads are plain `bool`s. Virtual calls, system calls and
  mutexes lie between the reads, so a build reads them again each time; the model does so too.
* Signals are delivered to the main thread. An interrupted `poll` of the agent's receivers is not
  modelled.
* GNU bash 4.3 is vendored and is four fifths of the repository's lines; its patch sends one text per
  simple command and ignores every error. The Apache helper copies lines to the agent. Both are the
  sender of `NetworkText` and `AgentForwarder`. The shell itself is not this system's logic, and
  a share of all lines therefore says little about what of the system is modelled: of the lines of
  code of the server, which carry the state, the map covers about two fifths, and of all first-party
  code without tests about a third. The rest is parsing and printing, getters, and the wrappers of
  SQLite, curl, FANN and D-Bus.
* The Django pages keep no state: their socket code is in `NetworkText`, their commands are the
  inputs of the server's modules.

## 8. The plan

Done: `LogLedger` and `ServerDatabase`, `AgentForwarder`, `NetworkText`, `ServerWorkers`,
`ApacheClassification`, `BashStatistics`, `BashTraining`, then `Timestamps`, `ApacheSessions` and
`BashConfiguration`, then `LogDelivery`, which composes agent and server through the call, with the
proofs of section 5.

What a next step would take up: what the liveness properties rest on, as action properties: that each
loop of the analyzers makes something smaller in every turn.
