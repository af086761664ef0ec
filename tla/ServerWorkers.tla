--------------------------- MODULE ServerWorkers ---------------------------
(***************************************************************************)
(* The life of the slas-server process: main starts the notifier, the      *)
(* analyzer and the web thread and runs the D-Bus loop itself; SIGUSR1     *)
(* asks for an analysis, SIGTERM and SIGINT ask for the end.  Signals run  *)
(* on the main thread, between any two of its steps, and store into flags  *)
(* that the other threads read without a lock.                             *)
(*                                                                         *)
(* An analysis may find anomalies; its report goes through the notifier's  *)
(* locked queue into a mail.                                               *)
(***************************************************************************)
EXTENDS Naturals, Sequences, FiniteSets

CONSTANTS
    MaxReports,   \* bound: reports of anomalies
    MaxAsks,      \* bound: signals SIGUSR1
    MaxStops      \* bound: signals SIGTERM or SIGINT

ASSUME WorkersAssumption == MaxReports \in Nat /\ MaxAsks \in Nat /\ MaxStops \in Nat

Workers == {"analyzer", "notifier", "web"}
Loops == Workers \cup {"bus"}
Objects == {"apache", "bash"}

VARIABLES
    main,         \* what main does next
    handler,      \* what the signal handler does next, "idle" outside a handler
    worker,       \* what each thread does next, "none" before it is started
    running,      \* is_loop_running_, running_, is_listen_ and the bus' loop_running_
    isAnalyzing,  \* Analyzer: is_analyzing_
    todo,         \* analyzer: the objects the analysis has not come to
    reports,      \* the reports made so far, numbered from 1
    messages,     \* Notifier: messages_
    mail,         \* notifier: the messages taken for the mail being written
    mailed,       \* the messages mailed, in order
    lost,         \* messages of a mail that could not be written or sent
    dbOpen,       \* SQLiteWrapper: is_open_
    process,      \* "runs", "exited" (status 0) or "terminated"
    asks, stops   \* signals so far

signalVars == <<handler, isAnalyzing, asks, stops>>
notifierVars == <<messages, mail, mailed, lost>>
vars == <<main, worker, running, todo, reports, notifierVars, dbOpen, process, signalVars>>

Init ==
    /\ main = "createNotifier" /\ handler = "idle"
    /\ worker = [w \in Workers |-> "none"] /\ running = [l \in Loops |-> FALSE]
    /\ isAnalyzing = FALSE /\ todo = {} /\ reports = 0
    /\ messages = <<>> /\ mail = <<>> /\ mailed = <<>> /\ lost = {}
    /\ dbOpen = TRUE /\ process = "runs" /\ asks = 0 /\ stops = 0

-----------------------------------------------------------------------------
(***************************************************************************)
(* main, from the installed signal handlers to the end.                    *)
(***************************************************************************)
MainAt(label) == process = "runs" /\ handler = "idle" /\ main = label

MainStep == UNCHANGED <<todo, reports, notifierVars, signalVars>>

Create(label, next) ==
    /\ MainAt(label) /\ main' = next
    /\ UNCHANGED <<worker, running, dbOpen, process>> /\ MainStep

StartThread(w, next) ==
    /\ main' = next /\ worker' = [worker EXCEPT ![w] = "start"]
    /\ UNCHANGED <<running, dbOpen, process>> /\ MainStep

Boot ==
    \/ Create("createNotifier", "startNotifier")
    \/ MainAt("startNotifier") /\ StartThread("notifier", "createAnalyzer")
    \/ Create("createAnalyzer", "startAnalyzer")
    \/ MainAt("startAnalyzer") /\ StartThread("analyzer", "startWeb")
    \/ MainAt("startWeb") /\ StartThread("web", "startBus")

\* Bus::Loop.
StartBus ==
    /\ MainAt("startBus") /\ running' = [running EXCEPT !["bus"] = TRUE]
    /\ main' = "bus"
    /\ UNCHANGED <<worker, dbOpen, process>> /\ MainStep

BusLoopEnds ==
    /\ MainAt("bus") /\ ~running["bus"]
    /\ main' = "stop"
    /\ UNCHANGED <<worker, running, dbOpen, process>> /\ MainStep

\* An exception of a message handler: main returns 1 with threads that can be joined,
\* and their destructors terminate the process.
BusLoopThrows ==
    /\ MainAt("bus") /\ process' = "terminated"
    /\ UNCHANGED <<main, worker, running, dbOpen>> /\ MainStep

\* Each worker is told again to stop, in case a handler came before its loop.
StopWorkers ==
    /\ MainAt("stop") /\ running' = [l \in Loops |-> FALSE]
    /\ main' = "close"
    /\ UNCHANGED <<worker, dbOpen, process>> /\ MainStep

\* The threads that work with the database.
Busy == {w \in Workers : worker[w] \in {"analyze", "lookup", "handle"}}

\* bus->Disconnect, then sqlite3_close while the threads still run.  It refuses when one
\* of them has a statement open: Close throws and main returns 1.
CloseDatabase ==
    /\ MainAt("close")
    /\ \/ dbOpen' = FALSE /\ main' = "join" /\ UNCHANGED process
       \/ Busy # {} /\ process' = "terminated" /\ UNCHANGED <<dbOpen, main>>
    /\ UNCHANGED <<worker, running>> /\ MainStep

\* A defect: the analyzer is not waited for.
JoinTwo ==
    /\ MainAt("join") /\ worker["notifier"] = "done" /\ worker["web"] = "done"
    /\ process' = "exited"
    /\ UNCHANGED <<main, worker, running, dbOpen>> /\ MainStep

Join ==
    /\ MainAt("join") /\ \A w \in Workers : worker[w] = "done"
    /\ process' = "exited"
    /\ UNCHANGED <<main, worker, running, dbOpen>> /\ MainStep

-----------------------------------------------------------------------------
(***************************************************************************)
(* The signal handlers.  They are installed before the workers exist.      *)
(***************************************************************************)
HandlerAt(label) == process = "runs" /\ handler = label

HandlerStep == UNCHANGED <<main, worker, todo, reports, notifierVars, dbOpen, asks, stops>>

NotifierExists == main # "createNotifier"
AnalyzerExists == main \notin {"createNotifier", "startNotifier", "createAnalyzer"}

Signal ==
    /\ HandlerAt("idle")
    /\ \/ asks < MaxAsks /\ asks' = asks + 1 /\ handler' = "ask" /\ UNCHANGED stops
       \/ stops < MaxStops /\ stops' = stops + 1 /\ handler' = "bus" /\ UNCHANGED asks
    /\ UNCHANGED <<main, worker, running, isAnalyzing, todo, reports, notifierVars, dbOpen, process>>

\* analyze_signal_handler; a null pointer before main has come to the analyzer.
StartAnalyzing ==
    /\ HandlerAt("ask") /\ handler' = "idle"
    /\ IF AnalyzerExists
       THEN isAnalyzing' = TRUE /\ UNCHANGED process
       ELSE process' = "terminated" /\ UNCHANGED isAnalyzing
    /\ UNCHANGED running /\ HandlerStep

\* One call of exit_signal_handler.
StopLoop(l, next, exists) ==
    /\ HandlerAt(l) /\ handler' = next
    /\ IF exists
       THEN running' = [running EXCEPT ![l] = FALSE] /\ UNCHANGED process
       ELSE process' = "terminated" /\ UNCHANGED running
    /\ UNCHANGED isAnalyzing /\ HandlerStep

\* A defect: the D-Bus loop is not told to stop.
StopWithoutBus ==
    \/ HandlerAt("bus") /\ handler' = "web" /\ UNCHANGED <<running, isAnalyzing, process>>
       /\ HandlerStep
    \/ StopLoop("web", "analyzer", TRUE)
    \/ StopLoop("analyzer", "notifier", AnalyzerExists)
    \/ StopLoop("notifier", "idle", NotifierExists)

ExitHandler ==
    \/ StopLoop("bus", "web", TRUE)
    \/ StopLoop("web", "analyzer", TRUE)
    \/ StopLoop("analyzer", "notifier", AnalyzerExists)
    \/ StopLoop("notifier", "idle", NotifierExists)

-----------------------------------------------------------------------------
(***************************************************************************)
(* The threads.                                                            *)
(***************************************************************************)
Contents(s) == {s[i] : i \in DOMAIN s}

At(w, label) == process = "runs" /\ worker[w] = label

Goto(w, label) == worker' = [worker EXCEPT ![w] = label]

WorkerStep == UNCHANGED <<main, handler, dbOpen, asks, stops>>

\* "running = true" and the loop condition.
StartLoop(w) ==
    /\ At(w, "start") /\ running' = [running EXCEPT ![w] = TRUE] /\ Goto(w, "while")
    /\ UNCHANGED <<isAnalyzing, todo, reports, notifierVars, process>> /\ WorkerStep

While(w) ==
    /\ At(w, "while") /\ Goto(w, IF running[w] THEN "check" ELSE "done")
    /\ UNCHANGED <<running, isAnalyzing, todo, reports, notifierVars, process>> /\ WorkerStep

Sleep(w) ==
    /\ At(w, "sleep") /\ Goto(w, "while")
    /\ UNCHANGED <<running, isAnalyzing, todo, reports, notifierVars, process>> /\ WorkerStep

\* An exception that no handler of the thread catches.
Throws(w) ==
    /\ process' = "terminated"
    /\ UNCHANGED <<worker, running, isAnalyzing, todo, reports, notifierVars>> /\ WorkerStep

\* Analyzer::ExecuteAll.
AnalyzerStep == UNCHANGED <<running, mail, mailed, lost>> /\ WorkerStep

\* A defect: a check without a request clears the flag.
CheckClears ==
    /\ At("analyzer", "check")
    /\ IF isAnalyzing
       THEN Goto("analyzer", "analyze") /\ todo' = Objects /\ UNCHANGED isAnalyzing
       ELSE Goto("analyzer", "clear") /\ UNCHANGED <<todo, isAnalyzing>>
    /\ UNCHANGED <<reports, messages, process>> /\ AnalyzerStep

CheckAnalyzing ==
    /\ At("analyzer", "check")
    /\ IF isAnalyzing
       THEN Goto("analyzer", "analyze") /\ todo' = Objects
       ELSE Goto("analyzer", "sleep") /\ UNCHANGED todo
    /\ UNCHANGED <<isAnalyzing, reports, messages, process>> /\ AnalyzerStep

\* ApacheAnalyzerObject::Analyze adds a message when it found anomalies; without a
\* database it throws.
Analyze(o) ==
    /\ At("analyzer", "analyze") /\ o \in todo /\ dbOpen
    /\ todo' = todo \ {o}
    /\ Goto("analyzer", IF todo' = {} THEN "clear" ELSE "analyze")
    /\ \/ UNCHANGED <<reports, messages>>
       \/ /\ o = "apache" /\ reports < MaxReports
          /\ reports' = reports + 1 /\ messages' = Append(messages, reports')
    /\ UNCHANGED <<isAnalyzing, process>> /\ AnalyzerStep

AnalyzeThrows == At("analyzer", "analyze") /\ Throws("analyzer")

\* Whatever was asked for since the analysis began is forgotten with it.
ClearAnalyzing ==
    /\ At("analyzer", "clear") /\ isAnalyzing' = FALSE /\ Goto("analyzer", "sleep")
    /\ UNCHANGED <<todo, reports, messages, process>> /\ AnalyzerStep

\* Notifier::SendMailNotification; Notifier::Loop catches what it throws.
NotifierStep == UNCHANGED <<running, isAnalyzing, todo, reports, process>> /\ WorkerStep

IsMessageAvailable ==
    /\ At("notifier", "check") \/ At("notifier", "compose")
    /\ Goto("notifier", IF messages # <<>> THEN "get"
                        ELSE IF mail = <<>> THEN "sleep" ELSE "send")
    /\ UNCHANGED notifierVars /\ NotifierStep

\* A defect: what came in meanwhile is cleared with the message.
GetAndClear ==
    /\ At("notifier", "get")
    /\ mail' = Append(mail, Head(messages)) /\ messages' = <<>>
    /\ Goto("notifier", "lookup")
    /\ UNCHANGED <<mailed, lost>> /\ NotifierStep

GetMessage ==
    /\ At("notifier", "get")
    /\ mail' = Append(mail, Head(messages)) /\ messages' = Tail(messages)
    /\ Goto("notifier", "lookup")
    /\ UNCHANGED <<mailed, lost>> /\ NotifierStep

\* The mail is gone with every message taken for it.
Fail ==
    /\ lost' = lost \cup Contents(mail) /\ mail' = <<>> /\ Goto("notifier", "sleep")
    /\ UNCHANGED <<messages, mailed>> /\ NotifierStep

\* GetDetectionResults reads the names and the sessions from the database.
GetDetectionResults ==
    /\ At("notifier", "lookup")
    /\ \/ dbOpen /\ Goto("notifier", "compose") /\ UNCHANGED notifierVars /\ NotifierStep
       \/ Fail

\* A defect: the mail is not sent as long as there may be more.
SendLater ==
    /\ At("notifier", "send") /\ Goto("notifier", "sleep")
    /\ UNCHANGED notifierVars /\ NotifierStep

SendMail ==
    /\ At("notifier", "send")
    /\ \/ /\ mailed' = mailed \o mail /\ mail' = <<>> /\ Goto("notifier", "sleep")
          /\ UNCHANGED <<messages, lost>> /\ NotifierStep
       \/ Fail

\* CommandReceiver::StartListen: a timeout, a client; a client may also make it throw.
WebStep ==
    UNCHANGED <<running, isAnalyzing, todo, reports, notifierVars, process>> /\ WorkerStep

WaitForData ==
    /\ At("web", "check")
    /\ Goto("web", "while") \/ Goto("web", "handle")
    /\ WebStep

ReadAndExecuteCommand == At("web", "handle") /\ Goto("web", "while") /\ WebStep

WebThrows == At("web", "handle") /\ Throws("web")

-----------------------------------------------------------------------------
MainNext == Boot \/ StartBus \/ BusLoopEnds \/ StopWorkers \/ CloseDatabase \/ Join

HandlerNext == StartAnalyzing \/ ExitHandler

LoopNext(w) == StartLoop(w) \/ While(w) \/ Sleep(w)

AnalyzerNext ==
    \/ LoopNext("analyzer") \/ CheckAnalyzing \/ (\E o \in Objects : Analyze(o))
    \/ ClearAnalyzing

NotifierNext ==
    \/ LoopNext("notifier") \/ IsMessageAvailable \/ GetMessage \/ GetDetectionResults
    \/ SendMail

WebNext == LoopNext("web") \/ WaitForData \/ ReadAndExecuteCommand

Ended == process # "runs" /\ UNCHANGED vars

Next ==
    \/ MainNext \/ HandlerNext \/ AnalyzerNext \/ NotifierNext \/ WebNext
    \/ Signal \/ BusLoopThrows \/ AnalyzeThrows \/ WebThrows \/ Ended

Spec == Init /\ [][Next]_vars

\* Every thread is scheduled, and an analysis without a database fails.  Signals and all
\* other exceptions come as they like.
Fairness ==
    /\ WF_vars(MainNext) /\ WF_vars(HandlerNext)
    /\ WF_vars(AnalyzerNext) /\ WF_vars(NotifierNext) /\ WF_vars(WebNext)
    /\ WF_vars(~dbOpen /\ AnalyzeThrows)

FairSpec == Spec /\ Fairness

-----------------------------------------------------------------------------
(***************************************************************************)
(* Properties.                                                             *)
(***************************************************************************)
LoopLabels == {"none", "start", "while", "check", "sleep", "done"}

\* Every variable has its type; the notifier takes a message only from a queue that has
\* one and sends no mail without a message.
TypeOK ==
    /\ main \in {"createNotifier", "startNotifier", "createAnalyzer", "startAnalyzer",
                 "startWeb", "startBus", "bus", "stop", "close", "join"}
    /\ handler \in Loops \cup {"idle", "ask"}
    /\ worker["analyzer"] \in LoopLabels \cup {"analyze", "clear"}
    /\ worker["notifier"] \in LoopLabels \cup {"compose", "get", "lookup", "send"}
    /\ worker["web"] \in LoopLabels \cup {"handle"}
    /\ running \in [Loops -> BOOLEAN] /\ isAnalyzing \in BOOLEAN /\ dbOpen \in BOOLEAN
    /\ todo \in SUBSET Objects /\ (worker["analyzer"] = "analyze" <=> todo # {})
    /\ reports \in 0..MaxReports /\ lost \in SUBSET (1..MaxReports)
    /\ {messages, mail, mailed} \subseteq Seq(1..MaxReports)
    /\ worker["notifier"] = "get" => messages # <<>>
    /\ worker["notifier"] = "send" => mail # <<>>
    /\ process \in {"runs", "exited", "terminated"}
    /\ asks \in 0..MaxAsks /\ stops \in 0..MaxStops

\* Every report waits in the queue, is in the mail being written, was mailed or was in a
\* mail that failed: the analyzer adds reports while the notifier takes them, and none
\* vanishes or is mailed twice.
ReportsAccounted ==
    LET ways == messages \o mail \o mailed
    IN  \A r \in 1..reports :
            Cardinality({i \in DOMAIN ways : ways[i] = r}) = IF r \in lost THEN 0 ELSE 1

\* An exit with status 0 leaves no analysis half done and no mail half written.
CleanExit == process = "exited" => todo = {} /\ mail = <<>>

\* A report in the queue is mailed, or lost with a mail that failed, unless the notifier
\* was stopped or the process ended.
ReportsMailed ==
    \A r \in 1..MaxReports :
        r \in Contents(messages) ~>
            r \in Contents(mailed) \cup lost \/ worker["notifier"] = "done" \/ process # "runs"

\* A request for an analysis that comes while none is going on starts one, unless the
\* analyzer is stopped first.  (One that comes during an analysis may start none.)
RequestServed ==
    handler = "ask" /\ AnalyzerExists /\ ~isAnalyzing ~>
        worker["analyzer"] \in {"analyze", "done"} \/ process # "runs"

\* Every loop runs, past the "running = true" a stop must follow.
Started == main = "bus" /\ \A w \in Workers : worker[w] \notin {"none", "start"}

\* A stop signal that comes when every loop runs ends the process.
StopEndsServer == Started /\ handler = "bus" ~> process # "runs"
=============================================================================
