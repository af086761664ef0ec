--------------------------- MODULE AgentForwarder ---------------------------
(***************************************************************************)
(* slas-agent: two receiver threads accept connections on the Bash and the *)
(* Apache Unix sockets and hand each log entry to the dbus thread through  *)
(* a locked list of commands; the dbus thread calls AddLogEntry on the     *)
(* server, one command at a time.  SIGTERM stores into the flags that the  *)
(* three threads poll, from a signal handler and without a lock.           *)
(*                                                                         *)
(* No thread has a handler for exceptions: one that leaves StartLoop calls *)
(* std::terminate and takes the commands still in the list with it.        *)
(***************************************************************************)
EXTENDS Naturals, Sequences, FiniteSets

CONSTANTS
    Entries,      \* log entries, each sent over a connection of its own
    SourceOf,     \* the receiver an entry is sent to
    MaxSignals,   \* bound: signals sent to the agent
    NoEntry

Receivers == {"apache", "bash"}
Threads == Receivers \cup {"dbus", "handler"}

ASSUME AgentAssumption ==
    /\ SourceOf \in [Entries -> Receivers] /\ NoEntry \notin Entries
    /\ MaxSignals \in Nat

VARIABLES
    offered,      \* senders: the entries sent so far, in order
    backlog,      \* connections no receiver has accepted yet, in order
    pc,           \* what each thread does next
    running,      \* receivers: running_
    fdOpen,       \* BashLogReceiver: is socket_fd_ still the socket
    polled,       \* receivers: does poll watch the socket, not descriptor -1
    hand,         \* receivers: the entry just received
    commands,     \* DBusThread: commands_
    command,      \* dbus: the command being executed
    loopRunning,  \* DBusThread: loop_running_
    delivered,    \* entries the server answered, in order
    failed,       \* entries whose call came back without an answer
    dropped,      \* malformed lines
    process,      \* "runs", "exited" or "terminated"
    signals,      \* signals sent so far
    due           \* history: the commands in the list when a stop reached the inner loop

senderVars   == <<offered, backlog>>
receiverVars == <<running, fdOpen, polled, hand, dropped>>
dbusVars     == <<command, loopRunning, delivered, failed>>
vars == <<senderVars, pc, receiverVars, commands, dbusVars, process, signals, due>>

Contents(s) == {s[i] : i \in DOMAIN s}
Goto(t, label) == pc' = [pc EXCEPT ![t] = label]
At(t, label) == process = "runs" /\ pc[t] = label

Init ==
    /\ offered = <<>> /\ backlog = [r \in Receivers |-> <<>>]
    /\ pc = [t \in Threads |-> IF t = "handler" THEN "idle" ELSE "start"]
    /\ running = [r \in Receivers |-> FALSE] /\ fdOpen = TRUE
    /\ polled = [r \in Receivers |-> FALSE] /\ hand = [r \in Receivers |-> NoEntry]
    /\ commands = <<>> /\ command = NoEntry /\ loopRunning = FALSE
    /\ delivered = <<>> /\ failed = {} /\ dropped = {}
    /\ process = "runs" /\ signals = 0 /\ due = {}

\* bash's send_command or apache_helper connects and sends one text.
Send(e) ==
    /\ process = "runs" /\ e \notin Contents(offered)
    /\ offered' = Append(offered, e)
    /\ backlog' = [backlog EXCEPT ![SourceOf[e]] = Append(@, e)]
    /\ UNCHANGED <<pc, receiverVars, commands, dbusVars, process, signals, due>>

-----------------------------------------------------------------------------
(***************************************************************************)
(* The receivers: BashLogReceiver::StartLoop, ApacheLogReceiver::StartLoop.*)
(***************************************************************************)
ReceiverStep == UNCHANGED <<offered, dbusVars, signals, due>>

ReceiverStart(r) ==
    /\ At(r, "start") /\ running' = [running EXCEPT ![r] = TRUE]
    /\ Goto(r, "while")
    /\ UNCHANGED <<backlog, fdOpen, polled, hand, dropped, commands, process>> /\ ReceiverStep

ReceiverWhile(r) ==
    /\ At(r, "while")
    /\ Goto(r, IF running[r] THEN "wait" ELSE "done")
    /\ UNCHANGED <<backlog, receiverVars, commands, process>> /\ ReceiverStep

\* poll is called with the descriptor as it is now; it ignores descriptor -1.
WaitForData(r) ==
    /\ At(r, "wait")
    /\ polled' = [polled EXCEPT ![r] = (r = "bash" => fdOpen)]
    /\ Goto(r, "poll")
    /\ UNCHANGED <<backlog, running, fdOpen, hand, dropped, commands, process>> /\ ReceiverStep

PollReturns(r) ==
    /\ At(r, "poll")
    /\ Goto(r, IF polled[r] /\ backlog[r] # <<>> THEN "accept" ELSE "while")
    /\ UNCHANGED <<backlog, receiverVars, commands, process>> /\ ReceiverStep

\* Accept and ReceiveText; any text may be one the server can use.
AcceptStep(r) ==
    /\ At(r, "accept") /\ (r = "bash" => fdOpen)
    /\ backlog' = [backlog EXCEPT ![r] = Tail(@)]
    /\ UNCHANGED <<running, fdOpen, polled, commands, process>> /\ ReceiverStep

Accept(r) ==
    /\ AcceptStep(r)
    /\ hand' = [hand EXCEPT ![r] = Head(backlog[r])] /\ UNCHANGED dropped
    /\ Goto(r, "add")

\* An Apache line that does not match the pattern is dropped with a warning.
DropMalformed ==
    /\ AcceptStep("apache")
    /\ dropped' = dropped \cup {Head(backlog["apache"])} /\ UNCHANGED hand
    /\ Goto("apache", "while")

\* Accept(-1) after StopLoop; a connection closed without a text, which ReceiveText
\* throws for; an Apache line whose numbers stoi rejects.  The exception leaves StartLoop
\* and the process is terminated.
AcceptThrows(r) ==
    /\ At(r, "accept")
    /\ process' = "terminated"
    /\ UNCHANGED <<backlog, pc, receiverVars, commands>> /\ ReceiverStep

AddCommand(r) ==
    /\ At(r, "add")
    /\ commands' = Append(commands, hand[r]) /\ hand' = [hand EXCEPT ![r] = NoEntry]
    /\ Goto(r, "while")
    /\ UNCHANGED <<backlog, running, fdOpen, polled, dropped, process>> /\ ReceiverStep

-----------------------------------------------------------------------------
(***************************************************************************)
(* DBusThread::StartLoop.                                                  *)
(***************************************************************************)
DbusStep == UNCHANGED <<senderVars, receiverVars, process, signals, due>>

DbusStart ==
    /\ At("dbus", "start") /\ loopRunning' = TRUE
    /\ Goto("dbus", "while")
    /\ UNCHANGED <<commands, command, delivered, failed>> /\ DbusStep

DbusWhile ==
    /\ At("dbus", "while")
    /\ Goto("dbus", IF loopRunning THEN "available" ELSE "done")
    /\ UNCHANGED <<commands, dbusVars>> /\ DbusStep

\* A defect: the inner loop ends with the outer one.
StopWithoutDraining ==
    /\ At("dbus", "available")
    /\ Goto("dbus", IF commands # <<>> /\ loopRunning THEN "get" ELSE "sleep")
    /\ UNCHANGED <<commands, dbusVars>> /\ DbusStep

\* A defect: the last command is not seen.
MoreThanOne ==
    /\ At("dbus", "available")
    /\ Goto("dbus", IF Len(commands) > 1 THEN "get" ELSE "sleep")
    /\ UNCHANGED <<commands, dbusVars>> /\ DbusStep

IsCommandAvailable ==
    /\ At("dbus", "available")
    /\ Goto("dbus", IF commands # <<>> THEN "get" ELSE "sleep")
    /\ UNCHANGED <<commands, dbusVars>> /\ DbusStep

\* A defect: front() without pop_front().
GetWithoutPop ==
    /\ At("dbus", "get")
    /\ command' = Head(commands) /\ UNCHANGED commands
    /\ Goto("dbus", "execute")
    /\ UNCHANGED <<loopRunning, delivered, failed>> /\ DbusStep

\* A defect: back() and pop_back().
GetLast ==
    /\ At("dbus", "get")
    /\ command' = commands[Len(commands)] /\ commands' = SubSeq(commands, 1, Len(commands) - 1)
    /\ Goto("dbus", "execute")
    /\ UNCHANGED <<loopRunning, delivered, failed>> /\ DbusStep

GetCommand ==
    /\ At("dbus", "get")
    /\ command' = Head(commands) /\ commands' = Tail(commands)
    /\ Goto("dbus", "execute")
    /\ UNCHANGED <<loopRunning, delivered, failed>> /\ DbusStep

\* AddLogEntry has blocked for the reply and looks neither for an error nor for no reply.
CallReturns ==
    /\ At("dbus", "execute")
    /\ command' = NoEntry
    /\ Goto("dbus", "available")
    /\ UNCHANGED <<commands, loopRunning>> /\ DbusStep

ReplyReceived == CallReturns /\ delivered' = Append(delivered, command) /\ UNCHANGED failed
NoReply == CallReturns /\ failed' = failed \cup {command} /\ UNCHANGED delivered

Execute == ReplyReceived \/ NoReply

\* SendMessage throws when the connection is closed: nothing catches it in the thread.
ExecuteThrows ==
    /\ At("dbus", "execute")
    /\ process' = "terminated"
    /\ UNCHANGED <<senderVars, pc, receiverVars, commands, dbusVars, signals, due>>

Usleep ==
    /\ At("dbus", "sleep")
    /\ Goto("dbus", "while")
    /\ UNCHANGED <<commands, dbusVars>> /\ DbusStep

-----------------------------------------------------------------------------
(***************************************************************************)
(* sigterm_handler, which runs on the main thread while that waits in join,*)
(* and the end of main.                                                    *)
(***************************************************************************)
HandlerStep == UNCHANGED <<senderVars, polled, hand, dropped, commands,
                           command, delivered, failed, process>>

Signal ==
    /\ At("handler", "idle") /\ signals < MaxSignals /\ signals' = signals + 1
    /\ Goto("handler", "apache")
    /\ UNCHANGED <<running, fdOpen, loopRunning, due>> /\ HandlerStep

\* A defect: the handler leaves the Bash receiver running.
StopApacheOnly ==
    /\ At("handler", "apache") /\ running' = [running EXCEPT !["apache"] = FALSE]
    /\ Goto("handler", "dbus")
    /\ UNCHANGED <<fdOpen, loopRunning, signals, due>> /\ HandlerStep

StopApache ==
    /\ At("handler", "apache") /\ running' = [running EXCEPT !["apache"] = FALSE]
    /\ Goto("handler", "bash")
    /\ UNCHANGED <<fdOpen, loopRunning, signals, due>> /\ HandlerStep

StopBash ==
    /\ At("handler", "bash") /\ running' = [running EXCEPT !["bash"] = FALSE]
    /\ Goto("handler", "fd")
    /\ UNCHANGED <<fdOpen, loopRunning, signals, due>> /\ HandlerStep

StopBashFd ==
    /\ At("handler", "fd") /\ fdOpen' = FALSE
    /\ Goto("handler", "dbus")
    /\ UNCHANGED <<running, loopRunning, signals, due>> /\ HandlerStep

\* DBusThread::StartLoop is in "while (IsCommandAvailable())".
InnerLoop == {"available", "get", "execute"}

StopDbus ==
    /\ At("handler", "dbus") /\ loopRunning' = FALSE
    /\ due' = IF pc["dbus"] \in InnerLoop THEN due \cup Contents(commands) ELSE due
    /\ Goto("handler", "idle")
    /\ UNCHANGED <<running, fdOpen, signals>> /\ HandlerStep

Exit ==
    /\ process = "runs" /\ pc["handler"] = "idle"
    /\ \A t \in Receivers \cup {"dbus"} : pc[t] = "done"
    /\ process' = "exited"
    /\ UNCHANGED <<senderVars, pc, receiverVars, commands, dbusVars, signals, due>>

Ended == process # "runs" /\ UNCHANGED vars

-----------------------------------------------------------------------------
ReceiverNext(r) ==
    \/ ReceiverStart(r) \/ ReceiverWhile(r) \/ WaitForData(r) \/ PollReturns(r)
    \/ Accept(r) \/ AcceptThrows(r) \/ AddCommand(r)
    \/ r = "apache" /\ DropMalformed

\* What the dbus thread does without the server ...
DbusLocal == DbusStart \/ DbusWhile \/ IsCommandAvailable \/ GetCommand \/ Usleep

\* ... and with it.
DbusNext == DbusLocal \/ Execute \/ ExecuteThrows

HandlerNext == StopApache \/ StopBash \/ StopBashFd \/ StopDbus

LocalNext ==
    \/ \E e \in Entries : Send(e)
    \/ \E r \in Receivers : ReceiverNext(r)
    \/ DbusLocal \/ Signal \/ HandlerNext \/ Exit \/ Ended

Next == LocalNext \/ Execute \/ ExecuteThrows

Spec == Init /\ [][Next]_vars

\* Every thread is scheduled; signals and senders come as they like.
Fairness ==
    /\ \A r \in Receivers : WF_vars(ReceiverNext(r))
    /\ WF_vars(DbusNext) /\ WF_vars(HandlerNext) /\ WF_vars(Exit)

FairSpec == Spec /\ Fairness

-----------------------------------------------------------------------------
(***************************************************************************)
(* Properties.                                                             *)
(***************************************************************************)
ReceiverLabels == {"start", "while", "wait", "poll", "accept", "add", "done"}
DbusLabels == {"start", "while", "available", "get", "execute", "sleep", "done"}
HandlerLabels == {"idle", "apache", "bash", "fd", "dbus"}

\* Every variable has its type; a receiver that accepts has a connection to accept and
\* one that adds has an entry, so that Head and Append never meet an empty list.
TypeOK ==
    /\ offered \in Seq(Entries) /\ backlog \in [Receivers -> Seq(Entries)]
    /\ pc \in [Threads -> ReceiverLabels \cup DbusLabels \cup HandlerLabels]
    /\ \A r \in Receivers : pc[r] \in ReceiverLabels
    /\ pc["dbus"] \in DbusLabels /\ pc["handler"] \in HandlerLabels
    /\ running \in [Receivers -> BOOLEAN] /\ fdOpen \in BOOLEAN /\ loopRunning \in BOOLEAN
    /\ polled \in [Receivers -> BOOLEAN] /\ hand \in [Receivers -> Entries \cup {NoEntry}]
    /\ \A r \in Receivers : /\ pc[r] = "accept" => backlog[r] # <<>>
                            /\ pc[r] = "add" <=> hand[r] # NoEntry
    /\ commands \in Seq(Entries) /\ command \in Entries \cup {NoEntry}
    /\ pc["dbus"] = "get" => commands # <<>>
    /\ pc["dbus"] = "execute" <=> command # NoEntry
    /\ delivered \in Seq(Entries) /\ failed \in SUBSET Entries /\ dropped \in SUBSET Entries
    /\ process \in {"runs", "exited", "terminated"} /\ signals \in 0..MaxSignals
    /\ due \in SUBSET Entries

Executed == Contents(delivered) \cup failed

Held == {hand[r] : r \in Receivers} \cup {command}

\* Every entry sent is at one place on its way: waiting, in a receiver's hand, in the
\* list, being executed, or executed.  None vanishes and none is forwarded twice, with
\* both receivers adding to the list while the dbus thread takes from it.
EachEntryOnce ==
    LET ways == backlog["apache"] \o backlog["bash"] \o commands \o delivered
    IN  /\ \A e \in Contents(offered) :
              Cardinality({i \in DOMAIN ways : ways[i] = e})
                + Cardinality({s \in {Held, failed, dropped} : e \in s}) = 1

\* The server receives the entries of one receiver in the order they were sent.
ForwardedInOrder ==
    \A i, j \in DOMAIN delivered :
        i < j /\ SourceOf[delivered[i]] = SourceOf[delivered[j]] =>
            \E k, m \in DOMAIN offered :
                k < m /\ offered[k] = delivered[i] /\ offered[m] = delivered[j]

\* The commands in the list when a stop request comes while the dbus thread works on it
\* have been executed when its loop ends.  A stop that comes while the thread sleeps
\* promises nothing: the loop then ends without another look at the list.
StopDrainsTheList == pc["dbus"] = "done" => due \subseteq Executed

\* A command in the list is executed, unless the process was terminated by a thread's
\* exception or a stop ended the loop and did not find the command in the inner loop.
CommandsAreExecuted ==
    \A e \in Entries : e \in Contents(commands) ~>
        e \in Executed \/ process = "terminated" \/ (pc["dbus"] = "done" /\ e \notin due)

\* The three threads run their loops, past the "running = true" a stop must follow.
Started == \A t \in Receivers \cup {"dbus"} : pc[t] # "start"

\* A signal that comes when the three threads have started ends the process.
SignalEndsTheProcess ==
    Started /\ pc["handler"] = "apache" ~> process # "runs"
=============================================================================
