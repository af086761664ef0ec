---------------------------- MODULE BashTraining ----------------------------
(***************************************************************************)
(* The neural networks of the shell users.  A configuration of an agent is *)
(* a learning set of daily user statistics and a selection of commands.    *)
(* The web thread changes configurations, the analyzer thread trains a     *)
(* network for each one marked as changed (NetworkTrainer), marks it as    *)
(* unchanged, and classifies the agent's statistics with the network in    *)
(* the file (Classificator).  A web command is a sequence of statements;   *)
(* any statement of one thread may come between two of the other.          *)
(*                                                                         *)
(* Of the numbers a network computes only these are kept: the rows it was  *)
(* trained on, each with the set of its inputs that were filled, and how   *)
(* many outputs it has.  What a run answers is left open.                  *)
(***************************************************************************)
EXTENDS Integers, Sequences, FiniteSets

CONSTANTS
    Ids,           \* bound: ids of configurations
    Agents,
    NoAgent,       \* of an id without a configuration
    Statistics,    \* rows of BASH_DAILY_USER_STATISTICS_TABLE
    AgentOf, UserOf,
    Has,           \* the commands a statistic counts
    Commands,      \* ids of commands
    MaxRows,       \* MAX_ROWS_IN_MEMORY (100 in the code)
    Ranges,        \* bound: the sets of statistics a range of dates may cover
    MaxCommands,   \* bound: commands of the web user
    MaxAnalyses,   \* bound: runs of Analyze
    MaxCrashes     \* bound: ends of the process

ASSUME TrainingAssumption ==
    /\ IsFiniteSet(Ids) /\ Ids = 1..Cardinality(Ids) /\ NoAgent \notin Agents
    /\ Statistics \subseteq Nat /\ IsFiniteSet(Statistics) /\ Commands \subseteq Nat
    /\ AgentOf \in [Statistics -> Agents] /\ DOMAIN UserOf = Statistics
    /\ Has \in [Statistics -> SUBSET Commands]
    /\ Ranges \subseteq SUBSET Statistics
    /\ MaxRows \in Nat \ {0}
    /\ MaxCommands \in Nat /\ MaxAnalyses \in Nat /\ MaxCrashes \in Nat

Classes == {"UNKNOWN", "NORMAL", "ANOMALY"}
NoWork == [at |-> "idle"]
\* How the data may change without the mark CHANGED, see WebStep, Run, Restart.
Misses == {"unmarked", "cut", "training", "filled", "another", "classified"}
NoNetwork == [usable |-> FALSE, trained |-> FALSE, outputs |-> 0, rows |-> {}]

VARIABLES
    agent,      \* AGENT_NAME_ID of a configuration, NoAgent if there is none
    changed,    \* CHANGED
    learning,   \* BASH_ANOMALY_DETECTION_CONFIGURATION_SELECTED_STATISTICS_TABLE
    selected,   \* BASH_SELECTED_COMMANDS_TABLE
    class,      \* CLASSIFICATION of the statistics
    network,    \* the files network-<id>.data
    web,        \* the statements the web command has still to execute
    work,       \* what the analyzer does next, and its local variables
    commands, analyses, crashes,
    missed      \* history: the changes of the data CHANGED does not tell of

tables == <<agent, changed, learning, selected, class>>
bounds == <<commands, analyses, crashes>>
vars == <<tables, network, web, work, bounds, missed>>

Existing == {i \in Ids : agent[i] # NoAgent}
UsersOf(i) == {UserOf[s] : s \in learning[i]}
Known(i) == {s \in learning[i] : class[s] # "UNKNOWN"}
Unknown(a) == {s \in Statistics : AgentOf[s] = a /\ class[s] = "UNKNOWN"}

FirstRows(S, n) == {s \in S : Cardinality({t \in S : t < s}) < n}
Lowest(S) == CHOOSE s \in S : \A t \in S : s <= t
Limit(n) == IF n < MaxRows THEN n ELSE MaxRows

\* GetSelectedDailyUserCommandsStatistics joins the commands selected in any
\* configuration, in the order of the ids, and one selected twice comes twice.
\* The loop that pairs them with the selected commands of this configuration
\* stops for good at one it does not meet, or meets the second time.
Stops(sel, s) ==
    {k \in Has[s] : LET n == Cardinality({i \in Ids : k \in selected[i]})
                    IN n > 0 /\ (k \notin sel \/ n > 1)}

Inputs(sel, s) ==
    {k \in sel \cap Has[s] : /\ \E i \in Ids : k \in selected[i]
                             /\ \A j \in Stops(sel, s) : j >= k}

\* All that the network of a configuration depends on.
Data(i) ==
    [users |-> UsersOf(i), selected |-> selected[i],
     rows |-> {[statistic |-> s, class |-> class[s], inputs |-> Inputs(selected[i], s)] : s \in Known(i)}]

Init ==
    /\ agent = [i \in Ids |-> NoAgent] /\ changed = [i \in Ids |-> FALSE]
    /\ learning = [i \in Ids |-> {}] /\ selected = [i \in Ids |-> {}]
    /\ class = [s \in Statistics |-> "UNKNOWN"]
    /\ network = [i \in Ids |-> NoNetwork]
    /\ web = <<>> /\ work = NoWork
    /\ commands = 0 /\ analyses = 0 /\ crashes = 0
    /\ missed = [i \in Ids |-> {}]

-----------------------------------------------------------------------------
(* The web thread.                                                         *)

Command(statements) ==
    /\ web = <<>> /\ commands < MaxCommands
    /\ commands' = commands + 1
    /\ web' = statements
    /\ UNCHANGED <<tables, network, work, analyses, crashes, missed>>

\* "insert or replace" keeps the id of the agent's configuration; a new one
\* gets the id after the largest, which may be one that was removed.
IdFor(a) ==
    IF \E i \in Existing : agent[i] = a
    THEN CHOOSE i \in Existing : agent[i] = a
    ELSE CHOOSE i \in 1..(Cardinality(Ids) + 1) :
            /\ \A j \in Existing : j < i
            /\ i = 1 \/ i - 1 \in Existing

\* range: the statistics of the dates, of any agent; defaults: the commands
\* AddDefaultCommandsToConfiguration finds in the cached summaries.
SaveConfiguration ==
    \E a \in Agents, range \in Ranges, defaults \in SUBSET Commands :
        /\ IdFor(a) \in Ids
        /\ Command(<<[do |-> "insert", id |-> IdFor(a), agent |-> a],
                     [do |-> "no commands", id |-> IdFor(a)],
                     [do |-> "commands", id |-> IdFor(a), set |-> defaults],
                     [do |-> "statistics", id |-> IdFor(a), set |-> range]>>)

RemoveConfiguration ==
    \E i \in Existing :
        Command(<<[do |-> "no statistics", id |-> i], [do |-> "no commands", id |-> i],
                  [do |-> "delete", id |-> i]>>)

\* The page sends every row it shows as normal and the checked ones as
\* anomalies.
UpdateClassification ==
    \E i \in Existing, anomalies \in SUBSET Statistics :
        /\ anomalies \subseteq learning[i]
        /\ Command(<<[do |-> "class", id |-> i, set |-> learning[i], class |-> "NORMAL"],
                     [do |-> "class", id |-> i, set |-> anomalies, class |-> "ANOMALY"],
                     [do |-> "mark", id |-> i]>>)

\* A defect: the selection is not marked as a change.
SelectWithoutMark ==
    \E i \in Existing, chosen \in SUBSET Commands :
        Command(<<[do |-> "no commands", id |-> i], [do |-> "commands", id |-> i, set |-> chosen]>>)

\* SaveSelectedCommands and SelectDefaultCommands.
SelectCommands ==
    \E i \in Existing, chosen \in SUBSET Commands :
        Command(<<[do |-> "no commands", id |-> i], [do |-> "commands", id |-> i, set |-> chosen],
                  [do |-> "mark", id |-> i]>>)

\* What a statement leaves in a table.
Insert(st) ==
    /\ agent' = [agent EXCEPT ![st.id] = st.agent]
    /\ changed' = [changed EXCEPT ![st.id] = TRUE]
    /\ UNCHANGED <<learning, selected, class>>
Delete(st) ==
    /\ agent' = [agent EXCEPT ![st.id] = NoAgent]
    /\ changed' = [changed EXCEPT ![st.id] = FALSE]
    /\ UNCHANGED <<learning, selected, class>>
MarkAsChanged(st) ==
    /\ changed' = [changed EXCEPT ![st.id] = agent[st.id] # NoAgent]
    /\ UNCHANGED <<agent, learning, selected, class>>
SetLearning(st, S) ==
    /\ learning' = [learning EXCEPT ![st.id] = S]
    /\ UNCHANGED <<agent, changed, selected, class>>
SetSelected(st, S) ==
    /\ selected' = [selected EXCEPT ![st.id] = S]
    /\ UNCHANGED <<agent, changed, learning, class>>
SetClass(S, c) ==
    /\ class' = [s \in Statistics |-> IF s \in S THEN c ELSE class[s]]
    /\ UNCHANGED <<agent, changed, learning, selected>>

\* The mark of the command is still to come.
MarkFollows(i) ==
    \E k \in 2..Len(web) : web[k].do \in {"mark", "delete"} /\ web[k].id = i

\* SaveConfiguration marks first, and its last statement adds the statistics.
IsSaving == \E k \in 1..Len(web) : web[k].do = "statistics"

TrainerHas(i) == work.at \notin {"idle", "train", "classify", "count", "rows"} /\ work.id = i

\* Why a statement that changes the data of a configuration marks it neither
\* now nor later, or not yet.  One that should be marked and is not has none.
WhyMissed(i) ==
    {why \in {"another", "filled", "unmarked"} :
        \/ why = "another" /\ Head(web).id # i
        \/ why = "filled" /\ Head(web).id = i /\ IsSaving
        \/ why = "unmarked" /\ Head(web).id = i /\ MarkFollows(i)}

\* A mark tells of the changes before it, unless its configuration is being
\* trained: MarkConfigurationAsUnchanged takes that mark back.
Marked(i) ==
    (missed[i] \ {"unmarked"}) \cup (IF TrainerHas(i) THEN {"training"} ELSE {})

MissesOfWeb ==
    missed' = [i \in Ids |->
        IF Data(i)' # Data(i) THEN missed[i] \cup WhyMissed(i)
        ELSE IF /\ Head(web).do \in {"mark", "delete"} /\ Head(web).id = i
                /\ "unmarked" \in missed[i]
             THEN Marked(i) ELSE missed[i]]

WebStep ==
    /\ web # <<>>
    /\ LET st == Head(web) IN
         \/ st.do = "insert" /\ Insert(st)
         \/ st.do = "delete" /\ Delete(st)
         \/ st.do = "mark" /\ MarkAsChanged(st)
         \/ st.do = "no statistics" /\ SetLearning(st, {})
         \/ st.do = "statistics" /\ SetLearning(st, learning[st.id] \cup st.set)
         \/ st.do = "no commands" /\ SetSelected(st, {})
         \/ st.do = "commands" /\ SetSelected(st, selected[st.id] \cup st.set)
         \/ st.do = "class" /\ SetClass(st.set, st.class)
    /\ web' = Tail(web)
    /\ MissesOfWeb
    /\ UNCHANGED <<network, work, bounds>>

-----------------------------------------------------------------------------
(* The analyzer thread: NetworkTrainer::Train.                             *)

Analyzer == UNCHANGED <<tables, web, commands, crashes>>
Reads == UNCHANGED <<network, analyses, missed>> /\ Analyzer

Train ==
    /\ work = NoWork /\ analyses < MaxAnalyses
    /\ analyses' = analyses + 1
    /\ work' = [at |-> "train", left |-> {i \in Existing : changed[i]}]
    /\ UNCHANGED <<network, missed>> /\ Analyzer

\* A defect: the configuration is marked before its network is made.
MarkBeforeTraining ==
    /\ work.at = "train" /\ work.left # {}
    /\ LET i == Lowest(work.left) IN
         /\ work' = [at |-> "header", left |-> work.left \ {i}, id |-> i,
                     users |-> UsersOf(i), outputs |-> Cardinality(UsersOf(i))]
         /\ missed' = [missed EXCEPT ![i] = {}]
         /\ changed' = [changed EXCEPT ![i] = FALSE]
    /\ UNCHANGED <<agent, learning, selected, class, web, bounds, network>>

\* GetUsersIdsFromSelectedDailyStatisticsInConfiguration.
CreateLearningSetFile ==
    /\ work.at = "train" /\ work.left # {}
    /\ LET i == Lowest(work.left) IN
         /\ work' = [at |-> "header", left |-> work.left \ {i}, id |-> i,
                     users |-> UsersOf(i), outputs |-> Cardinality(UsersOf(i))]
         /\ missed' = [missed EXCEPT ![i] = {}]
    /\ UNCHANGED <<network, analyses>> /\ Analyzer

WriteHeader ==
    /\ work.at = "header"
    /\ work' = [at |-> "selected", left |-> work.left, id |-> work.id, users |-> work.users,
                outputs |-> work.outputs, size |-> Cardinality(Known(work.id))]
    /\ Reads

GetMarkedCommandsIds ==
    /\ work.at = "selected"
    /\ work' = [at |-> "user", left |-> work.left, id |-> work.id, users |-> work.users,
                outputs |-> work.outputs, size |-> work.size, selected |-> selected[work.id],
                user |-> 0, toRead |-> 0, offset |-> 0, part |-> {}, lines |-> 0, rows |-> {}]
    /\ Reads

KnownOf(u) == {s \in Known(work.id) : UserOf[s] = u}

NextUser ==
    /\ work.at = "user" /\ work.users # {}
    /\ LET u == CHOOSE x \in work.users : TRUE
       IN work' = [work EXCEPT !.at = "part", !.users = @ \ {u}, !.user = u, !.offset = 0,
                               !.toRead = Cardinality(KnownOf(u))]
    /\ Reads

\* "limit n offset m"
RowsAt(S, m, n) == FirstRows(S, m + n) \ FirstRows(S, m)

ReadPart ==
    /\ work.at = "part" /\ work.part = {} /\ work.toRead > 0
    /\ LET n == Limit(work.toRead)
           read == RowsAt(KnownOf(work.user), work.offset, n)
       IN work' = [work EXCEPT !.toRead = @ - n, !.offset = @ + n,
                               !.part = {[statistic |-> s, class |-> class[s]] : s \in read}]
    /\ Reads

WriteRow ==
    /\ work.at = "part" /\ work.part # {}
    /\ LET r == CHOOSE x \in work.part : TRUE
           row == [statistic |-> r.statistic, class |-> r.class,
                   inputs |-> Inputs(work.selected, r.statistic)]
       IN work' = [work EXCEPT !.part = @ \ {r}, !.rows = @ \cup {row}, !.lines = @ + 1]
    /\ Reads

UserDone ==
    /\ work.at = "part" /\ work.part = {} /\ work.toRead = 0
    /\ work' = [work EXCEPT !.at = "user"]
    /\ Reads

\* CreateNetworkConfiguration reads the users again.  FANN trains only on a
\* file that has as many rows as its header says and as many outputs as the
\* network, and save opens the file before it writes it.
CreateNetwork ==
    /\ work.at = "user" /\ work.users = {}
    /\ LET n == Cardinality(UsersOf(work.id))
           good == work.lines >= work.size /\ work.outputs = n
       IN work' = [at |-> "save", left |-> work.left, id |-> work.id,
                   made |-> [usable |-> TRUE, trained |-> good, outputs |-> n,
                             rows |-> IF good THEN work.rows ELSE {}]]
    /\ network' = [network EXCEPT ![work.id] = NoNetwork]
    /\ UNCHANGED <<analyses, missed>> /\ Analyzer

Save ==
    /\ work.at = "save"
    /\ network' = [network EXCEPT ![work.id] = work.made]
    /\ work' = [at |-> "mark", left |-> work.left, id |-> work.id]
    /\ UNCHANGED <<analyses, missed>> /\ Analyzer

MarkConfigurationAsUnchanged ==
    /\ work.at = "mark"
    /\ changed' = [changed EXCEPT ![work.id] = FALSE]
    /\ work' = [at |-> "train", left |-> work.left]
    /\ UNCHANGED <<agent, learning, selected, class, network, web, bounds, missed>>

-----------------------------------------------------------------------------
(* Classificator::Analyze.  The selected commands and the inputs are read  *)
(* as in the training; only the answer of the network depends on them.     *)

Classify ==
    /\ work.at = "train" /\ work.left = {}
    /\ work' = [at |-> "classify", left |-> Existing, agents |-> agent]
    /\ Reads

\* The network is read from the file, which no other thread writes, and then
\* the users from the table.
CreateFromFile ==
    /\ work.at = "classify" /\ work.left # {}
    /\ LET i == Lowest(work.left)
       IN work' = [at |-> "count", left |-> work.left \ {i}, agents |-> work.agents, id |-> i,
                   network |-> network[i], users |-> Cardinality(UsersOf(i)),
                   clean |-> /\ i \in Existing /\ ~ changed[i]
                             /\ missed[i] \subseteq {"another", "classified"}]
    /\ Reads

CountUnknown ==
    /\ work.at = "count"
    /\ work' = [at |-> "rows", left |-> work.left, agents |-> work.agents, network |-> work.network,
                users |-> work.users, clean |-> work.clean, id |-> work.id, part |-> {},
                toRead |-> Cardinality(Unknown(work.agents[work.id]))]
    /\ Reads

ReadUnknown ==
    /\ work.at = "rows" /\ work.part = {} /\ work.toRead > 0
    /\ work' = [work EXCEPT !.toRead = @ - Limit(@),
                  !.part = FirstRows(Unknown(work.agents[work.id]), Limit(work.toRead))]
    /\ Reads

\* Outputs beyond those of the network are whatever the memory holds: the
\* answer is open there too.
Run ==
    /\ work.at = "rows" /\ work.part # {} /\ work.network.usable
    /\ \E c \in {"NORMAL", "ANOMALY"} : SetClass({Lowest(work.part)}, c)
    /\ work' = [work EXCEPT !.part = @ \ {Lowest(work.part)}]
    /\ missed' = [i \in Ids |-> missed[i] \cup IF Data(i)' # Data(i) THEN {"classified"} ELSE {}]
    /\ UNCHANGED <<network, web, bounds>>

ConfigurationDone ==
    /\ work.at = "rows" /\ work.part = {} /\ work.toRead = 0
    /\ work' = [at |-> "classify", left |-> work.left, agents |-> work.agents]
    /\ Reads

AnalyzeEnds ==
    /\ work.at = "classify" /\ work.left = {}
    /\ work' = NoWork
    /\ Reads

-----------------------------------------------------------------------------
\* A command that is cut off never makes its mark.
Restart ==
    /\ web' = <<>> /\ work' = NoWork
    /\ missed' = [i \in Ids |->
           IF "unmarked" \in missed[i] THEN (missed[i] \ {"unmarked"}) \cup {"cut"} ELSE missed[i]]
    /\ UNCHANGED <<tables, network, commands, analyses>>

\* fann_run with the null pointer CreateFromFile gave for a missing file.
RunWithoutNetwork ==
    /\ work.at = "rows" /\ work.part # {} /\ ~ work.network.usable
    /\ Restart /\ UNCHANGED crashes

Crash ==
    /\ crashes < MaxCrashes
    /\ crashes' = crashes + 1
    /\ Restart

WebThread ==
    \/ SaveConfiguration \/ RemoveConfiguration \/ UpdateClassification \/ SelectCommands
    \/ WebStep

Trainer ==
    \/ Train \/ CreateLearningSetFile \/ WriteHeader \/ GetMarkedCommandsIds \/ NextUser
    \/ ReadPart \/ WriteRow \/ UserDone \/ CreateNetwork \/ Save
    \/ MarkConfigurationAsUnchanged

Classifier ==
    \/ Classify \/ CreateFromFile \/ CountUnknown \/ ReadUnknown \/ Run \/ ConfigurationDone
    \/ AnalyzeEnds

Next == WebThread \/ Trainer \/ Classifier \/ RunWithoutNetwork \/ Crash

Spec == Init /\ [][Next]_vars

-----------------------------------------------------------------------------
(* The variables have their types, an agent has one configuration, and the *)
(* analyzer never holds more rows than MAX_ROWS_IN_MEMORY.                 *)
TypeOK ==
    /\ agent \in [Ids -> Agents \cup {NoAgent}] /\ changed \in [Ids -> BOOLEAN]
    /\ \A i, j \in Existing : agent[i] = agent[j] => i = j
    /\ \A i \in Ids : changed[i] => i \in Existing
    /\ learning \in [Ids -> SUBSET Statistics] /\ selected \in [Ids -> SUBSET Commands]
    /\ class \in [Statistics -> Classes]
    /\ \A i \in Ids : network[i].outputs \in 0..Cardinality(Statistics)
    /\ work.at \in {"part", "rows"} => Cardinality(work.part) <= MaxRows
    /\ missed \in [Ids -> SUBSET Misses]

(* A configuration that is not marked as changed has a network, trained on *)
(* all of its learning set as it is now, read in parts and by user, and on *)
(* its selected commands; unless, since the training began to read them,   *)
(*   - a command changed them and has its mark still to make (unmarked),   *)
(*     which is so only while the mark is among its statements;            *)
(*   - the process ended before that mark (cut);                           *)
(*   - the mark came while the network was trained, and                    *)
(*     MarkConfigurationAsUnchanged took it back (training);               *)
(*   - SaveConfiguration, which marks first, filled in the rest (filled);  *)
(*   - a command on another configuration changed a row of this one, or    *)
(*     which commands are selected anywhere (another);                     *)
(*   - the classifier gave a row its class (classified).                   *)
NetworkUpToDate ==
    \A i \in Existing :
        /\ ~ changed[i] /\ missed[i] = {} =>
              /\ network[i].usable /\ network[i].trained
              /\ network[i].outputs = Cardinality(Data(i).users)
              /\ network[i].rows = Data(i).rows
        /\ "unmarked" \in missed[i] =>
              \E k \in 1..Len(web) : web[k].do \in {"mark", "delete"} /\ web[k].id = i

(* The classifier reads the users again and looks at an output for each of *)
(* them: the network it took from the file is there and has that many, so  *)
(* that it runs no missing network and reads no output past the last;      *)
(* unless, when it took the network, the configuration was removed or      *)
(* marked as changed, or its own learning set had been changed and the     *)
(* mark was to come, cut off, taken back or made before.  Changes by       *)
(* commands on other configurations or by the classifier do no harm.       *)
NoBlindRun ==
    work.at = "rows" /\ work.clean =>
        work.network.usable /\ work.users <= work.network.outputs
=============================================================================
