------------------------ MODULE ApacheClassification ------------------------
(***************************************************************************)
(* The CLASSIFICATION of the sessions of one virtual host.  The analyzer   *)
(* thread gives each unclassified session the majority of its nearest      *)
(* neighbours in the learning set (KnnAnalyzerObject); the web thread sets *)
(* the learning set and classifies its sessions, as the user says or by    *)
(* the interquartile range.  Each step is a statement or the work on one   *)
(* row, and both threads read and write the same tables between them.      *)
(*                                                                         *)
(* A session is its row id.  Of the four numbers Distance compares only    *)
(* one is kept, requests_count, which is also what the IQR method uses.    *)
(***************************************************************************)
EXTENDS Integers, FiniteSets

CONSTANTS
    Sessions,            \* rows of APACHE_SESSION_TABLE
    Requests,            \* REQUESTS_COUNT of each session
    MaxRows,             \* MAX_ROWS_IN_MEMORY (100 in the code)
    NumberOfNeighbours,  \* number_of_neighbours_ (3 in the code)
    Selections,          \* bound: the sets of sessions a command may be about
    MaxCommands          \* bound: commands of the web user

ASSUME ClassificationAssumption ==
    /\ Sessions \subseteq Nat /\ IsFiniteSet(Sessions) /\ Requests \in [Sessions -> Nat]
    /\ Selections \subseteq SUBSET Sessions
    /\ MaxRows \in Nat \ {0} /\ NumberOfNeighbours \in Nat \ {0} /\ MaxCommands \in Nat

VARIABLES
    class,       \* CLASSIFICATION
    learning,    \* APACHE_LEARNING_SESSIONS of the host
    analyzer,    \* what the analyzer does next
    left,        \* RunPartially over the sessions: rows still to ask for
    offset,      \* and rows asked for
    rows,        \* sessions_part, without the sessions already classified
    count,       \* learning_set_count
    current,     \* original_session_
    learnLeft,   \* RunPartially over the learning set: rows still to ask for
    ids,         \* learning_set_ids, without the sessions already looked at
    table,       \* nearest_neighbours_: the neighbours and their classification
    reported,    \* how often a session was put into anomaly_sessions_ids
    web,         \* what the web thread does next
    chosen,      \* web: the sessions of the command, or the set the IQR method read
    toMark,      \* web, IQR method: the sessions still to be marked
    commands,    \* commands so far
    heard,       \* history: the sessions offered to the table
    steady,      \* history: no web statement since the analysis began
    byUser,      \* history: the classification the last command gave a session
    overtaken    \* history: sessions given one while the analyzer had read them as unknown

analyzerVars == <<analyzer, left, offset, rows, count, current, learnLeft, ids, table, heard>>
webVars == <<web, chosen, toMark, commands>>
histVars == <<steady, byUser, overtaken>>
vars == <<class, learning, analyzerVars, reported, webVars, histVars>>

Unclassified == {s \in Sessions : class[s] = "UNKNOWN"}

\* "limit n": tables are read in the order of the ids.
FirstRows(S, n) == {s \in S : Cardinality({t \in S : t < s}) < n}

Lowest(S) == CHOOSE s \in S : \A t \in S : s <= t

Smaller(a, b) == IF a < b THEN a ELSE b

Init ==
    /\ class = [s \in Sessions |-> "UNKNOWN"] /\ learning = {}
    /\ analyzer = "idle" /\ left = 0 /\ offset = 0 /\ rows = {} /\ count = 0
    /\ current \in Sessions /\ current = Lowest(Sessions)
    /\ learnLeft = 0 /\ ids = {} /\ table = {} /\ heard = {}
    /\ reported = [s \in Sessions |-> 0]
    /\ web = "idle" /\ chosen = {} /\ toMark = {} /\ commands = 0
    /\ steady = FALSE /\ byUser = [s \in Sessions |-> "none"] /\ overtaken = {}

-----------------------------------------------------------------------------
(***************************************************************************)
(* KnnAnalyzerObject.                                                      *)
(***************************************************************************)
AnalyzerStep == UNCHANGED <<learning, webVars, byUser, overtaken>>

\* AnalyzeVirtualhost counts the unclassified sessions.
CountSessions ==
    /\ analyzer = "idle" /\ Unclassified # {}
    /\ left' = Cardinality(Unclassified) /\ offset' = 0 /\ steady' = TRUE
    /\ analyzer' = "part"
    /\ UNCHANGED <<class, rows, count, current, learnLeft, ids, table, heard, reported>>
    /\ AnalyzerStep

Part(limit, S) ==
    /\ analyzer = "part"
    /\ rows' = S /\ left' = left - limit /\ offset' = offset + limit
    /\ analyzer' = "count"
    /\ UNCHANGED <<class, count, current, learnLeft, ids, table, heard, reported, steady>>
    /\ AnalyzerStep

Limit(rest) == Smaller(rest, MaxRows)

\* A defect: the offset of the part is passed on.
ReadAtOffset ==
    Part(Limit(left),
         FirstRows(Unclassified, offset + Limit(left)) \ FirstRows(Unclassified, offset))

\* A defect: the query has no condition on the classification.
ReadAny == Part(Limit(left), FirstRows(Sessions, Limit(left)))

\* GetNotClassifiedSessionStatistics with offset 0: the sessions of the parts before
\* are classified by now.
ReadPart == Part(Limit(left), FirstRows(Unclassified, Limit(left)))

CountLearning ==
    /\ analyzer = "count" /\ count' = Cardinality(learning)
    /\ analyzer' = "session"
    /\ UNCHANGED <<class, left, offset, rows, current, learnLeft, ids, table, heard>>
    /\ UNCHANGED <<reported, steady>>
    /\ AnalyzerStep

SetSession ==
    /\ analyzer = "session" /\ rows # {}
    /\ current' = Lowest(rows) /\ table' = {} /\ heard' = {} /\ learnLeft' = count
    /\ analyzer' = IF count = 0 THEN "classify" ELSE "ids"
    /\ UNCHANGED <<class, left, offset, rows, count, ids, reported, steady>> /\ AnalyzerStep

\* A defect: parts are read as long as a session is unclassified.
RepeatParts ==
    /\ analyzer = "session" /\ rows = {}
    /\ analyzer' = (IF Unclassified = {} THEN "report" ELSE "part")
    /\ left' = Cardinality(Unclassified) /\ offset' = 0
    /\ UNCHANGED <<class, rows, count, current, learnLeft, ids, table, heard, reported, steady>>
    /\ AnalyzerStep

EndOfPart ==
    /\ analyzer = "session" /\ rows = {}
    /\ analyzer' = IF left = 0 THEN "report" ELSE "part"
    /\ UNCHANGED <<class, left, offset, rows, count, current, learnLeft, ids, table, heard>>
    /\ UNCHANGED <<reported, steady>>
    /\ AnalyzerStep

AfterNeighbours(more, rest) ==
    IF more # {} THEN "add" ELSE IF rest > 0 THEN "ids" ELSE "classify"

\* GetLearningSessionsIds with offset 0: of a set longer than MaxRows the rows after
\* those are never read.
ReadLearningIds ==
    /\ analyzer = "ids"
    /\ ids' = FirstRows(learning, Limit(learnLeft)) /\ learnLeft' = learnLeft - Limit(learnLeft)
    /\ analyzer' = AfterNeighbours(ids', learnLeft')
    /\ UNCHANGED <<class, left, offset, rows, count, current, table, heard, reported, steady>>
    /\ AnalyzerStep

Distance(a, b) ==
    IF Requests[a] < Requests[b] THEN Requests[b] - Requests[a] ELSE Requests[a] - Requests[b]

Known(neighbours) == {n.id : n \in neighbours}

\* NearestNeighboursTable::Add: the farthest of one too many is erased; std::sort may
\* leave any of the equally far ones last.
WithNeighbour(s, last) ==
    LET added == table \cup {[id |-> s, class |-> class[s]]}
    IN  /\ s \notin Known(table)
        /\ IF Cardinality(added) <= NumberOfNeighbours
           THEN table' = added
           ELSE /\ \A n \in added : Distance(n.id, current) <= Distance(last, current)
                /\ table' = {n \in added : n.id # last}

\* A defect: the table is full, the newcomer is not compared.
AddWhileRoom ==
    LET s == Lowest(ids)
    IN  /\ analyzer = "add"
        /\ IF class[s] = "UNKNOWN" \/ s \in Known(table) \/ Cardinality(table) = NumberOfNeighbours
           THEN UNCHANGED table
           ELSE table' = table \cup {[id |-> s, class |-> class[s]]}
        /\ heard' = IF class[s] = "UNKNOWN" THEN heard ELSE heard \cup {s}
        /\ ids' = ids \ {s} /\ analyzer' = AfterNeighbours(ids', learnLeft)
        /\ UNCHANGED <<class, left, offset, rows, count, current, learnLeft, reported, steady>>
        /\ AnalyzerStep

\* GetOneSessionStatistic and Add for one session of the learning set.
AddNeighbour ==
    LET s == Lowest(ids)
    IN  /\ analyzer = "add"
        /\ IF class[s] = "UNKNOWN" \/ s \in Known(table)
           THEN UNCHANGED table
           ELSE \E last \in Known(table) \cup {s} : WithNeighbour(s, last)
        /\ heard' = IF class[s] = "UNKNOWN" THEN heard ELSE heard \cup {s}
        /\ ids' = ids \ {s} /\ analyzer' = AfterNeighbours(ids', learnLeft)
        /\ UNCHANGED <<class, left, offset, rows, count, current, learnLeft, reported, steady>>
        /\ AnalyzerStep

\* GetSessionClassification: the majority, NORMAL when the votes are equal.
Majority ==
    LET anomalies == Cardinality({n \in table : n.class = "ANOMALY"})
    IN  IF table = {} THEN "UNKNOWN"
        ELSE IF 2 * anomalies > Cardinality(table) THEN "ANOMALY" ELSE "NORMAL"

\* A defect: the classification is set in memory only.
ClassifyInMemory ==
    /\ analyzer = "classify"
    /\ reported' = [reported EXCEPT ![current] = IF Majority = "ANOMALY" THEN @ + 1 ELSE @]
    /\ rows' = rows \ {current}
    /\ analyzer' = "session"
    /\ UNCHANGED <<class, left, offset, count, current, learnLeft, ids, table, heard, steady>>
    /\ AnalyzerStep

\* UpdateSessionStatisticClassification writes whatever the row holds by now.
Classify ==
    /\ analyzer = "classify"
    /\ class' = [class EXCEPT ![current] = Majority]
    /\ reported' = [reported EXCEPT ![current] = IF Majority = "ANOMALY" THEN @ + 1 ELSE @]
    /\ rows' = rows \ {current}
    /\ analyzer' = "session"
    /\ UNCHANGED <<left, offset, count, current, learnLeft, ids, table, heard, steady>>
    /\ AnalyzerStep

\* ApacheAnalyzerObject::Analyze hands the summary to the notifier; the table goes with
\* the analyzer object.
Report ==
    /\ analyzer = "report" /\ analyzer' = "idle"
    /\ table' = {} /\ heard' = {} /\ count' = 0 /\ current' = Lowest(Sessions)
    /\ offset' = 0 /\ steady' = FALSE
    /\ UNCHANGED <<class, left, rows, learnLeft, ids, reported>>
    /\ AnalyzerStep

-----------------------------------------------------------------------------
(***************************************************************************)
(* apache::web::CommandExecutorObject.                                     *)
(***************************************************************************)
WebStep == UNCHANGED <<analyzerVars, reported>>

\* A command and the sessions it is about.
Command(next, S) ==
    /\ web = "idle" /\ commands < MaxCommands /\ commands' = commands + 1
    /\ web' = next /\ chosen' = S
    /\ UNCHANGED <<class, learning, toMark, histVars>> /\ WebStep

\* set_apache_sessions_as_anomaly, set_apache_anomaly_detection_configuration (the
\* sessions between two dates) and remove_configuration.
SetApacheSessionsAsAnomaly(S) == Command("marks", S)
SetApacheAnomalyDetectionConfiguration(S) == Command("remove", S)
RemoveConfiguration == Command("remove", {})

Given(S, mark(_)) == [s \in Sessions |-> IF s \in S THEN mark(s) ELSE byUser[s]]

\* All NORMAL and then some ANOMALY, in one transaction.
SetApacheSessionAsAnomaly(anomalies) ==
    LET mark(s) == IF s \in anomalies THEN "ANOMALY" ELSE "NORMAL"
    IN  /\ web = "marks" /\ anomalies \subseteq chosen
        /\ class' = [s \in Sessions |-> IF s \in chosen THEN mark(s) ELSE class[s]]
        /\ byUser' = Given(chosen, mark)
        /\ overtaken' = (overtaken \ chosen) \cup (chosen \cap rows)
        /\ web' = "remove" /\ steady' = FALSE
        /\ UNCHANGED <<learning, chosen, toMark, commands>> /\ WebStep

RemoveAllLearningSessions ==
    /\ web = "remove" /\ learning' = {} /\ web' = "set" /\ steady' = FALSE
    /\ UNCHANGED <<class, chosen, toMark, commands, byUser, overtaken>> /\ WebStep

SetLearningSessions ==
    /\ web = "set" /\ learning' = chosen /\ web' = "idle" /\ steady' = FALSE
    /\ chosen' = {}
    /\ UNCHANGED <<class, toMark, commands, byUser, overtaken>> /\ WebStep

(***************************************************************************)
(* MarkLearningSetWithIqrMethod.  With an empty learning set it reads      *)
(* before the start of a vector; that command is not enumerated.           *)
(***************************************************************************)

\* The n-th smallest request count of S.
Nth(S, n) ==
    CHOOSE v \in {Requests[s] : s \in S} :
        /\ Cardinality({s \in S : Requests[s] < v}) < n
        /\ Cardinality({s \in S : Requests[s] <= v}) >= n

CeilQuarters(quarters, n) == (quarters * n + 3) \div 4

\* The sessions above q3 + 1.5 * iqr, the quartiles by their place in the sorted vector.
AboveThird(S) ==
    LET q1 == Nth(S, CeilQuarters(1, Cardinality(S)))
        q3 == Nth(S, CeilQuarters(3, Cardinality(S)))
    IN  {s \in S : 2 * Requests[s] > 2 * q3 + 3 * (q3 - q1)}

MarkLearningSetWithIqrMethod == learning # {} /\ Command("clear", learning)

ClearAnomalyMarksInLearningSet ==
    /\ web = "clear"
    /\ class' = [s \in Sessions |-> IF s \in learning THEN "NORMAL" ELSE class[s]]
    /\ byUser' = [s \in Sessions |-> IF s \in learning THEN "none" ELSE byUser[s]]
    /\ overtaken' = (overtaken \ learning) \cup (learning \cap rows)
    /\ toMark' = AboveThird(chosen) /\ web' = "iqr" /\ steady' = FALSE
    /\ UNCHANGED <<learning, chosen, commands>> /\ WebStep

MarkAnomaly ==
    /\ web = "iqr" /\ toMark # {}
    /\ class' = [class EXCEPT ![Lowest(toMark)] = "ANOMALY"]
    /\ toMark' = toMark \ {Lowest(toMark)} /\ steady' = FALSE
    /\ UNCHANGED <<learning, web, chosen, commands, byUser, overtaken>> /\ WebStep

\* What the marks should be, by the definition of the quartiles: at least a quarter
\* (three quarters) of the sessions have no more requests, and fewer have less.
IsQuartile(v, S, quarters) ==
    /\ 4 * Cardinality({s \in S : Requests[s] <= v}) >= quarters * Cardinality(S)
    /\ 4 * Cardinality({s \in S : Requests[s] < v}) < quarters * Cardinality(S)

Outlier(s, S) ==
    \E q1, q3 \in {Requests[t] : t \in S} :
        /\ IsQuartile(q1, S, 1) /\ IsQuartile(q3, S, 3)
        /\ 2 * Requests[s] > 2 * q3 + 3 * (q3 - q1)

EndOfIqr ==
    LET mark(s) == IF Outlier(s, chosen) THEN "ANOMALY" ELSE "NORMAL"
    IN  /\ web = "iqr" /\ toMark = {}
        /\ byUser' = Given(chosen, mark)
        /\ web' = "idle" /\ chosen' = {}
        /\ UNCHANGED <<class, learning, toMark, commands, steady, overtaken>> /\ WebStep

-----------------------------------------------------------------------------
AnalyzerNext ==
    \/ CountSessions \/ ReadPart \/ CountLearning \/ SetSession \/ EndOfPart
    \/ ReadLearningIds \/ AddNeighbour \/ Classify \/ Report

WebNext ==
    \/ \E S \in Selections :
          SetApacheSessionsAsAnomaly(S) \/ SetApacheAnomalyDetectionConfiguration(S)
    \/ RemoveConfiguration \/ MarkLearningSetWithIqrMethod
    \/ \E S \in SUBSET chosen : SetApacheSessionAsAnomaly(S)
    \/ RemoveAllLearningSessions \/ SetLearningSessions
    \/ ClearAnomalyMarksInLearningSet \/ MarkAnomaly \/ EndOfIqr

Next == AnalyzerNext \/ WebNext

Spec == Init /\ [][Next]_vars

\* Both threads are scheduled; the user sends commands when he likes.
FairSpec == Spec /\ WF_vars(AnalyzerNext) /\ WF_vars(web # "idle" /\ WebNext)

-----------------------------------------------------------------------------
(***************************************************************************)
(* Properties.                                                             *)
(***************************************************************************)
Classes == {"UNKNOWN", "NORMAL", "ANOMALY"}
AnalyzerLabels == {"idle", "part", "count", "session", "ids", "add", "classify", "report"}

\* Every variable has its type, and RunPartially asks for no more rows than were counted.
TypeOK ==
    /\ class \in [Sessions -> Classes] /\ learning \in SUBSET Sessions
    /\ analyzer \in AnalyzerLabels /\ left \in 0..Cardinality(Sessions)
    /\ offset \in 0..(Cardinality(Sessions) - left)
    /\ rows \in SUBSET Sessions /\ count \in 0..Cardinality(Sessions) /\ current \in Sessions
    /\ learnLeft \in 0..count /\ ids \in SUBSET Sessions /\ (analyzer = "add" => ids # {})
    /\ table \subseteq [id : Sessions, class : Classes \ {"UNKNOWN"}]
    /\ reported \in [Sessions -> Nat]
    /\ web \in {"idle", "marks", "remove", "set", "clear", "iqr"}
    /\ chosen \in SUBSET Sessions /\ toMark \in SUBSET Sessions /\ commands \in 0..MaxCommands
    /\ heard \in SUBSET Sessions /\ steady \in BOOLEAN /\ overtaken \in SUBSET Sessions
    /\ byUser \in [Sessions -> {"none", "NORMAL", "ANOMALY"}]

\* The table holds the nearest of the classified sessions offered so far, as many of
\* them as fit, although sessions are offered again with every part of the learning set.
NearestKept ==
    /\ Cardinality(Known(table)) = Cardinality(table) /\ Known(table) \subseteq heard
    /\ Cardinality(table) = Smaller(Cardinality(heard), NumberOfNeighbours)
    /\ \A n \in table, s \in heard \ Known(table) :
          Distance(n.id, current) <= Distance(s, current)

\* No anomaly is reported twice, in one analysis or in two: what was found leaves the
\* unclassified sessions and no command puts it back.
ReportedOnce == \A s \in Sessions : reported[s] <= 1

\* An analysis classifies every session it counted, in however many parts they are
\* read, unless a command interfered or none of the learning sessions read has a mark.
AllClassified ==
    analyzer = "report" /\ steady
        /\ (\E s \in FirstRows(learning, MaxRows) : class[s] # "UNKNOWN")
    => Unclassified = {}

\* The classification a command gave a session stays: the analyzer overwrites it only
\* if it had read the session as unclassified before.  For the IQR method it is the one
\* the quartiles call for.
MarksHold ==
    \A s \in Sessions : byUser[s] # "none" => class[s] = byUser[s] \/ s \in overtaken

\* An analysis ends, also when sessions stay unclassified for want of a learning set and
\* while commands change it.
AnalysisEnds == analyzer # "idle" ~> analyzer = "idle"
=============================================================================
