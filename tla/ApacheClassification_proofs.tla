-------------------- MODULE ApacheClassification_proofs --------------------
(***************************************************************************)
(* Proofs about ApacheClassification, for any sessions, request counts,    *)
(* part size, number of neighbours and commands: the variables have their  *)
(* types, no anomaly is reported twice, the table keeps the nearest        *)
(* neighbours, the user's marks hold and every session is classified.      *)
(*                                                                         *)
(* Facts about all finite sets (a set of numbers has a least member, the   *)
(* first n rows are n, the quartiles are there) are proved from            *)
(* LeastNatural, by a least counterexample.                                *)
(***************************************************************************)
EXTENDS ApacheClassification, FiniteSetTheorems, WellFoundedInduction, TLAPS

-----------------------------------------------------------------------------
(* Numbers and finite sets.                                                *)

\* A set of numbers that has a member has a least one.
LEMMA LeastNatural ==
    ASSUME NEW S \in SUBSET Nat, S # {}
    PROVE  \E x \in S : \A y \in S : x <= y
<1> DEFINE Less == {ss \in Nat \X Nat : ss[1] < ss[2]}
<1>1. IsWellFoundedOn(Less, Nat)
  BY NatLessThanWellFounded DEF OpToRel
<1>2. \A x, y \in Nat : y < x => <<y, x>> \in Less
  OBVIOUS
<1> HIDE DEF Less
<1>3. PICK x \in S : \A y \in S : ~ (<<y, x>> \in Less)
  BY <1>1, WFMin
<1>4. \A y \in S : ~ (y < x)
  BY <1>2, <1>3
<1> QED BY <1>4

\* Lowest is the least member.
LEMMA LowestIsLeast ==
    ASSUME NEW S \in SUBSET Sessions, S # {}
    PROVE  Lowest(S) \in S /\ \A t \in S : Lowest(S) <= t
<1>1. S \in SUBSET Nat
  BY ClassificationAssumption
<1>2. \E s \in S : \A t \in S : s <= t
  BY <1>1, LeastNatural
<1> QED BY <1>2 DEF Lowest

\* Sets of sessions are finite.
LEMMA SessionsAreFinite ==
    ASSUME NEW S \in SUBSET Sessions
    PROVE  IsFiniteSet(S) /\ Cardinality(S) \in 0..Cardinality(Sessions)
<1>1. IsFiniteSet(S) /\ Cardinality(S) <= Cardinality(Sessions)
  BY ClassificationAssumption, FS_Subset
<1>2. Cardinality(S) \in Nat /\ Cardinality(Sessions) \in Nat
  BY <1>1, ClassificationAssumption, FS_CardinalityType
<1> QED BY <1>1, <1>2

\* Limit is a number up to its argument.
LEMMA LimitBounds ==
    ASSUME NEW n \in Nat
    PROVE  Limit(n) \in 0..n /\ (n > 0 => Limit(n) > 0) /\ Limit(n) <= MaxRows
BY ClassificationAssumption DEF Limit, Smaller

LEMMA DistanceIsNat ==
    ASSUME NEW a \in Sessions, NEW b \in Sessions
    PROVE  Distance(a, b) \in Nat
BY ClassificationAssumption DEF Distance

-----------------------------------------------------------------------------
(* The type invariant.  Besides the types it says where the analyzer has   *)
(* rows in its hands, and that learnLeft counts only inside the loop.      *)

AnalyzerShape ==
    /\ analyzer \notin {"ids", "add"} => learnLeft = 0
    /\ analyzer \in {"idle", "part", "report"} => rows = {}
    /\ analyzer \in {"ids", "add", "classify"} => current \in rows
    /\ analyzer = "report" => left = 0

TypeInv == TypeOK /\ AnalyzerShape

LEMMA TypeInit == Init => TypeInv
<1> SUFFICES ASSUME Init PROVE TypeInv
  OBVIOUS
<1>1. Cardinality(Sessions) \in Nat
  BY ClassificationAssumption, FS_CardinalityType
<1>2. MaxCommands \in Nat
  BY ClassificationAssumption
<1>3. /\ class \in [Sessions -> Classes] /\ reported \in [Sessions -> Nat]
      /\ byUser \in [Sessions -> {"none", "NORMAL", "ANOMALY"}]
  BY DEF Init, Classes
<1>4. /\ left \in 0..Cardinality(Sessions) /\ offset \in 0..(Cardinality(Sessions) - left)
      /\ count \in 0..Cardinality(Sessions) /\ learnLeft \in 0..count
      /\ commands \in 0..MaxCommands
  BY <1>1, <1>2 DEF Init
<1>5. /\ learning \in SUBSET Sessions /\ rows \in SUBSET Sessions /\ ids \in SUBSET Sessions
      /\ table \subseteq [id : Sessions, class : Classes \ {"UNKNOWN"}]
      /\ chosen \in SUBSET Sessions /\ toMark \in SUBSET Sessions /\ heard \in SUBSET Sessions
      /\ overtaken \in SUBSET Sessions
  BY DEF Init
<1> QED BY <1>3, <1>4, <1>5 DEF Init, TypeInv, TypeOK, AnalyzerShape, AnalyzerLabels

LEMMA TypeAnalyzer == TypeInv /\ AnalyzerNext => TypeInv'
<1> SUFFICES ASSUME TypeInv, AnalyzerNext PROVE TypeInv'
  OBVIOUS
<1> DEFINE N == Cardinality(Sessions)
<1>0. /\ N \in Nat /\ Unclassified \in SUBSET Sessions
      /\ Cardinality(Unclassified) \in 0..N /\ Cardinality(learning) \in 0..N
      /\ left \in 0..N /\ offset \in 0..(N - left) /\ count \in 0..N /\ learnLeft \in 0..count
  BY SessionsAreFinite, ClassificationAssumption, FS_CardinalityType
     DEF TypeInv, TypeOK, Unclassified
<1> HIDE DEF N
<1>a. /\ learning \in SUBSET Sessions /\ rows \in SUBSET Sessions /\ ids \in SUBSET Sessions
      /\ current \in Sessions /\ heard \in SUBSET Sessions
      /\ class \in [Sessions -> Classes]
      /\ table \subseteq [id : Sessions, class : Classes \ {"UNKNOWN"}]
  BY DEF TypeInv, TypeOK
<1>b. AnalyzerStep /\ TypeOK
       => /\ learning' \in SUBSET Sessions
          /\ web' \in {"idle", "marks", "remove", "set", "clear", "iqr"}
          /\ chosen' \in SUBSET Sessions /\ toMark' \in SUBSET Sessions
          /\ commands' \in 0..MaxCommands
          /\ overtaken' \in SUBSET Sessions
          /\ byUser' \in [Sessions -> {"none", "NORMAL", "ANOMALY"}]
  BY DEF TypeOK, AnalyzerStep, webVars
<1>1. CASE CountSessions
  BY <1>0, <1>b, <1>1 DEF CountSessions, TypeInv, TypeOK, AnalyzerShape, N, AnalyzerLabels
<1>2. CASE ReadPart
  <2>1. Limit(left) \in 0..left
    BY <1>0, LimitBounds
  <2>2. left' \in 0..N /\ offset' \in 0..(N - left')
    BY <1>0, <1>2, <2>1 DEF ReadPart, Part
  <2>3. rows' \in SUBSET Sessions
    BY <1>0, <1>2 DEF ReadPart, Part, FirstRows
  <2> QED BY <1>b, <1>2, <2>2, <2>3 DEF ReadPart, Part, TypeInv, TypeOK, AnalyzerShape, N, AnalyzerLabels
<1>3. CASE CountLearning
  BY <1>0, <1>b, <1>3 DEF CountLearning, TypeInv, TypeOK, AnalyzerShape, N, AnalyzerLabels
<1>4. CASE SetSession
  <2>1. current' \in rows
    BY <1>a, <1>4, LowestIsLeast DEF SetSession
  <2> QED BY <1>0, <1>a, <1>b, <1>4, <2>1 DEF SetSession, TypeInv, TypeOK, AnalyzerShape, N, AnalyzerLabels
<1>5. CASE EndOfPart
  BY <1>0, <1>b, <1>5 DEF EndOfPart, TypeInv, TypeOK, AnalyzerShape, N, AnalyzerLabels
<1>6. CASE ReadLearningIds
  <2>1. ids' \in SUBSET Sessions
    BY <1>a, <1>6 DEF ReadLearningIds, FirstRows
  <2>2. learnLeft' \in 0..count
    BY <1>0, <1>6, LimitBounds DEF ReadLearningIds
  <2>3. /\ analyzer' \in AnalyzerLabels \ {"idle", "part", "report"}
        /\ (analyzer' = "add" => ids' # {})
        /\ (analyzer' \notin {"ids", "add"} => learnLeft' = 0)
    BY <1>0, <1>6, <2>2 DEF ReadLearningIds, AfterNeighbours, AnalyzerLabels
  <2> QED BY <1>b, <1>6, <2>1, <2>2, <2>3 DEF ReadLearningIds, TypeInv, TypeOK, AnalyzerShape
<1>7. CASE AddNeighbour
  <2>1. Lowest(ids) \in ids
    BY <1>a, <1>7, LowestIsLeast DEF AddNeighbour, TypeInv, TypeOK
  <2>2. table' \subseteq [id : Sessions, class : Classes \ {"UNKNOWN"}]
    <3>1. CASE class[Lowest(ids)] = "UNKNOWN" \/ Lowest(ids) \in Known(table)
      BY <1>a, <1>7, <3>1 DEF AddNeighbour
    <3>2. CASE ~ (class[Lowest(ids)] = "UNKNOWN" \/ Lowest(ids) \in Known(table))
      <4>1. [id |-> Lowest(ids), class |-> class[Lowest(ids)]]
              \in [id : Sessions, class : Classes \ {"UNKNOWN"}]
        BY <1>a, <2>1, <3>2
      <4>2. table' \subseteq table \cup {[id |-> Lowest(ids), class |-> class[Lowest(ids)]]}
        BY <1>7, <3>2 DEF AddNeighbour, WithNeighbour
      <4> QED BY <1>a, <4>1, <4>2
    <3> QED BY <3>1, <3>2
  <2>3. heard' \in SUBSET Sessions /\ ids' \in SUBSET Sessions
    BY <1>a, <1>7, <2>1 DEF AddNeighbour
  <2>4. /\ analyzer' \in AnalyzerLabels \ {"idle", "part", "report"}
        /\ (analyzer' = "add" => ids' # {})
        /\ (analyzer' \notin {"ids", "add"} => learnLeft' = 0)
    BY <1>0, <1>7 DEF AddNeighbour, AfterNeighbours, AnalyzerLabels
  <2>5. /\ analyzer = "add"
        /\ UNCHANGED <<class, left, offset, rows, count, current, learnLeft, reported, steady>>
        /\ AnalyzerStep
    BY <1>7 DEF AddNeighbour
  <2>6. AnalyzerShape'
    BY <2>4, <2>5 DEF TypeInv, AnalyzerShape
  <2>7. TypeOK'
    BY <1>b, <2>2, <2>3, <2>4, <2>5 DEF TypeInv, TypeOK
  <2> QED BY <2>6, <2>7 DEF TypeInv
<1>8. CASE Classify
  <2>1. Majority \in Classes
    BY DEF Majority, Classes
  <2>2. class' \in [Sessions -> Classes]
    BY <1>a, <1>8, <2>1 DEF Classify
  <2>3. reported' \in [Sessions -> Nat]
    BY <1>8 DEF Classify, TypeInv, TypeOK
  <2> QED BY <1>b, <1>8, <2>2, <2>3 DEF Classify, TypeInv, TypeOK, AnalyzerShape, AnalyzerLabels
<1>9. CASE Report
  <2>1. current' \in Sessions
    BY <1>a, <1>9, LowestIsLeast DEF Report
  <2>2. left' \in 0..N /\ offset' \in 0..(N - left') /\ count' \in 0..N /\ learnLeft' \in 0..count'
    BY <1>0, <1>9 DEF Report, TypeInv, AnalyzerShape
  <2> QED BY <1>b, <1>9, <2>1, <2>2 DEF Report, TypeInv, TypeOK, AnalyzerShape, N, AnalyzerLabels
<1> QED BY <1>1, <1>2, <1>3, <1>4, <1>5, <1>6, <1>7, <1>8, <1>9 DEF AnalyzerNext

LEMMA TypeWeb == TypeInv /\ WebNext => TypeInv'
<1> SUFFICES ASSUME TypeInv, WebNext PROVE TypeInv'
  OBVIOUS
<1>0. /\ learning \in SUBSET Sessions /\ chosen \in SUBSET Sessions /\ toMark \in SUBSET Sessions
      /\ rows \in SUBSET Sessions /\ overtaken \in SUBSET Sessions
      /\ class \in [Sessions -> Classes]
      /\ byUser \in [Sessions -> {"none", "NORMAL", "ANOMALY"}]
      /\ commands \in 0..MaxCommands /\ steady \in BOOLEAN
  BY DEF TypeInv, TypeOK
<1>a. ASSUME WebStep,
             learning' \in SUBSET Sessions, chosen' \in SUBSET Sessions,
             toMark' \in SUBSET Sessions, overtaken' \in SUBSET Sessions,
             class' \in [Sessions -> Classes],
             byUser' \in [Sessions -> {"none", "NORMAL", "ANOMALY"}],
             commands' \in 0..MaxCommands, steady' \in BOOLEAN,
             web' \in {"idle", "marks", "remove", "set", "clear", "iqr"}
      PROVE  TypeInv'
  BY <1>a DEF TypeInv, TypeOK, AnalyzerShape, WebStep, analyzerVars
<1>b. ASSUME NEW next \in {"marks", "remove", "clear"}, NEW S \in SUBSET Sessions, Command(next, S)
      PROVE  TypeInv'
  <2>1. MaxCommands \in Nat
    BY ClassificationAssumption
  <2>2. commands' \in 0..MaxCommands
    BY <1>0, <1>b, <2>1 DEF Command
  <2> QED BY <1>0, <1>a, <1>b, <2>2 DEF Command, histVars
<1>1. ASSUME NEW S \in Selections,
             SetApacheSessionsAsAnomaly(S) \/ SetApacheAnomalyDetectionConfiguration(S)
      PROVE  TypeInv'
  BY <1>b, <1>1, ClassificationAssumption
     DEF SetApacheSessionsAsAnomaly, SetApacheAnomalyDetectionConfiguration
<1>2. CASE RemoveConfiguration
  BY <1>b, <1>2 DEF RemoveConfiguration
<1>3. CASE MarkLearningSetWithIqrMethod
  BY <1>0, <1>b, <1>3 DEF MarkLearningSetWithIqrMethod
<1>4. ASSUME NEW S \in SUBSET chosen, SetApacheSessionAsAnomaly(S)
      PROVE  TypeInv'
  <2>1. class' \in [Sessions -> Classes] /\ byUser' \in [Sessions -> {"none", "NORMAL", "ANOMALY"}]
    BY <1>0, <1>4 DEF SetApacheSessionAsAnomaly, Given, Classes
  <2> QED BY <1>0, <1>a, <1>4, <2>1 DEF SetApacheSessionAsAnomaly
<1>5. CASE RemoveAllLearningSessions
  BY <1>0, <1>a, <1>5 DEF RemoveAllLearningSessions
<1>6. CASE SetLearningSessions
  BY <1>0, <1>a, <1>6 DEF SetLearningSessions
<1>7. CASE ClearAnomalyMarksInLearningSet
  <2>1. class' \in [Sessions -> Classes] /\ byUser' \in [Sessions -> {"none", "NORMAL", "ANOMALY"}]
    BY <1>0, <1>7 DEF ClearAnomalyMarksInLearningSet, Classes
  <2>2. toMark' \in SUBSET Sessions
    BY <1>0, <1>7 DEF ClearAnomalyMarksInLearningSet, AboveThird
  <2> QED BY <1>0, <1>a, <1>7, <2>1, <2>2 DEF ClearAnomalyMarksInLearningSet
<1>8. CASE MarkAnomaly
  <2>1. class' \in [Sessions -> Classes]
    BY <1>0, <1>8 DEF MarkAnomaly, Classes
  <2> QED BY <1>0, <1>a, <1>8, <2>1 DEF MarkAnomaly
<1>9. CASE EndOfIqr
  <2>1. byUser' \in [Sessions -> {"none", "NORMAL", "ANOMALY"}]
    BY <1>0, <1>9 DEF EndOfIqr, Given
  <2> QED BY <1>0, <1>a, <1>9, <2>1 DEF EndOfIqr
<1> QED BY <1>1, <1>2, <1>3, <1>4, <1>5, <1>6, <1>7, <1>8, <1>9 DEF WebNext

\* The web thread leaves the analyzer's variables alone.
LEMMA WebSteps == WebNext => UNCHANGED <<analyzerVars, reported>>
<1> SUFFICES ASSUME WebNext PROVE WebStep
  BY DEF WebStep
<1>1. ASSUME NEW next, NEW S, Command(next, S) PROVE WebStep
  BY <1>1 DEF Command
<1>2. ASSUME NEW S, SetApacheSessionAsAnomaly(S) PROVE WebStep
  BY <1>2 DEF SetApacheSessionAsAnomaly, Given
<1>3. CASE EndOfIqr
  BY <1>3 DEF EndOfIqr, Given
<1>4. CASE RemoveAllLearningSessions \/ SetLearningSessions \/ ClearAnomalyMarksInLearningSet
           \/ MarkAnomaly
  BY <1>4 DEF RemoveAllLearningSessions, SetLearningSessions, ClearAnomalyMarksInLearningSet, MarkAnomaly
<1> QED
  BY <1>1, <1>2, <1>3, <1>4
     DEF WebNext, SetApacheSessionsAsAnomaly, SetApacheAnomalyDetectionConfiguration,
         RemoveConfiguration, MarkLearningSetWithIqrMethod

\* A command leaves no session unclassified that was classified.
LEMMA WebMarks ==
    ASSUME TypeInv, WebNext, NEW x \in Sessions, class[x] # "UNKNOWN"
    PROVE  class'[x] # "UNKNOWN"
<1>0. class \in [Sessions -> Classes]
  BY DEF TypeInv, TypeOK
<1>1. ASSUME NEW next, NEW S, Command(next, S) PROVE class' = class
  BY <1>1 DEF Command
<1>2. ASSUME NEW S, SetApacheSessionAsAnomaly(S) PROVE class'[x] # "UNKNOWN"
  <2>1. class' = [s \in Sessions |-> IF s \in chosen
                                     THEN IF s \in S THEN "ANOMALY" ELSE "NORMAL" ELSE class[s]]
    BY <1>2 DEF SetApacheSessionAsAnomaly, Given
  <2> QED BY <2>1
<1>3. CASE EndOfIqr
  BY <1>3 DEF EndOfIqr, Given
<1>4. CASE RemoveAllLearningSessions \/ SetLearningSessions
  BY <1>4 DEF RemoveAllLearningSessions, SetLearningSessions
<1>5. CASE ClearAnomalyMarksInLearningSet \/ MarkAnomaly
  BY <1>0, <1>5 DEF ClearAnomalyMarksInLearningSet, MarkAnomaly
<1> QED
  BY <1>1, <1>2, <1>3, <1>4, <1>5
     DEF WebNext, SetApacheSessionsAsAnomaly, SetApacheAnomalyDetectionConfiguration,
         RemoveConfiguration, MarkLearningSetWithIqrMethod

LEMMA TypeStep == TypeInv /\ [Next]_vars => TypeInv'
<1>1. TypeInv /\ UNCHANGED vars => TypeInv'
  BY DEF vars, analyzerVars, webVars, histVars, TypeInv, TypeOK, AnalyzerShape
<1> QED BY <1>1, TypeAnalyzer, TypeWeb DEF Next

-----------------------------------------------------------------------------
(* Reports.  A session in the analyzer's hands was not reported, and one   *)
(* that was reported is classified for good.                               *)

ReportInv ==
    /\ \A s \in rows : reported[s] = 0
    /\ \A s \in Sessions : reported[s] # 0 => reported[s] = 1 /\ class[s] # "UNKNOWN"

LEMMA ReportStep == TypeInv /\ ReportInv /\ [Next]_vars => ReportInv'
<1> SUFFICES ASSUME TypeInv, ReportInv, [Next]_vars PROVE ReportInv'
  OBVIOUS
<1>0. /\ rows \in SUBSET Sessions /\ class \in [Sessions -> Classes]
      /\ reported \in [Sessions -> Nat] /\ learning \in SUBSET Sessions
      /\ toMark \in SUBSET Sessions /\ chosen \in SUBSET Sessions
  BY DEF TypeInv, TypeOK
<1>1. CASE ReadPart
  BY <1>0, <1>1 DEF ReadPart, Part, FirstRows, Unclassified, ReportInv
<1>2. CASE Classify
  <2>1. current \in rows /\ reported[current] = 0
    BY <1>2 DEF Classify, TypeInv, AnalyzerShape, ReportInv
  <2>2. \A s \in rows' : reported'[s] = 0
    BY <1>0, <1>2, <2>1 DEF Classify, ReportInv
  <2>3. reported'[current] # 0 => reported'[current] = 1 /\ class'[current] # "UNKNOWN"
    BY <1>0, <1>2, <2>1 DEF Classify
  <2>4. \A s \in Sessions \ {current} : reported'[s] = reported[s] /\ class'[s] = class[s]
    BY <1>0, <1>2 DEF Classify
  <2> QED BY <2>2, <2>3, <2>4 DEF ReportInv
<1>3. CASE CountSessions \/ CountLearning \/ SetSession \/ EndOfPart \/ ReadLearningIds
           \/ AddNeighbour \/ Report
  BY <1>3 DEF CountSessions, CountLearning, SetSession, EndOfPart, ReadLearningIds, AddNeighbour,
              Report, ReportInv
<1>4. CASE WebNext
  <2>1. rows' = rows /\ reported' = reported
    BY <1>4, WebSteps DEF analyzerVars
  <2>2. \A s \in Sessions : class[s] # "UNKNOWN" => class'[s] # "UNKNOWN"
    BY <1>0, <1>4, WebMarks
  <2> QED BY <1>0, <2>1, <2>2 DEF ReportInv
<1>5. CASE UNCHANGED vars
  BY <1>5 DEF vars, analyzerVars, ReportInv
<1> QED BY <1>1, <1>2, <1>3, <1>4, <1>5 DEF Next, AnalyzerNext

-----------------------------------------------------------------------------
(* The table of neighbours.  No session is in it twice, so that erasing    *)
(* one makes room for one.                                                 *)

NearestInv ==
    /\ NearestKept
    /\ IsFiniteSet(table)
    /\ \A n, m \in table : n.id = m.id => n = m

\* Adding a member and removing another one keeps the number.
LEMMA AddOne ==
    ASSUME NEW S, IsFiniteSet(S), NEW x, x \notin S
    PROVE  /\ IsFiniteSet(S \cup {x}) /\ Cardinality(S \cup {x}) = Cardinality(S) + 1
           /\ Cardinality(S) \in Nat
           /\ \A y \in S \cup {x} : /\ IsFiniteSet((S \cup {x}) \ {y})
                                   /\ Cardinality((S \cup {x}) \ {y}) = Cardinality(S)
<1>1. IsFiniteSet(S \cup {x}) /\ Cardinality(S \cup {x}) = Cardinality(S) + 1
  BY FS_AddElement
<1>2. Cardinality(S) \in Nat
  BY FS_CardinalityType
<1>3. ASSUME NEW y \in S \cup {x}
      PROVE  /\ IsFiniteSet((S \cup {x}) \ {y})
             /\ Cardinality((S \cup {x}) \ {y}) = Cardinality(S)
  <2>1. /\ IsFiniteSet((S \cup {x}) \ {y})
        /\ Cardinality((S \cup {x}) \ {y}) = Cardinality(S \cup {x}) - 1
    BY <1>1, FS_RemoveElement
  <2> QED BY <1>1, <1>2, <2>1
<1> QED BY <1>1, <1>2, <1>3

\* A session of the learning set that is not in the table comes into it.
LEMMA NearestAfterAdd ==
    ASSUME TypeInv, NearestInv, AddNeighbour,
           class[Lowest(ids)] # "UNKNOWN", Lowest(ids) \notin Known(table)
    PROVE  NearestInv'
<1> DEFINE s == Lowest(ids)
           r == [id |-> s, class |-> class[s]]
           added == table \cup {r}
<1>1. /\ s \in Sessions /\ heard \in SUBSET Sessions /\ current \in Sessions
      /\ Known(table) \in SUBSET Sessions
  BY LowestIsLeast DEF AddNeighbour, TypeInv, TypeOK, Known
<1>2. heard' = heard \cup {s} /\ current' = current
  BY DEF AddNeighbour
<1>3. /\ IsFiniteSet(table) /\ IsFiniteSet(Known(table)) /\ IsFiniteSet(heard)
      /\ Cardinality(heard) \in Nat /\ Cardinality(table) \in Nat
  BY <1>1, SessionsAreFinite, FS_CardinalityType DEF NearestInv
<1>4. /\ r \notin table /\ r.id = s /\ Known(added) = Known(table) \cup {s}
      /\ \A n, m \in added : n.id = m.id => n = m
  BY DEF Known, NearestInv
<1> HIDE DEF r
<1>5. /\ IsFiniteSet(added) /\ Cardinality(added) = Cardinality(table) + 1
      /\ \A y \in added : IsFiniteSet(added \ {y}) /\ Cardinality(added \ {y}) = Cardinality(table)
  <2>1. IsFiniteSet(table \cup {r}) /\ Cardinality(table \cup {r}) = Cardinality(table) + 1
    BY <1>3, <1>4, AddOne
  <2>2. ASSUME NEW y \in table \cup {r}
        PROVE  /\ IsFiniteSet((table \cup {r}) \ {y})
               /\ Cardinality((table \cup {r}) \ {y}) = Cardinality(table)
    BY <1>3, <1>4, <2>2, AddOne, Zenon
  <2> QED BY <2>1, <2>2
<1>6. /\ Cardinality(Known(added)) = Cardinality(Known(table)) + 1
      /\ \A y \in Known(added) : Cardinality(Known(added) \ {y}) = Cardinality(Known(table))
  <2>1. s \notin Known(table) /\ IsFiniteSet(Known(table))
    BY <1>3
  <2>2. Cardinality(Known(table) \cup {s}) = Cardinality(Known(table)) + 1
    BY <2>1, AddOne
  <2>3. ASSUME NEW y \in Known(table) \cup {s}
        PROVE  Cardinality((Known(table) \cup {s}) \ {y}) = Cardinality(Known(table))
    BY <2>1, <2>3, AddOne, Zenon
  <2> QED BY <1>4, <2>2, <2>3
<1>7. PICK last \in Known(added) : WithNeighbour(s, last)
  BY <1>4 DEF AddNeighbour
<1>w. \/ Cardinality(added) <= NumberOfNeighbours /\ table' = added
      \/ /\ ~ (Cardinality(added) <= NumberOfNeighbours)
         /\ \A n \in added : Distance(n.id, current) <= Distance(last, current)
         /\ table' = {n \in added : n.id # last}
  BY <1>7 DEF WithNeighbour, r
<1>8. NumberOfNeighbours \in Nat
  BY ClassificationAssumption
<1>h. /\ Cardinality(Known(table)) = Cardinality(table) /\ Known(table) \subseteq heard
      /\ Cardinality(table) = Smaller(Cardinality(heard), NumberOfNeighbours)
      /\ \A n \in table, h \in heard \ Known(table) : Distance(n.id, current) <= Distance(h, current)
  BY DEF NearestInv, NearestKept
<1>9. CASE Cardinality(added) <= NumberOfNeighbours
  <2>1. table' = added
    BY <1>w, <1>9
  <2>2. Cardinality(heard) = Cardinality(table)
    BY <1>3, <1>5, <1>8, <1>9, <1>h DEF Smaller
  <2>3. heard = Known(table)
    BY <1>3, <1>h, <2>2, FS_Subset
  <2>4. Cardinality(heard \cup {s}) = Cardinality(heard) + 1
    BY <1>3, <2>3, AddOne
  <2>5. Cardinality(table') = Smaller(Cardinality(heard'), NumberOfNeighbours)
    BY <1>2, <1>3, <1>5, <1>8, <1>9, <2>1, <2>2, <2>4 DEF Smaller
  <2>6. Known(table') = Known(table) \cup {s} /\ heard' = Known(table')
    BY <1>2, <1>4, <2>1, <2>3 DEF Known
  <2>7. Cardinality(Known(table')) = Cardinality(table')
    BY <1>4, <1>5, <1>6, <1>h, <2>1
  <2> QED BY <1>4, <1>5, <2>1, <2>5, <2>6, <2>7 DEF NearestInv, NearestKept, Known
<1>10. CASE ~ (Cardinality(added) <= NumberOfNeighbours)
  <2>1. /\ \A n \in added : Distance(n.id, current) <= Distance(last, current)
        /\ table' = {n \in added : n.id # last}
    BY <1>w, <1>10
  <2>2. PICK y \in added : y.id = last
    BY <1>7 DEF Known
  <2>3. table' = added \ {y}
    BY <1>4, <2>1, <2>2
  <2>4. Known(table') = Known(added) \ {last}
    BY <2>1 DEF Known
  <2>5. /\ Cardinality(table) = NumberOfNeighbours
        /\ NumberOfNeighbours <= Cardinality(heard)
    BY <1>3, <1>5, <1>8, <1>10, <1>h DEF Smaller
  <2>6. Cardinality(heard) <= Cardinality(heard \cup {s}) /\ Cardinality(heard \cup {s}) \in Nat
    <3>1. IsFiniteSet(heard \cup {s}) /\ heard \subseteq heard \cup {s}
      BY <1>1, <1>3, FS_AddElement
    <3> QED BY <3>1, FS_Subset, FS_CardinalityType
  <2>7. Cardinality(table') = Smaller(Cardinality(heard'), NumberOfNeighbours)
    BY <1>2, <1>3, <1>5, <1>8, <2>2, <2>3, <2>5, <2>6 DEF Smaller
  <2>8. Cardinality(Known(table')) = Cardinality(table')
    BY <1>5, <1>6, <1>7, <1>h, <2>2, <2>3, <2>4
  <2>9. Known(table') \subseteq heard'
    BY <1>2, <1>4, <1>h, <2>4
  <2>10. ASSUME NEW n \in table', NEW h \in heard' \ Known(table')
         PROVE  Distance(n.id, current) <= Distance(h, current)
    <3>1. n \in added /\ n.id # last /\ n.id \in Sessions /\ last \in Sessions /\ h \in Sessions
      BY <1>1, <1>2, <1>4, <1>7, <2>1 DEF Known
    <3>2. Distance(n.id, current) \in Nat /\ Distance(last, current) \in Nat /\ Distance(h, current) \in Nat
      BY <1>1, <3>1, DistanceIsNat
    <3>3. Distance(n.id, current) <= Distance(last, current)
      BY <2>1, <3>1
    <3>4. CASE h = last
      BY <3>3, <3>4
    <3>5. CASE h # last
      <4>1. h \in heard \ Known(table)
        BY <1>2, <1>4, <2>4, <3>5
      <4>2. CASE n \in table
        BY <1>h, <4>1, <4>2
      <4>3. CASE n = r
        <5>1. PICK l \in table : l.id = last
          BY <1>4, <1>7, <3>1, <4>3 DEF Known
        <5>2. Distance(last, current) <= Distance(h, current)
          BY <1>h, <4>1, <5>1
        <5> QED BY <3>2, <3>3, <5>2
      <4> QED BY <3>1, <4>2, <4>3
    <3> QED BY <3>4, <3>5
  <2>11. IsFiniteSet(table') /\ \A n, m \in table' : n.id = m.id => n = m
    BY <1>4, <1>5, <2>2, <2>3
  <2> QED BY <1>2, <2>7, <2>8, <2>9, <2>10, <2>11 DEF NearestInv, NearestKept, Known, Distance
<1> QED BY <1>9, <1>10

\* The empty table of a new session.
LEMMA NearestEmpty ==
    ASSUME table' = {}, heard' = {}
    PROVE  NearestInv'
<1>1. Known(table') = {}
  BY DEF Known
<1>2. Cardinality({}) = 0 /\ IsFiniteSet({})
  BY FS_EmptySet
<1>3. Smaller(0, NumberOfNeighbours) = 0
  BY ClassificationAssumption DEF Smaller
<1> QED BY <1>1, <1>2, <1>3 DEF NearestInv, NearestKept, Known

LEMMA NearestInit == Init => NearestInv
<1> SUFFICES ASSUME Init PROVE NearestInv
  OBVIOUS
<1>1. table = {} /\ heard = {} /\ Known(table) = {}
  BY DEF Init, Known
<1>2. Cardinality({}) = 0 /\ IsFiniteSet({})
  BY FS_EmptySet
<1>3. Smaller(0, NumberOfNeighbours) = 0
  BY ClassificationAssumption DEF Smaller
<1> QED BY <1>1, <1>2, <1>3 DEF NearestInv, NearestKept

LEMMA NearestStep == TypeInv /\ NearestInv /\ [Next]_vars => NearestInv'
<1> SUFFICES ASSUME TypeInv, NearestInv, [Next]_vars PROVE NearestInv'
  OBVIOUS
<1>a. ASSUME table' = table, heard' = heard, current' = current
      PROVE  NearestInv'
  BY <1>a DEF NearestInv, NearestKept, Known, Distance
<1>1. CASE SetSession
  BY <1>1, NearestEmpty DEF SetSession
<1>2. CASE Report
  BY <1>2, NearestEmpty DEF Report
<1>3. CASE AddNeighbour
  <2>1. CASE class[Lowest(ids)] = "UNKNOWN" \/ Lowest(ids) \in Known(table)
    <3>1. table' = table /\ heard' = heard /\ current' = current
      BY <1>3, <2>1 DEF AddNeighbour, NearestInv, NearestKept
    <3> QED BY <1>a, <3>1
  <2>2. CASE ~ (class[Lowest(ids)] = "UNKNOWN" \/ Lowest(ids) \in Known(table))
    BY <1>3, <2>2, NearestAfterAdd
  <2> QED BY <2>1, <2>2
<1>4. CASE CountSessions \/ ReadPart \/ CountLearning \/ EndOfPart \/ ReadLearningIds \/ Classify
  BY <1>a, <1>4 DEF CountSessions, ReadPart, Part, CountLearning, EndOfPart, ReadLearningIds, Classify
<1>5. CASE WebNext
  BY <1>a, <1>5, WebSteps DEF analyzerVars
<1>6. CASE UNCHANGED vars
  BY <1>a, <1>6 DEF vars, analyzerVars
<1> QED BY <1>1, <1>2, <1>3, <1>4, <1>5, <1>6 DEF Next, AnalyzerNext

-----------------------------------------------------------------------------
(* The quartiles.                                                          *)

\* Of finitely many sessions one has the most requests.
LEMMA GreatestIn ==
    ASSUME NEW S \in SUBSET Sessions, S # {}
    PROVE  \E g \in S : \A t \in S : Requests[t] <= Requests[g]
<1> DEFINE UpTo(s) == {t \in S : Requests[t] <= Requests[s]}
           D == {Cardinality(S) - Cardinality(UpTo(s)) : s \in S}
<1>1. IsFiniteSet(S) /\ Cardinality(S) \in Nat
  BY SessionsAreFinite
<1>2. \A s \in S : IsFiniteSet(UpTo(s)) /\ Cardinality(UpTo(s)) \in Nat
                     /\ Cardinality(UpTo(s)) <= Cardinality(S)
  <2> SUFFICES ASSUME NEW s \in S
               PROVE  IsFiniteSet(UpTo(s)) /\ Cardinality(UpTo(s)) \in Nat
                      /\ Cardinality(UpTo(s)) <= Cardinality(S)
    OBVIOUS
  <2>1. UpTo(s) \subseteq S
    OBVIOUS
  <2> HIDE DEF UpTo
  <2> QED BY <1>1, <2>1, FS_Subset, FS_CardinalityType
<1>3. D \in SUBSET Nat /\ D # {}
  <2> HIDE DEF UpTo
  <2>1. \A s \in S : Cardinality(S) - Cardinality(UpTo(s)) \in Nat
    BY <1>1, <1>2
  <2> QED BY <2>1
<1>4. PICK d \in D : \A e \in D : d <= e
  BY <1>3, LeastNatural
<1>5. PICK g \in S : d = Cardinality(S) - Cardinality(UpTo(g))
  BY <1>4
<1>6. ASSUME NEW t \in S, ~ (Requests[t] <= Requests[g]) PROVE FALSE
  <2>1. Requests[t] \in Nat /\ Requests[g] \in Nat /\ \A u \in S : Requests[u] \in Nat
    BY ClassificationAssumption
  <2>2. UpTo(g) \subseteq UpTo(t) /\ t \in UpTo(t) /\ t \notin UpTo(g)
    BY <1>6, <2>1
  <2>3. Cardinality(UpTo(g)) # Cardinality(UpTo(t)) /\ Cardinality(UpTo(g)) <= Cardinality(UpTo(t))
    <3>1. IsFiniteSet(UpTo(t)) /\ UpTo(g) # UpTo(t)
      BY <1>2, <2>2
    <3> HIDE DEF UpTo
    <3> QED BY <2>2, <3>1, FS_Subset
  <2>4. Cardinality(S) - Cardinality(UpTo(t)) \in D
    OBVIOUS
  <2>5. Cardinality(S) - Cardinality(UpTo(g)) <= Cardinality(S) - Cardinality(UpTo(t))
    BY <1>4, <1>5, <2>4
  <2> HIDE DEF UpTo
  <2> QED BY <1>1, <1>2, <2>3, <2>5
<1> QED BY <1>6

\* The n-th smallest count is there.
LEMMA NthIsThere ==
    ASSUME NEW S \in SUBSET Sessions, S # {}, NEW n \in 1..Cardinality(S)
    PROVE  /\ Nth(S, n) \in {Requests[s] : s \in S}
           /\ Cardinality({s \in S : Requests[s] < Nth(S, n)}) < n
           /\ Cardinality({s \in S : Requests[s] <= Nth(S, n)}) >= n
<1> DEFINE UpTo(v) == {s \in S : Requests[s] <= v}
           Under(v) == {s \in S : Requests[s] < v}
           V == {v \in {Requests[s] : s \in S} : Cardinality(UpTo(v)) >= n}
<1>1. \A s \in S : Requests[s] \in Nat
  BY ClassificationAssumption
<1>2. PICK g \in S : \A t \in S : Requests[t] <= Requests[g]
  BY GreatestIn
<1>3. UpTo(Requests[g]) = S
  BY <1>2
<1>4. Cardinality(S) \in Nat
  BY SessionsAreFinite
<1>5. V \in SUBSET Nat /\ V # {}
  <2>1. Cardinality(UpTo(Requests[g])) >= n
    BY <1>3, <1>4
  <2> HIDE DEF UpTo
  <2> QED BY <1>1, <2>1
<1>6. PICK v \in V : \A w \in V : v <= w
  BY <1>5, LeastNatural
<1>7. Cardinality(Under(v)) < n
  <2>1. CASE Under(v) = {}
    BY <2>1, FS_EmptySet
  <2>2. CASE Under(v) # {}
    <3>1. PICK h \in Under(v) : \A t \in Under(v) : Requests[t] <= Requests[h]
      BY <2>2, GreatestIn
    <3>2. Under(v) = UpTo(Requests[h])
      BY <1>1, <1>5, <1>6, <3>1
    <3>3. Requests[h] \notin V
      BY <1>1, <1>5, <1>6, <3>1
    <3>4. Cardinality(UpTo(Requests[h])) \in Nat
      <4>1. UpTo(Requests[h]) \in SUBSET Sessions
        OBVIOUS
      <4> HIDE DEF UpTo
      <4> QED BY <4>1, SessionsAreFinite
    <3>5. ~ (Cardinality(UpTo(Requests[h])) >= n)
      BY <3>3
    <3>6. Cardinality(UpTo(Requests[h])) < n
      <4> HIDE DEF UpTo
      <4> QED BY <3>4, <3>5
    <3> QED BY <3>2, <3>6
  <2> QED BY <2>1, <2>2
<1>8. /\ v \in {Requests[s] : s \in S} /\ Cardinality({s \in S : Requests[s] < v}) < n
      /\ Cardinality({s \in S : Requests[s] <= v}) >= n
  BY <1>6, <1>7
<1> HIDE DEF UpTo, Under, V
<1> QED BY <1>8 DEF Nth

\* The place in the sorted vector is that of the quartile.
LEMMA NthIsQuartile ==
    ASSUME NEW S \in SUBSET Sessions, S # {}, NEW q \in {1, 3}
    PROVE  LET v == Nth(S, CeilQuarters(q, Cardinality(S)))
           IN  v \in {Requests[s] : s \in S} /\ IsQuartile(v, S, q)
<1> DEFINE c == CeilQuarters(q, Cardinality(S))
           v == Nth(S, c)
           a == Cardinality({s \in S : Requests[s] <= v})
           b == Cardinality({s \in S : Requests[s] < v})
<1>1. Cardinality(S) \in Nat /\ Cardinality(S) # 0
  BY SessionsAreFinite, FS_EmptySet
<1>2. /\ c \in 1..Cardinality(S)
      /\ 4 * c >= q * Cardinality(S) /\ 4 * (c - 1) < q * Cardinality(S)
  BY <1>1 DEF CeilQuarters
<1>3. v \in {Requests[s] : s \in S} /\ b < c /\ a >= c
  <2> HIDE DEF c
  <2> QED BY <1>2, NthIsThere
<1>4. a \in Nat /\ b \in Nat
  <2>1. {s \in S : Requests[s] <= v} \in SUBSET Sessions /\ {s \in S : Requests[s] < v} \in SUBSET Sessions
    OBVIOUS
  <2> HIDE DEF v
  <2> QED BY <2>1, SessionsAreFinite
<1>5. 4 * a >= q * Cardinality(S) /\ 4 * b < q * Cardinality(S)
  <2> HIDE DEF a, b, c
  <2> QED BY <1>1, <1>2, <1>3, <1>4
<1> QED BY <1>3, <1>5 DEF IsQuartile

\* There is one such number.
LEMMA OneQuartile ==
    ASSUME NEW S \in SUBSET Sessions, NEW q \in {1, 3}, NEW v \in Nat, NEW w \in Nat,
           IsQuartile(v, S, q), IsQuartile(w, S, q)
    PROVE  v = w
<1>1. ASSUME NEW x \in Nat, NEW y \in Nat, x < y, IsQuartile(x, S, q), IsQuartile(y, S, q)
      PROVE  FALSE
  <2> DEFINE A == {s \in S : Requests[s] <= x}
             B == {s \in S : Requests[s] < y}
  <2>0. \A s \in S : Requests[s] \in Nat
    BY ClassificationAssumption
  <2>1. A \subseteq B
    BY <1>1, <2>0
  <2>2. A \in SUBSET Sessions /\ B \in SUBSET Sessions
    OBVIOUS
  <2>3. 4 * Cardinality(A) >= q * Cardinality(S) /\ 4 * Cardinality(B) < q * Cardinality(S)
    BY <1>1 DEF IsQuartile
  <2> HIDE DEF A, B
  <2>4. Cardinality(A) \in Nat /\ Cardinality(B) \in Nat /\ IsFiniteSet(B)
    BY <2>2, SessionsAreFinite
  <2>5. Cardinality(A) <= Cardinality(B)
    BY <2>1, <2>4, FS_Subset
  <2>6. q * Cardinality(S) \in Nat
    BY SessionsAreFinite
  <2> QED BY <2>3, <2>4, <2>5, <2>6
<1>2. ~ (v < w) /\ ~ (w < v)
  BY <1>1
<1> QED BY <1>2

\* The IQR method finds the outliers.
LEMMA OutliersAreAbove ==
    ASSUME NEW S \in SUBSET Sessions, S # {}, NEW s \in S
    PROVE  Outlier(s, S) <=> s \in AboveThird(S)
<1> DEFINE q1 == Nth(S, CeilQuarters(1, Cardinality(S)))
           q3 == Nth(S, CeilQuarters(3, Cardinality(S)))
<1>1. /\ q1 \in {Requests[t] : t \in S} /\ IsQuartile(q1, S, 1)
      /\ q3 \in {Requests[t] : t \in S} /\ IsQuartile(q3, S, 3)
  BY NthIsQuartile
<1>2. {Requests[t] : t \in S} \subseteq Nat
  BY ClassificationAssumption
<1>3. s \in AboveThird(S) <=> 2 * Requests[s] > 2 * q3 + 3 * (q3 - q1)
  BY DEF AboveThird
<1> HIDE DEF q1, q3
<1>4. \A v, w \in {Requests[t] : t \in S} :
         IsQuartile(v, S, 1) /\ IsQuartile(w, S, 3) => v = q1 /\ w = q3
  BY <1>1, <1>2, OneQuartile
<1> QED BY <1>1, <1>3, <1>4 DEF Outlier

-----------------------------------------------------------------------------
(* The user's marks.  A session with a mark that the analyzer holds was    *)
(* overtaken, and during the IQR method the sessions of the learning set   *)
(* have the marks given so far.                                            *)

IqrMark(s) == IF s \in AboveThird(chosen) \ toMark THEN "ANOMALY" ELSE "NORMAL"

MarksInv ==
    /\ MarksHold
    /\ \A s \in rows : byUser[s] # "none" => s \in overtaken
    /\ web \in {"clear", "iqr"} => chosen = learning /\ chosen # {}
    /\ web = "iqr" =>
          /\ toMark \subseteq AboveThird(chosen)
          /\ \A s \in chosen : byUser[s] = "none"
          /\ \A s \in chosen \cap rows : s \in overtaken
          /\ \A s \in chosen \ overtaken : class[s] = IqrMark(s)

LEMMA MarksInit == Init => MarksInv
BY DEF Init, MarksInv, MarksHold

LEMMA MarksAnalyzer == TypeInv /\ MarksInv /\ AnalyzerNext => MarksInv'
<1> SUFFICES ASSUME TypeInv, MarksInv, AnalyzerNext PROVE MarksInv'
  OBVIOUS
<1>0. /\ rows \in SUBSET Sessions /\ class \in [Sessions -> Classes]
      /\ chosen \in SUBSET Sessions /\ byUser \in [Sessions -> {"none", "NORMAL", "ANOMALY"}]
  BY DEF TypeInv, TypeOK
<1>a. AnalyzerStep /\ UNCHANGED <<learning, web, chosen, toMark, byUser, overtaken>>
  BY DEF AnalyzerNext, CountSessions, CountLearning, SetSession, EndOfPart, ReadLearningIds,
         AddNeighbour, Report, ReadPart, Part, Classify, AnalyzerStep, webVars
<1>b. AboveThird(chosen)' = AboveThird(chosen)
  BY <1>a DEF AboveThird
<1>c. ASSUME \A s \in Sessions : class'[s] = class[s] \/ s \in overtaken,
             \A s \in rows' : s \in rows \/ class[s] = "UNKNOWN", rows' \in SUBSET Sessions
      PROVE  MarksInv'
  <2>1. \A s \in Sessions : byUser[s] # "none" => class'[s] = byUser[s] \/ s \in overtaken
    BY <1>0, <1>c DEF MarksInv, MarksHold
  <2>2. \A s \in rows' : byUser[s] # "none" => s \in overtaken
    BY <1>0, <1>c DEF MarksInv, MarksHold
  <2>3. CASE web = "iqr"
    <3>1. \A s \in chosen \cap rows' : s \in overtaken
      BY <1>0, <1>c, <2>3 DEF MarksInv, IqrMark
    <3>2. \A s \in chosen \ overtaken : class'[s] = IqrMark(s)
      BY <1>0, <1>c, <2>3 DEF MarksInv
    <3> QED BY <1>a, <1>b, <2>1, <2>2, <2>3, <3>1, <3>2 DEF MarksInv, MarksHold, IqrMark
  <2>4. CASE web # "iqr"
    BY <1>a, <2>1, <2>2, <2>4 DEF MarksInv, MarksHold
  <2> QED BY <2>3, <2>4
<1>1. CASE ReadPart
  BY <1>0, <1>c, <1>1 DEF ReadPart, Part, FirstRows, Unclassified
<1>2. CASE Classify
  <2>1. current \in rows
    BY <1>2 DEF Classify, TypeInv, AnalyzerShape
  <2>2. CASE current \in overtaken
    BY <1>0, <1>2, <1>c, <2>2 DEF Classify
  <2>3. CASE current \notin overtaken
    <3>1. byUser[current] = "none" /\ ~ (web = "iqr" /\ current \in chosen)
      BY <2>1, <2>3 DEF MarksInv
    <3>2. /\ rows' = rows \ {current}
          /\ \A s \in Sessions \ {current} : class'[s] = class[s]
      BY <1>0, <1>2 DEF Classify
    <3>3. MarksHold'
      BY <1>0, <1>a, <3>1, <3>2 DEF MarksInv, MarksHold
    <3>4. web = "iqr" => \A s \in chosen \ overtaken : class'[s] = IqrMark(s)
      BY <1>0, <3>1, <3>2 DEF MarksInv
    <3>5. (\A s \in rows : byUser[s] # "none" => s \in overtaken)'
      BY <1>a, <3>2 DEF MarksInv
    <3>6. web = "iqr" => \A s \in chosen \cap rows' : s \in overtaken
      BY <3>2 DEF MarksInv
    <3> QED BY <1>a, <1>b, <3>3, <3>4, <3>5, <3>6 DEF MarksInv, IqrMark
  <2> QED BY <2>2, <2>3
<1>3. CASE CountSessions \/ CountLearning \/ SetSession \/ EndOfPart \/ ReadLearningIds
           \/ AddNeighbour \/ Report
  <2>1. class' = class /\ rows' = rows
    BY <1>3 DEF CountSessions, CountLearning, SetSession, EndOfPart, ReadLearningIds, AddNeighbour, Report
  <2> QED BY <1>0, <1>c, <2>1
<1> QED BY <1>1, <1>2, <1>3 DEF AnalyzerNext

LEMMA MarksWeb == TypeInv /\ MarksInv /\ WebNext => MarksInv'
<1> SUFFICES ASSUME TypeInv, MarksInv, WebNext PROVE MarksInv'
  OBVIOUS
<1>0. /\ rows \in SUBSET Sessions /\ class \in [Sessions -> Classes]
      /\ chosen \in SUBSET Sessions /\ learning \in SUBSET Sessions /\ toMark \in SUBSET Sessions
      /\ byUser \in [Sessions -> {"none", "NORMAL", "ANOMALY"}]
  BY DEF TypeInv, TypeOK
<1>a. rows' = rows
  BY WebSteps DEF analyzerVars
<1>b. ASSUME NEW next \in {"marks", "remove", "clear"}, NEW S, Command(next, S),
             next = "clear" => S = learning /\ learning # {}
      PROVE  MarksInv'
  BY <1>a, <1>b DEF Command, histVars, MarksInv, MarksHold
<1>c. ASSUME UNCHANGED <<class, byUser, overtaken>>, web' \notin {"clear", "iqr"}
      PROVE  MarksInv'
  BY <1>a, <1>c DEF MarksInv, MarksHold
<1>1. ASSUME NEW S \in Selections,
             SetApacheSessionsAsAnomaly(S) \/ SetApacheAnomalyDetectionConfiguration(S)
      PROVE  MarksInv'
  BY <1>b, <1>1 DEF SetApacheSessionsAsAnomaly, SetApacheAnomalyDetectionConfiguration
<1>2. CASE RemoveConfiguration
  BY <1>b, <1>2 DEF RemoveConfiguration
<1>3. CASE MarkLearningSetWithIqrMethod
  BY <1>b, <1>3 DEF MarkLearningSetWithIqrMethod
<1>4. ASSUME NEW S \in SUBSET chosen, SetApacheSessionAsAnomaly(S)
      PROVE  MarksInv'
  <2>1. class' = [s \in Sessions |-> IF s \in chosen
                                     THEN IF s \in S THEN "ANOMALY" ELSE "NORMAL" ELSE class[s]]
    BY <1>4 DEF SetApacheSessionAsAnomaly, Given
  <2>2. byUser' = [s \in Sessions |-> IF s \in chosen
                                      THEN IF s \in S THEN "ANOMALY" ELSE "NORMAL" ELSE byUser[s]]
    BY <1>4 DEF SetApacheSessionAsAnomaly, Given
  <2>3. web' = "remove" /\ overtaken' = (overtaken \ chosen) \cup (chosen \cap rows)
    BY <1>4 DEF SetApacheSessionAsAnomaly, Given
  <2>4. MarksHold'
    BY <1>0, <2>1, <2>2, <2>3 DEF MarksInv, MarksHold
  <2>5. \A s \in rows' : byUser'[s] # "none" => s \in overtaken'
    BY <1>0, <1>a, <2>2, <2>3 DEF MarksInv
  <2> QED BY <2>3, <2>4, <2>5 DEF MarksInv
<1>5. CASE RemoveAllLearningSessions
  BY <1>c, <1>5 DEF RemoveAllLearningSessions
<1>6. CASE SetLearningSessions
  BY <1>c, <1>6 DEF SetLearningSessions
<1>7. CASE ClearAnomalyMarksInLearningSet
  <2>1. /\ web' = "iqr" /\ learning' = learning /\ chosen' = chosen
        /\ chosen = learning /\ chosen # {} /\ toMark' = AboveThird(chosen)
        /\ overtaken' = (overtaken \ learning) \cup (learning \cap rows)
        /\ class' = [s \in Sessions |-> IF s \in learning THEN "NORMAL" ELSE class[s]]
        /\ byUser' = [s \in Sessions |-> IF s \in learning THEN "none" ELSE byUser[s]]
    BY <1>7 DEF ClearAnomalyMarksInLearningSet, MarksInv
  <2>2. AboveThird(chosen)' = AboveThird(chosen)
    BY <2>1 DEF AboveThird
  <2>3. MarksHold'
    BY <1>0, <2>1 DEF MarksInv, MarksHold
  <2>4. \A s \in rows' : byUser'[s] # "none" => s \in overtaken'
    BY <1>0, <1>a, <2>1 DEF MarksInv
  <2>5. /\ \A s \in chosen' : byUser'[s] = "none"
        /\ \A s \in chosen' \cap rows' : s \in overtaken'
        /\ \A s \in chosen' \ overtaken' : class'[s] = "NORMAL"
    BY <1>0, <1>a, <2>1
  <2>6. /\ (toMark \subseteq AboveThird(chosen))'
        /\ \A s \in chosen' : IqrMark(s)' = "NORMAL"
    BY <2>1, <2>2 DEF IqrMark
  <2> QED BY <2>1, <2>3, <2>4, <2>5, <2>6 DEF MarksInv
<1>8. CASE MarkAnomaly
  <2> DEFINE x == Lowest(toMark)
  <2>1. x \in toMark
    BY <1>0, <1>8, LowestIsLeast DEF MarkAnomaly
  <2>2. /\ UNCHANGED <<learning, web, chosen, byUser, overtaken>> /\ web = "iqr"
        /\ toMark' = toMark \ {x} /\ class' = [class EXCEPT ![x] = "ANOMALY"]
    BY <1>8 DEF MarkAnomaly
  <2> HIDE DEF x
  <2>3. AboveThird(chosen)' = AboveThird(chosen)
    BY <2>2 DEF AboveThird
  <2>4. x \in AboveThird(chosen) /\ x \in chosen /\ byUser[x] = "none"
    BY <2>1, <2>2 DEF MarksInv, AboveThird
  <2>5. MarksHold'
    BY <1>0, <2>2, <2>4 DEF MarksInv, MarksHold
  <2>6. ASSUME NEW s \in chosen \ overtaken PROVE class'[s] = IqrMark(s)'
    <3>1. class[s] = IqrMark(s)
      BY <2>2 DEF MarksInv
    <3> QED BY <1>0, <2>2, <2>3, <2>4, <3>1 DEF IqrMark
  <2> QED BY <1>a, <2>2, <2>3, <2>5, <2>6 DEF MarksInv
<1>9. CASE EndOfIqr
  <2>1. /\ byUser' = [s \in Sessions |-> IF s \in chosen
                                         THEN IF Outlier(s, chosen) THEN "ANOMALY" ELSE "NORMAL"
                                         ELSE byUser[s]]
        /\ web = "iqr" /\ web' = "idle" /\ toMark = {} /\ UNCHANGED <<class, overtaken>>
    BY <1>9 DEF EndOfIqr, Given
  <2>2. \A s \in chosen \ overtaken : class[s] = IF Outlier(s, chosen) THEN "ANOMALY" ELSE "NORMAL"
    BY <1>0, <2>1, OutliersAreAbove DEF MarksInv, IqrMark
  <2>3. MarksHold'
    BY <1>0, <2>1, <2>2 DEF MarksInv, MarksHold
  <2>4. \A s \in rows' : byUser'[s] # "none" => s \in overtaken'
    BY <1>0, <1>a, <2>1 DEF MarksInv
  <2> QED BY <2>1, <2>3, <2>4 DEF MarksInv
<1> QED BY <1>1, <1>2, <1>3, <1>4, <1>5, <1>6, <1>7, <1>8, <1>9 DEF WebNext

LEMMA MarksStep == TypeInv /\ MarksInv /\ [Next]_vars => MarksInv'
<1>1. MarksInv /\ UNCHANGED vars => MarksInv'
  BY DEF vars, analyzerVars, webVars, histVars, MarksInv, MarksHold, IqrMark, AboveThird
<1> QED BY <1>1, MarksAnalyzer, MarksWeb DEF Next

-----------------------------------------------------------------------------
(* The first n rows of a table.                                            *)

\* What comes before a row.
Before(S, x) == {t \in S : t < x}

LEMMA BeforeIsFinite ==
    ASSUME NEW S \in SUBSET Sessions, NEW x
    PROVE  Before(S, x) \in SUBSET Sessions /\ IsFiniteSet(Before(S, x))
           /\ Cardinality(Before(S, x)) \in Nat
<1>1. Before(S, x) \in SUBSET Sessions
  BY DEF Before
<1> QED BY <1>1, SessionsAreFinite

LEMMA MoreRows ==
    ASSUME NEW S \in SUBSET Sessions, NEW m \in Nat, NEW n \in Nat, m <= n
    PROVE  FirstRows(S, m) \subseteq FirstRows(S, n)
<1>1. \A x : Cardinality(Before(S, x)) \in Nat
  BY BeforeIsFinite
<1>2. \A x : Cardinality(Before(S, x)) < m => Cardinality(Before(S, x)) < n
  BY <1>1
<1> QED BY <1>2 DEF FirstRows, Before

\* A limit that is large enough gives all rows.
LEMMA AllRows ==
    ASSUME NEW S \in SUBSET Sessions, NEW n \in Nat, Cardinality(S) <= n
    PROVE  FirstRows(S, n) = S
<1>1. ASSUME NEW x \in S PROVE Cardinality(Before(S, x)) < n
  <2>1. Before(S, x) \subseteq S /\ Before(S, x) # S
    BY ClassificationAssumption DEF Before
  <2>2. /\ Cardinality(Before(S, x)) <= Cardinality(S) /\ Cardinality(Before(S, x)) # Cardinality(S)
        /\ Cardinality(S) \in Nat
    BY <2>1, SessionsAreFinite, FS_Subset
  <2> QED BY <2>2, BeforeIsFinite
<1> QED BY <1>1 DEF FirstRows, Before

\* One row more.
LEMMA NextRow ==
    ASSUME NEW S \in SUBSET Sessions, NEW n \in Nat, n < Cardinality(S),
           Cardinality(FirstRows(S, n)) = n
    PROVE  Cardinality(FirstRows(S, n + 1)) = n + 1
<1> DEFINE F == FirstRows(S, n)
           x == Lowest(S \ F)
<1>1. F \in SUBSET Sessions /\ F \subseteq S /\ IsFiniteSet(F) /\ Cardinality(F) = n
  <2>1. F \in SUBSET Sessions /\ F \subseteq S
    BY DEF FirstRows
  <2> HIDE DEF F
  <2>2. IsFiniteSet(F)
    BY <2>1, SessionsAreFinite
  <2> QED BY <2>1, <2>2 DEF F
<1>2. \A t \in S : Cardinality(Before(S, t)) \in Nat /\ (t \in F <=> Cardinality(Before(S, t)) < n)
  BY BeforeIsFinite DEF FirstRows, Before
<1> HIDE DEF F
<1>3. S \ F # {} /\ S \ F \in SUBSET Sessions
  BY <1>1
<1>4. x \in S \ F /\ \A t \in S \ F : x <= t
  BY <1>3, LowestIsLeast
<1> HIDE DEF x
<1>5. S \subseteq Nat /\ x \in Nat
  BY <1>4, ClassificationAssumption
<1>6. ASSUME NEW t \in F PROVE t < x
  <2>1. SUFFICES ASSUME x < t PROVE FALSE
    BY <1>1, <1>4, <1>5
  <2>2. Before(S, x) \subseteq Before(S, t)
    <3>1. t \in Nat /\ \A u \in S : u < x => u < t
      BY <1>1, <1>5, <2>1
    <3> QED BY <3>1 DEF Before
  <2>3. Cardinality(Before(S, x)) <= Cardinality(Before(S, t))
    BY <2>2, BeforeIsFinite, FS_Subset
  <2>4. Cardinality(Before(S, t)) < n /\ ~ (Cardinality(Before(S, x)) < n) /\ t \in S
    BY <1>1, <1>2, <1>4
  <2> QED BY <1>2, <1>4, <2>3, <2>4
<1>7. Before(S, x) = F
  <2>1. ASSUME NEW t \in S, t < x PROVE t \in F
    BY <1>4, <1>5, <2>1
  <2> QED BY <1>1, <1>6, <2>1 DEF Before
<1>8. ASSUME NEW t \in S, t \notin F, t # x
      PROVE  ~ (Cardinality(Before(S, t)) < n + 1)
  <2>1. F \cup {x} \subseteq Before(S, t)
    BY <1>1, <1>4, <1>5, <1>6, <1>8 DEF Before
  <2>2. Cardinality(F \cup {x}) = n + 1 /\ IsFiniteSet(F \cup {x})
    BY <1>1, <1>4, FS_AddElement
  <2>3. Cardinality(F \cup {x}) <= Cardinality(Before(S, t))
    BY <2>1, BeforeIsFinite, FS_Subset
  <2> QED BY <1>2, <2>2, <2>3
<1>9. FirstRows(S, n + 1) = F \cup {x}
  <2>1. \A t \in S : t \in FirstRows(S, n + 1) <=> Cardinality(Before(S, t)) < n + 1
    BY DEF FirstRows, Before
  <2>2. \A t \in F : Cardinality(Before(S, t)) < n + 1
    BY <1>1, <1>2
  <2>3. Cardinality(Before(S, x)) < n + 1
    BY <1>1, <1>7
  <2>4. FirstRows(S, n + 1) \subseteq S
    BY DEF FirstRows
  <2> QED BY <1>1, <1>4, <1>8, <2>1, <2>2, <2>3, <2>4
<1> QED BY <1>1, <1>4, <1>9, FS_AddElement

\* "limit n" of enough rows gives n of them.
LEMMA FirstRowsAreMany ==
    ASSUME NEW S \in SUBSET Sessions, NEW n \in Nat, n <= Cardinality(S)
    PROVE  Cardinality(FirstRows(S, n)) = n
<1> DEFINE Bad == {m \in Nat : m <= Cardinality(S) /\ Cardinality(FirstRows(S, m)) # m}
<1>1. SUFFICES ASSUME Bad # {} PROVE FALSE
  OBVIOUS
<1>2. PICK m \in Bad : \A k \in Bad : m <= k
  BY <1>1, LeastNatural
<1>3. m # 0
  <2>1. \A x : ~ (Cardinality(Before(S, x)) < 0)
    BY BeforeIsFinite
  <2>2. FirstRows(S, 0) = {}
    BY <2>1 DEF FirstRows, Before
  <2> QED BY <1>2, <2>2, FS_EmptySet
<1>4. Cardinality(S) \in Nat
  BY SessionsAreFinite
<1>5. m - 1 \in Nat /\ m - 1 < Cardinality(S) /\ (m - 1) + 1 = m
  BY <1>2, <1>3, <1>4
<1>6. Cardinality(FirstRows(S, m - 1)) = m - 1
  <2>1. m \in Nat
    BY <1>2
  <2> HIDE DEF Bad
  <2>2. m - 1 \notin Bad
    BY <1>2, <1>5, <2>1
  <2> QED BY <1>4, <1>5, <2>2 DEF Bad
<1>7. Cardinality(FirstRows(S, m)) = m
  BY <1>5, <1>6, NextRow
<1> QED BY <1>2, <1>7

-----------------------------------------------------------------------------
(* Every session.  In an analysis no command interferes with, the          *)
(* unclassified sessions are those in memory and those still to be read,   *)
(* once a session of the learning set that is read has a mark; and each    *)
(* such session has been offered to the table when it votes.               *)

Marked == {s \in FirstRows(learning, MaxRows) : class[s] # "UNKNOWN"}

CoverInv ==
    /\ analyzer = "idle" => heard = {} /\ ~ steady
    /\ steady =>
          /\ rows \subseteq Unclassified /\ heard \subseteq Marked
          /\ analyzer \in {"session", "ids", "add", "classify"} => count = Cardinality(learning)
          /\ analyzer = "ids" => learnLeft = count \/ Marked \subseteq heard
          /\ analyzer = "add" => /\ ids \subseteq FirstRows(learning, MaxRows)
                                /\ Marked \subseteq heard \cup ids
          /\ analyzer = "classify" => Marked \subseteq heard
          /\ Marked # {} => Cardinality(Unclassified) = left + Cardinality(rows)

LEMMA CoverInit == Init => CoverInv
BY DEF Init, CoverInv

\* What every case starts from.
LEMMA CoverTypes ==
    ASSUME TypeInv
    PROVE  /\ learning \in SUBSET Sessions /\ rows \in SUBSET Sessions /\ ids \in SUBSET Sessions
           /\ heard \in SUBSET Sessions /\ Unclassified \in SUBSET Sessions
           /\ class \in [Sessions -> Classes] /\ left \in Nat /\ count \in Nat /\ learnLeft \in 0..count
           /\ Cardinality(Unclassified) \in Nat /\ Cardinality(rows) \in Nat
           /\ Cardinality(learning) \in Nat /\ MaxRows \in Nat /\ Cardinality({}) = 0
<1>1. /\ learning \in SUBSET Sessions /\ rows \in SUBSET Sessions /\ ids \in SUBSET Sessions
      /\ heard \in SUBSET Sessions /\ Unclassified \in SUBSET Sessions
      /\ class \in [Sessions -> Classes]
  BY DEF TypeInv, TypeOK, Unclassified
<1>2. Cardinality(Sessions) \in Nat
  BY ClassificationAssumption, FS_CardinalityType
<1>3. left \in Nat /\ count \in Nat /\ learnLeft \in 0..count
  BY <1>2 DEF TypeInv, TypeOK
<1>4. Cardinality(Unclassified) \in Nat /\ Cardinality(rows) \in Nat /\ Cardinality(learning) \in Nat
  BY <1>1, SessionsAreFinite
<1> QED BY <1>1, <1>3, <1>4, FS_EmptySet, ClassificationAssumption

LEMMA CoverReadPart == TypeInv /\ CoverInv /\ ReadPart => CoverInv'
<1> SUFFICES ASSUME TypeInv, CoverInv, ReadPart PROVE CoverInv'
  OBVIOUS
<1>1. /\ analyzer = "part" /\ analyzer' = "count" /\ steady' = steady /\ heard' = heard
      /\ rows' = FirstRows(Unclassified, Limit(left)) /\ left' = left - Limit(left)
      /\ UNCHANGED <<class, learning>>
  BY DEF ReadPart, Part, AnalyzerStep
<1>2. Marked' = Marked /\ Unclassified' = Unclassified
  BY <1>1 DEF Marked, FirstRows, Unclassified
<1>3. rows' \subseteq Unclassified
  BY <1>1 DEF FirstRows
<1>4. rows = {} /\ Limit(left) \in 0..left
  BY <1>1, CoverTypes, LimitBounds DEF TypeInv, AnalyzerShape
<1>5. ASSUME steady, Marked # {} PROVE Cardinality(Unclassified) = left' + Cardinality(rows')
  <2>1. Cardinality(Unclassified) = left
    BY <1>4, <1>5, CoverTypes DEF CoverInv
  <2>2. Cardinality(rows') = Limit(left)
    BY <1>1, <1>4, <2>1, CoverTypes, FirstRowsAreMany
  <2> QED BY <1>1, <1>4, <2>1, <2>2, CoverTypes
<1> QED BY <1>1, <1>2, <1>3, <1>5 DEF CoverInv

LEMMA CoverReadLearningIds == TypeInv /\ CoverInv /\ ReadLearningIds => CoverInv'
<1> SUFFICES ASSUME TypeInv, CoverInv, ReadLearningIds PROVE CoverInv'
  OBVIOUS
<1>1. /\ analyzer = "ids" /\ ids' = FirstRows(learning, Limit(learnLeft))
      /\ learnLeft' = learnLeft - Limit(learnLeft)
      /\ analyzer' = AfterNeighbours(ids', learnLeft')
      /\ UNCHANGED <<class, learning, rows, left, heard, count, steady>>
  BY DEF ReadLearningIds, AnalyzerStep
<1>2. Marked' = Marked /\ Unclassified' = Unclassified
  BY <1>1 DEF Marked, FirstRows, Unclassified
<1>3. Limit(learnLeft) \in Nat /\ Limit(learnLeft) <= MaxRows /\ learnLeft \in Nat
  BY CoverTypes, LimitBounds
<1>4. ids' \subseteq FirstRows(learning, MaxRows)
  BY <1>1, <1>3, CoverTypes, MoreRows
<1>5. ASSUME steady PROVE Marked \subseteq heard \cup ids'
  <2>1. CASE learnLeft = count
    <3>1. learnLeft = Cardinality(learning)
      BY <1>1, <1>5, <2>1 DEF CoverInv
    <3>2. CASE learnLeft < MaxRows
      <4>1. Limit(learnLeft) = Cardinality(learning) /\ Cardinality(learning) <= MaxRows
        BY <1>3, <3>1, <3>2, CoverTypes DEF Limit, Smaller
      <4>2. ids' = learning /\ FirstRows(learning, MaxRows) = learning
        BY <1>1, <4>1, CoverTypes, AllRows
      <4> QED BY <4>2 DEF Marked
    <3>3. CASE ~ (learnLeft < MaxRows)
      <4>1. ids' = FirstRows(learning, MaxRows)
        BY <1>1, <3>3 DEF Limit, Smaller
      <4> QED BY <4>1 DEF Marked
    <3> QED BY <3>2, <3>3
  <2>2. CASE Marked \subseteq heard
    BY <2>2
  <2> QED BY <1>1, <1>5, <2>1, <2>2 DEF CoverInv
<1>6. /\ analyzer' \in {"ids", "add", "classify"}
      /\ analyzer' # "add" => ids' = {}
  BY <1>1 DEF AfterNeighbours
<1> QED BY <1>1, <1>2, <1>4, <1>5, <1>6 DEF CoverInv

LEMMA CoverAddNeighbour == TypeInv /\ CoverInv /\ AddNeighbour => CoverInv'
<1> SUFFICES ASSUME TypeInv, CoverInv, AddNeighbour PROVE CoverInv'
  OBVIOUS
<1> DEFINE s == Lowest(ids)
<1>1. /\ analyzer = "add" /\ ids' = ids \ {s}
      /\ heard' = IF class[s] = "UNKNOWN" THEN heard ELSE heard \cup {s}
      /\ analyzer' = AfterNeighbours(ids', learnLeft)
      /\ UNCHANGED <<class, learning, rows, left, count, steady>>
  BY DEF AddNeighbour, AnalyzerStep
<1>2. Marked' = Marked /\ Unclassified' = Unclassified
  BY <1>1 DEF Marked, FirstRows, Unclassified
<1>3. s \in ids
  BY <1>1, CoverTypes, LowestIsLeast DEF TypeInv, TypeOK
<1> HIDE DEF s
<1>4. ASSUME steady PROVE Marked \subseteq heard' \cup ids' /\ heard' \subseteq Marked
  BY <1>1, <1>3, <1>4 DEF CoverInv, Marked
<1>5. /\ analyzer' \in {"ids", "add", "classify"}
      /\ analyzer' # "add" => ids' = {}
  BY <1>1 DEF AfterNeighbours
<1> QED BY <1>1, <1>2, <1>4, <1>5 DEF CoverInv

LEMMA CoverClassify == TypeInv /\ NearestInv /\ CoverInv /\ Classify => CoverInv'
<1> SUFFICES ASSUME TypeInv, NearestInv, CoverInv, Classify PROVE CoverInv'
  OBVIOUS
<1>1. /\ analyzer = "classify" /\ analyzer' = "session" /\ rows' = rows \ {current}
      /\ class' = [class EXCEPT ![current] = Majority]
      /\ UNCHANGED <<learning, left, count, heard, steady>>
  BY DEF Classify, AnalyzerStep
<1>2. SUFFICES ASSUME steady PROVE CoverInv'
  BY <1>1 DEF CoverInv
<1>3. /\ current \in rows /\ rows \subseteq Unclassified /\ current \in Sessions
      /\ class[current] = "UNKNOWN" /\ Marked \subseteq heard /\ heard \subseteq Marked
      /\ count = Cardinality(learning)
  BY <1>1, <1>2 DEF CoverInv, TypeInv, AnalyzerShape, Unclassified
<1>4. FirstRows(learning, MaxRows)' = FirstRows(learning, MaxRows)
  BY <1>1 DEF FirstRows
<1>5. Cardinality(table) = Smaller(Cardinality(heard), NumberOfNeighbours)
  BY DEF NearestInv, NearestKept
<1>6. CASE Marked = {}
  <2>1. Cardinality(table) = 0
    <3>1. heard = {}
      BY <1>3, <1>6
    <3>2. Smaller(0, NumberOfNeighbours) = 0
      BY ClassificationAssumption DEF Smaller
    <3> QED BY <1>5, <3>1, <3>2, FS_EmptySet
  <2>2. table = {}
    BY <2>1, FS_EmptySet DEF NearestInv
  <2>3. class' = class
    BY <1>1, <1>3, <2>2, CoverTypes DEF Majority
  <2>4. Marked' = {} /\ Unclassified' = Unclassified
    BY <1>4, <1>6, <2>3 DEF Marked, Unclassified
  <2> QED BY <1>1, <1>3, <1>6, <2>4 DEF CoverInv
<1>7. CASE Marked # {}
  <2>1. Cardinality(heard) \in Nat /\ Cardinality(heard) # 0
    <3>1. heard \in SUBSET Sessions /\ heard # {}
      BY <1>3, <1>7, CoverTypes
    <3> QED BY <3>1, SessionsAreFinite, FS_EmptySet
  <2>2. Cardinality(table) # 0
    BY <1>5, <2>1, ClassificationAssumption DEF Smaller
  <2>3. table # {}
    BY <2>2, FS_EmptySet
  <2>4. Majority # "UNKNOWN"
    BY <2>3 DEF Majority
  <2>5. Unclassified' = Unclassified \ {current}
    BY <1>1, <1>3, <2>4, CoverTypes DEF Unclassified
  <2>6. Marked \subseteq Marked'
    BY <1>1, <1>3, <1>4, CoverTypes DEF Marked, FirstRows
  <2>7. /\ Cardinality(Unclassified \ {current}) = Cardinality(Unclassified) - 1
        /\ Cardinality(rows \ {current}) = Cardinality(rows) - 1
    <3>1. IsFiniteSet(Unclassified) /\ IsFiniteSet(rows)
      BY CoverTypes, SessionsAreFinite
    <3> QED BY <1>3, <3>1, FS_RemoveElement
  <2>8. Cardinality(Unclassified') = left' + Cardinality(rows')
    BY <1>1, <1>2, <1>7, <2>5, <2>7, CoverTypes DEF CoverInv
  <2>9. rows' \subseteq Unclassified' /\ heard' \subseteq Marked'
    BY <1>1, <1>3, <2>5, <2>6
  <2> QED BY <1>1, <1>3, <2>8, <2>9 DEF CoverInv
<1> QED BY <1>6, <1>7

LEMMA CoverOther ==
    TypeInv /\ CoverInv /\ (CountSessions \/ CountLearning \/ SetSession \/ EndOfPart \/ Report)
    => CoverInv'
<1> SUFFICES ASSUME TypeInv, CoverInv,
                    CountSessions \/ CountLearning \/ SetSession \/ EndOfPart \/ Report
             PROVE  CoverInv'
  OBVIOUS
<1>1. class' = class /\ learning' = learning
  BY DEF CountSessions, CountLearning, SetSession, EndOfPart, Report, AnalyzerStep
<1>2. Marked' = Marked /\ Unclassified' = Unclassified
  BY <1>1 DEF Marked, FirstRows, Unclassified
<1>3. CASE CountSessions
  BY <1>1, <1>2, <1>3, CoverTypes DEF CountSessions, CoverInv, TypeInv, AnalyzerShape
<1>4. CASE CountLearning
  BY <1>1, <1>2, <1>4 DEF CountLearning, CoverInv
<1>5. CASE SetSession
  <2>1. ASSUME Cardinality(learning) = 0 PROVE Marked = {}
    <3>1. learning = {}
      BY <2>1, CoverTypes, SessionsAreFinite, FS_EmptySet
    <3> QED BY <3>1 DEF Marked, FirstRows
  <2> QED BY <1>1, <1>2, <1>5, <2>1 DEF SetSession, CoverInv
<1>6. CASE EndOfPart
  BY <1>1, <1>2, <1>6 DEF EndOfPart, CoverInv
<1>7. CASE Report
  BY <1>7 DEF Report, CoverInv
<1> QED BY <1>3, <1>4, <1>5, <1>6, <1>7

\* A statement of the web thread that changes a table ends the steady analysis.
LEMMA CoverWeb == TypeInv /\ CoverInv /\ WebNext => CoverInv'
<1> SUFFICES ASSUME TypeInv, CoverInv, WebNext PROVE CoverInv'
  OBVIOUS
<1>1. UNCHANGED <<analyzer, rows, heard, count, learnLeft, ids, left>>
  BY WebSteps DEF analyzerVars
<1>2. \/ ~ steady'
      \/ steady' = steady /\ class' = class /\ learning' = learning
  <2>1. ASSUME NEW next, NEW S, Command(next, S)
        PROVE  steady' = steady /\ class' = class /\ learning' = learning
    BY <2>1 DEF Command, histVars
  <2>2. ASSUME NEW S, SetApacheSessionAsAnomaly(S) PROVE ~ steady'
    BY <2>2 DEF SetApacheSessionAsAnomaly, Given
  <2>3. CASE EndOfIqr
    BY <2>3 DEF EndOfIqr, Given
  <2>4. CASE RemoveAllLearningSessions \/ SetLearningSessions \/ ClearAnomalyMarksInLearningSet
             \/ MarkAnomaly
    BY <2>4 DEF RemoveAllLearningSessions, SetLearningSessions, ClearAnomalyMarksInLearningSet, MarkAnomaly
  <2> QED
    BY <2>1, <2>2, <2>3, <2>4
       DEF WebNext, SetApacheSessionsAsAnomaly, SetApacheAnomalyDetectionConfiguration,
           RemoveConfiguration, MarkLearningSetWithIqrMethod
<1>3. CASE ~ steady'
  BY <1>1, <1>3 DEF CoverInv
<1>4. CASE steady' = steady /\ class' = class /\ learning' = learning
  <2>1. Marked' = Marked /\ Unclassified' = Unclassified
    BY <1>4 DEF Marked, FirstRows, Unclassified
  <2> QED BY <1>1, <1>4, <2>1 DEF CoverInv
<1> QED BY <1>2, <1>3, <1>4

LEMMA CoverStep == TypeInv /\ NearestInv /\ CoverInv /\ [Next]_vars => CoverInv'
<1>1. CoverInv /\ UNCHANGED vars => CoverInv'
  BY DEF vars, analyzerVars, webVars, histVars, CoverInv, Marked, FirstRows, Unclassified
<1> QED BY <1>1, CoverReadPart, CoverReadLearningIds, CoverAddNeighbour, CoverClassify, CoverOther, CoverWeb
        DEF Next, AnalyzerNext

-----------------------------------------------------------------------------
(* The theorems.                                                           *)

IInv == TypeInv /\ ReportInv /\ NearestInv /\ MarksInv /\ CoverInv

LEMMA InitInv == Init => IInv
<1>1. Init => ReportInv
  BY DEF Init, ReportInv
<1> QED BY <1>1, TypeInit, NearestInit, MarksInit, CoverInit DEF IInv

LEMMA Inductive == IInv /\ [Next]_vars => IInv'
BY TypeStep, ReportStep, NearestStep, MarksStep, CoverStep DEF IInv

\* In every state of the analyzer and the web thread the inductive invariant holds.
THEOREM Invariance == Spec => []IInv
BY InitInv, Inductive, PTL DEF Spec

\* The variables have their types: RunPartially asks for no more rows than were counted,
\* and the analyzer's loops have what they work on.
THEOREM TypeCorrect == Spec => []TypeOK
<1>1. IInv => TypeOK
  BY DEF IInv, TypeInv
<1> QED BY <1>1, Invariance, PTL

\* No anomaly is reported twice, however the analyses and the commands interleave.
THEOREM AnomaliesAreReportedOnce == Spec => []ReportedOnce
<1>1. IInv => ReportedOnce
  <2> SUFFICES ASSUME IInv, NEW s \in Sessions PROVE reported[s] <= 1
    BY DEF ReportedOnce
  <2>1. reported[s] = 0 \/ reported[s] = 1
    BY DEF IInv, ReportInv
  <2> QED BY <2>1
<1> QED BY <1>1, Invariance, PTL

\* The table holds the nearest neighbours, as many as fit, of the sessions offered to it.
THEOREM TableKeepsNearest == Spec => []NearestKept
<1>1. IInv => NearestKept
  BY DEF IInv, NearestInv
<1> QED BY <1>1, Invariance, PTL

\* The classification a command gave stays, and the one of the IQR method is the one the
\* quartiles call for, unless the analyzer had read the session before.
THEOREM MarksAreKept == Spec => []MarksHold
<1>1. IInv => MarksHold
  BY DEF IInv, MarksInv
<1> QED BY <1>1, Invariance, PTL

\* An analysis no command interferes with classifies every session it counted, if a
\* session of the learning set it reads has a mark.
THEOREM EverySessionIsClassified == Spec => []AllClassified
<1>1. IInv => AllClassified
  <2> SUFFICES ASSUME IInv, analyzer = "report", steady,
                      \E s \in FirstRows(learning, MaxRows) : class[s] # "UNKNOWN"
               PROVE  Unclassified = {}
    BY DEF AllClassified
  <2>1. Marked # {}
    BY DEF Marked
  <2>2. rows = {} /\ left = 0
    BY DEF IInv, TypeInv, AnalyzerShape
  <2>3. Cardinality(Unclassified) = 0
    BY <2>1, <2>2, FS_EmptySet DEF IInv, CoverInv
  <2>4. IsFiniteSet(Unclassified)
    BY CoverTypes, SessionsAreFinite DEF IInv
  <2> QED BY <2>3, <2>4, FS_EmptySet
<1> QED BY <1>1, Invariance, PTL
=============================================================================
