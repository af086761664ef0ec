------------------------ MODULE ServerWorkers_proofs ------------------------
(***************************************************************************)
(* The server's threads, and the texts that reach its web thread.          *)
(*                                                                         *)
(* For any number of reports and signals: the notifier takes no message    *)
(* from an empty queue and sends no empty mail, and every report the       *)
(* analyzer made is in the queue, in the mail being written, mailed, or    *)
(* lost with a mail that failed, and only once.                            *)
(*                                                                         *)
(* For every length of the texts, the messages and the buffer: SendText    *)
(* makes no message that SendMessage refuses; RecvMessage copies nothing   *)
(* past the end of its message or its buffer, although it may take a byte  *)
(* of the text for a length; what ReceiveText returns is the text, or, of  *)
(* a request, its beginning.                                               *)
(***************************************************************************)
EXTENDS ServerWorkers, NetworkText, FiniteSetTheorems, TLAPS

MainLabels == {"createNotifier", "startNotifier", "createAnalyzer", "startAnalyzer",
               "startWeb", "startBus", "bus", "stop", "close", "join"}

Labels == LoopLabels \cup {"analyze", "clear", "compose", "get", "lookup", "send", "handle"}

\* worker is a function, and a thread is not there before main has started it.
TypeInv ==
    /\ TypeOK /\ worker \in [Workers -> Labels]
    /\ main \in {"createNotifier", "startNotifier"} => worker["notifier"] = "none"
    /\ main \in {"createNotifier", "startNotifier", "createAnalyzer", "startAnalyzer"}
          => worker["analyzer"] = "none"
    /\ main \in {"createNotifier", "startNotifier", "createAnalyzer", "startAnalyzer", "startWeb"}
          => worker["web"] = "none"

LEMMA TypeInit == Init => TypeInv
<1> SUFFICES ASSUME Init PROVE TypeInv
  OBVIOUS
<1>1. worker \in [Workers -> Labels] /\ \A w \in Workers : worker[w] = "none"
  BY DEF Init, Labels, LoopLabels
<1>2. <<>> \in Seq(1..MaxReports)
  OBVIOUS
<1>3. messages = <<>> /\ mail = <<>> /\ mailed = <<>>
  BY DEF Init
<1>4. {messages, mail, mailed} \subseteq Seq(1..MaxReports)
  BY <1>2, <1>3
<1>5. running \in [Loops -> BOOLEAN]
  BY DEF Init
<1>6. /\ worker["analyzer"] = "none" /\ worker["notifier"] = "none" /\ worker["web"] = "none"
  BY <1>1 DEF Workers
<1>7. /\ todo = {} /\ reports = 0 /\ lost = {} /\ asks = 0 /\ stops = 0
      /\ main = "createNotifier" /\ handler = "idle" /\ process = "runs"
      /\ isAnalyzing \in BOOLEAN /\ dbOpen \in BOOLEAN
  BY DEF Init
<1>8. reports \in 0..MaxReports /\ asks \in 0..MaxAsks /\ stops \in 0..MaxStops
  BY <1>7, WorkersAssumption
<1> QED BY <1>1, <1>4, <1>5, <1>6, <1>7, <1>8 DEF TypeInv, TypeOK, LoopLabels

LEMMA TypeMain == TypeInv /\ MainNext => TypeInv'
<1> SUFFICES ASSUME TypeInv, MainNext PROVE TypeInv'
  OBVIOUS
<1> USE DEF MainStep, signalVars, notifierVars, MainAt, TypeInv, TypeOK, Workers
<1>1. CASE Boot
  <2> USE DEF Create, StartThread
  <2>1. CASE Create("createNotifier", "startNotifier")
    BY <2>1
  <2>2. CASE MainAt("startNotifier") /\ StartThread("notifier", "createAnalyzer")
    BY <2>2 DEF Labels, LoopLabels
  <2>3. CASE Create("createAnalyzer", "startAnalyzer")
    BY <2>3
  <2>4. CASE MainAt("startAnalyzer") /\ StartThread("analyzer", "startWeb")
    BY <2>4 DEF Labels, LoopLabels
  <2>5. CASE MainAt("startWeb") /\ StartThread("web", "startBus")
    BY <2>5 DEF Labels, LoopLabels
  <2> QED BY <1>1, <2>1, <2>2, <2>3, <2>4, <2>5 DEF Boot
<1>2. CASE StartBus
  BY <1>2 DEF StartBus, Loops
<1>3. CASE BusLoopEnds
  BY <1>3 DEF BusLoopEnds
<1>4. CASE StopWorkers
  BY <1>4 DEF StopWorkers
<1>5. CASE CloseDatabase
  BY <1>5 DEF CloseDatabase
<1>6. CASE Join
  BY <1>6 DEF Join
<1> QED BY <1>1, <1>2, <1>3, <1>4, <1>5, <1>6 DEF MainNext

LEMMA TypeSignals == TypeInv /\ (Signal \/ HandlerNext) => TypeInv'
<1> SUFFICES ASSUME TypeInv, Signal \/ HandlerNext PROVE TypeInv'
  OBVIOUS
<1> USE DEF HandlerStep, notifierVars, HandlerAt, TypeInv, TypeOK
<1>1. CASE Signal
  BY <1>1, WorkersAssumption DEF Signal, Loops
<1>2. CASE StartAnalyzing
  <2>1. isAnalyzing' \in BOOLEAN /\ process' \in {"runs", "exited", "terminated"}
        /\ handler' = "idle"
    BY <1>2 DEF StartAnalyzing
  <2> QED BY <1>2, <2>1 DEF StartAnalyzing
<1>3. CASE ExitHandler
  <2>1. ASSUME NEW l \in Loops, NEW n \in Loops \cup {"idle"}, NEW x, StopLoop(l, n, x) PROVE TypeInv'
    <3>1. running' \in [Loops -> BOOLEAN] /\ process' \in {"runs", "exited", "terminated"}
          /\ handler' = n /\ UNCHANGED isAnalyzing
      BY <2>1 DEF StopLoop
    <3> QED BY <2>1, <3>1 DEF StopLoop
  <2> QED BY <1>3, <2>1 DEF ExitHandler, Loops, Workers
<1> QED BY <1>1, <1>2, <1>3 DEF HandlerNext

\* The steps that all three threads have, and an exception in one of them.
LEMMA TypeLoop ==
    ASSUME TypeInv, NEW w \in Workers, LoopNext(w) \/ Throws(w)
    PROVE  TypeInv'
<1> USE DEF WorkerStep, notifierVars, At, Goto, TypeInv, TypeOK, Workers, LoopLabels, Labels
<1>1. CASE StartLoop(w)
  BY <1>1 DEF StartLoop, Loops
<1>2. CASE While(w)
  BY <1>2 DEF While
<1>3. CASE Sleep(w)
  BY <1>3 DEF Sleep
<1>4. CASE Throws(w)
  BY <1>4 DEF Throws
<1> QED BY <1>1, <1>2, <1>3, <1>4 DEF LoopNext

LEMMA TypeAnalyzer == TypeInv /\ (AnalyzerNext \/ AnalyzeThrows) => TypeInv'
<1> SUFFICES ASSUME TypeInv, AnalyzerNext \/ AnalyzeThrows PROVE TypeInv'
  OBVIOUS
<1> USE DEF AnalyzerStep, WorkerStep, notifierVars, At, Goto, Workers, LoopLabels, Labels
<1>1. CASE LoopNext("analyzer") \/ AnalyzeThrows
  BY <1>1, TypeLoop DEF AnalyzeThrows
<1>2. CASE CheckAnalyzing
  <2>1. CASE isAnalyzing
    BY <1>2, <2>1 DEF CheckAnalyzing, TypeInv, TypeOK, Objects
  <2>2. CASE ~ isAnalyzing
    BY <1>2, <2>2 DEF CheckAnalyzing, TypeInv, TypeOK
  <2> QED BY <2>1, <2>2
<1>3. ASSUME NEW o \in Objects, Analyze(o) PROVE TypeInv'
  <2>1. /\ reports' \in 0..MaxReports
        /\ messages' \in Seq(1..MaxReports)
        /\ messages # <<>> => messages' # <<>>
    <3>1. messages \in Seq(1..MaxReports) /\ reports \in 0..MaxReports
      BY DEF TypeInv, TypeOK
    <3>2. CASE UNCHANGED <<reports, messages>>
      BY <3>1, <3>2
    <3>3. CASE reports < MaxReports /\ reports' = reports + 1 /\ messages' = Append(messages, reports')
      <4>1. reports' \in 1..MaxReports
        BY <3>1, <3>3, WorkersAssumption
      <4> QED BY <3>1, <3>3, <4>1
    <3> QED BY <1>3, <3>2, <3>3 DEF Analyze
  <2>2. {messages', mail, mailed} \subseteq Seq(1..MaxReports)
    BY <2>1 DEF TypeInv, TypeOK
  <2> QED BY <1>3, <2>1, <2>2 DEF Analyze, TypeInv, TypeOK
<1>4. CASE ClearAnalyzing
  <2>1. isAnalyzing' \in BOOLEAN
    BY <1>4 DEF ClearAnalyzing
  <2> QED BY <1>4, <2>1 DEF ClearAnalyzing, TypeInv, TypeOK
<1> QED BY <1>1, <1>2, <1>3, <1>4 DEF AnalyzerNext

LEMMA ContentsType == ASSUME NEW S, NEW s \in Seq(S) PROVE Contents(s) \subseteq S
BY DEF Contents

LEMMA HeadTailType ==
    ASSUME NEW S, NEW s \in Seq(S), s # <<>>
    PROVE  Head(s) \in S /\ Tail(s) \in Seq(S)
OBVIOUS

LEMMA TypeNotifier == TypeInv /\ NotifierNext => TypeInv'
<1> SUFFICES ASSUME TypeInv, NotifierNext PROVE TypeInv'
  OBVIOUS
<1>0. messages \in Seq(1..MaxReports) /\ mail \in Seq(1..MaxReports) /\ mailed \in Seq(1..MaxReports)
  BY DEF TypeInv, TypeOK
<1> USE DEF NotifierStep, WorkerStep, notifierVars, At, Goto, Workers, LoopLabels, Labels
<1>1. CASE LoopNext("notifier")
  BY <1>1, TypeLoop
<1>2. CASE IsMessageAvailable
  BY <1>2 DEF IsMessageAvailable, TypeInv, TypeOK
<1>3. CASE GetMessage
  <2>1. messages # <<>>
    BY <1>3 DEF GetMessage, TypeInv, TypeOK
  <2>2. Head(messages) \in 1..MaxReports /\ Tail(messages) \in Seq(1..MaxReports)
    BY <1>0, <2>1, HeadTailType
  <2>3. Append(mail, Head(messages)) \in Seq(1..MaxReports)
    BY <1>0, <2>2
  <2>4. {messages', mail', mailed'} \subseteq Seq(1..MaxReports)
    BY <1>0, <1>3, <2>2, <2>3 DEF GetMessage
  <2> QED BY <1>3, <2>4 DEF GetMessage, TypeInv, TypeOK
<1>4. ASSUME Fail, worker["notifier"] \in {"lookup", "send"} PROVE TypeInv'
  <2>1. lost' \subseteq 1..MaxReports
    BY <1>0, <1>4, ContentsType DEF Fail, TypeInv, TypeOK
  <2>2. {messages', mail', mailed'} \subseteq Seq(1..MaxReports)
    BY <1>0, <1>4 DEF Fail
  <2> QED BY <1>4, <2>1, <2>2 DEF Fail, TypeInv, TypeOK
<1>5. CASE GetDetectionResults
  <2>1. CASE Fail
    BY <1>4, <1>5, <2>1 DEF GetDetectionResults
  <2>2. CASE Goto("notifier", "compose") /\ UNCHANGED notifierVars /\ NotifierStep
    BY <1>5, <2>2 DEF GetDetectionResults, TypeInv, TypeOK
  <2> QED BY <1>5, <2>1, <2>2 DEF GetDetectionResults
<1>6. CASE SendMail
  <2>1. CASE Fail
    BY <1>4, <1>6, <2>1 DEF SendMail
  <2>2. CASE mailed' = mailed \o mail /\ mail' = <<>> /\ Goto("notifier", "sleep")
             /\ UNCHANGED <<messages, lost>> /\ NotifierStep
    <3>1. mailed \o mail \in Seq(1..MaxReports)
      BY <1>0
    <3>2. {messages', mail', mailed'} \subseteq Seq(1..MaxReports)
      BY <1>0, <2>2, <3>1
    <3> QED BY <1>6, <2>2, <3>2 DEF SendMail, TypeInv, TypeOK
  <2> QED BY <1>6, <2>1, <2>2 DEF SendMail
<1> QED BY <1>1, <1>2, <1>3, <1>5, <1>6 DEF NotifierNext

LEMMA TypeWeb == TypeInv /\ (WebNext \/ WebThrows) => TypeInv'
<1> SUFFICES ASSUME TypeInv, WebNext \/ WebThrows PROVE TypeInv'
  OBVIOUS
<1> USE DEF WebStep, WorkerStep, notifierVars, At, Goto, Workers, LoopLabels, Labels
<1>1. CASE LoopNext("web") \/ WebThrows
  BY <1>1, TypeLoop DEF WebThrows
<1>2. CASE WaitForData
  BY <1>2 DEF WaitForData, TypeInv, TypeOK
<1>3. CASE ReadAndExecuteCommand
  BY <1>3 DEF ReadAndExecuteCommand, TypeInv, TypeOK
<1> QED BY <1>1, <1>2, <1>3 DEF WebNext

LEMMA TypeStep == TypeInv /\ [Next]_vars => TypeInv'
<1> SUFFICES ASSUME TypeInv, [Next]_vars PROVE TypeInv'
  OBVIOUS
<1>1. CASE BusLoopThrows
  BY <1>1 DEF BusLoopThrows, MainStep, signalVars, notifierVars, TypeInv, TypeOK
<1>2. CASE UNCHANGED vars
  BY <1>2 DEF vars, signalVars, notifierVars, TypeInv, TypeOK
<1> QED BY <1>1, <1>2, TypeMain, TypeSignals, TypeAnalyzer, TypeNotifier, TypeWeb DEF Next, Ended

\* Type correctness of the server's life.  GetMessage never finds an empty queue, although
\* the analyzer works on it too, and no mail is sent without a message.
THEOREM TypeCorrect == Spec => []TypeOK
<1>1. Spec => []TypeInv
  BY TypeInit, TypeStep, PTL DEF Spec
<1>2. TypeInv => TypeOK
  BY DEF TypeInv
<1> QED BY <1>1, <1>2, PTL

-----------------------------------------------------------------------------
(***************************************************************************)
(* Where the reports are.  The analyzer adds at the end of the queue while *)
(* the notifier takes from its front, and each list holds a report once.   *)
(***************************************************************************)
Distinct(s) == \A i, j \in DOMAIN s : s[i] = s[j] => i = j

Queued == Contents(messages)
Composed == Contents(mail)
Delivered == Contents(mailed)

ReportInv ==
    /\ TypeInv
    /\ Distinct(messages) /\ Distinct(mail) /\ Distinct(mailed)
    /\ Queued \cup Composed \cup Delivered \cup lost = 1..reports
    /\ Queued \cap (Composed \cup Delivered \cup lost) = {}
    /\ Composed \cap (Delivered \cup lost) = {} /\ Delivered \cap lost = {}

\* Lists that grow at the end and shrink at the front.
LEMMA AppendFacts ==
    ASSUME NEW S, NEW s \in Seq(S), NEW e
    PROVE  LET t == Append(s, e) IN
           /\ DOMAIN s = 1..Len(s) /\ Len(s) \in Nat /\ DOMAIN t = 1..(Len(s) + 1)
           /\ t[Len(s) + 1] = e /\ \A i \in 1..Len(s) : t[i] = s[i]
OBVIOUS

LEMMA TailFacts ==
    ASSUME NEW S, NEW s \in Seq(S), s # <<>>
    PROVE  /\ DOMAIN s = 1..Len(s) /\ Len(s) \in Nat \ {0} /\ Head(s) = s[1]
           /\ DOMAIN Tail(s) = 1..(Len(s) - 1)
           /\ \A i \in 1..(Len(s) - 1) : Tail(s)[i] = s[i + 1]
OBVIOUS

LEMMA DistinctAppend ==
    ASSUME NEW S, NEW s \in Seq(S), NEW e, Distinct(s), e \notin Contents(s)
    PROVE  Distinct(Append(s, e)) /\ Contents(Append(s, e)) = Contents(s) \cup {e}
<1> DEFINE t == Append(s, e)
<1>1. /\ DOMAIN s = 1..Len(s) /\ Len(s) \in Nat /\ DOMAIN t = 1..(Len(s) + 1)
      /\ t[Len(s) + 1] = e /\ \A i \in 1..Len(s) : t[i] = s[i]
  BY AppendFacts
<1> HIDE DEF t
<1>2. \A i \in DOMAIN t : i = Len(s) + 1 \/ i \in DOMAIN s
  BY <1>1
<1>3. \A i \in DOMAIN s : i \in DOMAIN t /\ t[i] = s[i] /\ t[i] # e
  BY <1>1 DEF Contents
<1>4. Distinct(t)
  BY <1>1, <1>2, <1>3 DEF Distinct
<1>5. Len(s) + 1 \in DOMAIN t
  BY <1>1
<1>6. Contents(t) = Contents(s) \cup {e}
  BY <1>1, <1>2, <1>3, <1>5 DEF Contents
<1> QED BY <1>4, <1>6 DEF t

LEMMA DistinctTail ==
    ASSUME NEW S, NEW s \in Seq(S), s # <<>>, Distinct(s)
    PROVE  /\ Distinct(Tail(s)) /\ Contents(s) = {Head(s)} \cup Contents(Tail(s))
           /\ Head(s) \notin Contents(Tail(s))
<1> DEFINE t == Tail(s)
<1>1. /\ DOMAIN s = 1..Len(s) /\ Len(s) \in Nat \ {0} /\ Head(s) = s[1]
      /\ DOMAIN t = 1..(Len(s) - 1) /\ \A i \in 1..(Len(s) - 1) : t[i] = s[i + 1]
  BY TailFacts
<1> HIDE DEF t
<1>2. \A i \in DOMAIN t : i + 1 \in DOMAIN s /\ t[i] = s[i + 1] /\ i + 1 # 1
  BY <1>1
<1>3. \A i \in DOMAIN s : i = 1 \/ (i - 1 \in DOMAIN t /\ t[i - 1] = s[i])
  BY <1>1
<1>4. Distinct(t)
  <2>1. SUFFICES ASSUME NEW i \in DOMAIN t, NEW j \in DOMAIN t, t[i] = t[j] PROVE i = j
    BY DEF Distinct
  <2>2. i + 1 = j + 1
    BY <1>2, <2>1 DEF Distinct
  <2> QED BY <1>1, <2>2
<1>5. 1 \in DOMAIN s
  BY <1>1
<1>6. Contents(s) = {Head(s)} \cup Contents(t)
  <2>1. Contents(s) \subseteq {Head(s)} \cup Contents(t)
    BY <1>1, <1>3 DEF Contents
  <2>2. Contents(t) \subseteq Contents(s)
    BY <1>2 DEF Contents
  <2> QED BY <1>1, <1>5, <2>1, <2>2 DEF Contents
<1>7. Head(s) \notin Contents(t)
  BY <1>1, <1>2, <1>5 DEF Contents, Distinct
<1> QED BY <1>4, <1>6, <1>7 DEF t

\* Two lists without a common member, one after the other.
LEMMA DistinctConcat ==
    ASSUME NEW S, NEW s \in Seq(S), NEW t \in Seq(S), Distinct(s), Distinct(t),
           Contents(s) \cap Contents(t) = {}
    PROVE  /\ s \o t \in Seq(S) /\ Distinct(s \o t)
           /\ Contents(s \o t) = Contents(s) \cup Contents(t)
<1> DEFINE u == s \o t
<1>1. /\ u \in Seq(S) /\ DOMAIN u = 1..(Len(s) + Len(t))
      /\ DOMAIN s = 1..Len(s) /\ DOMAIN t = 1..Len(t) /\ Len(s) \in Nat /\ Len(t) \in Nat
      /\ \A i \in 1..Len(s) : u[i] = s[i]
      /\ \A i \in (Len(s) + 1)..(Len(s) + Len(t)) : u[i] = t[i - Len(s)]
  OBVIOUS
<1> HIDE DEF u
<1>2. \A i \in DOMAIN u : \/ i \in DOMAIN s /\ u[i] = s[i]
                          \/ i - Len(s) \in DOMAIN t /\ u[i] = t[i - Len(s)]
  BY <1>1
<1>3. \A i \in DOMAIN s : i \in DOMAIN u /\ u[i] = s[i]
  BY <1>1
<1>4. \A i \in DOMAIN t : i + Len(s) \in DOMAIN u /\ u[i + Len(s)] = t[i]
  BY <1>1
<1>5. ASSUME NEW i \in DOMAIN u, NEW j \in DOMAIN u, u[i] = u[j] PROVE i = j
  <2>1. CASE i \in DOMAIN s /\ u[i] = s[i] /\ j \in DOMAIN s /\ u[j] = s[j]
    BY <1>5, <2>1 DEF Distinct
  <2>2. CASE /\ i - Len(s) \in DOMAIN t /\ u[i] = t[i - Len(s)]
             /\ j - Len(s) \in DOMAIN t /\ u[j] = t[j - Len(s)]
    <3>1. i - Len(s) = j - Len(s)
      BY <1>5, <2>2 DEF Distinct
    <3> QED BY <1>1, <3>1
  <2>3. \A k \in DOMAIN s, m \in DOMAIN t : s[k] # t[m]
    BY DEF Contents
  <2> QED BY <1>2, <1>5, <2>1, <2>2, <2>3
<1>6. Contents(u) = Contents(s) \cup Contents(t)
  <2>1. Contents(u) \subseteq Contents(s) \cup Contents(t)
    BY <1>2 DEF Contents
  <2>2. Contents(s) \subseteq Contents(u)
    BY <1>3 DEF Contents
  <2>3. Contents(t) \subseteq Contents(u)
    BY <1>4 DEF Contents
  <2> QED BY <2>1, <2>2, <2>3
<1> QED BY <1>1, <1>5, <1>6 DEF Distinct, u

\* A member of such a list is at one position.
LEMMA OnePosition ==
    ASSUME NEW s, Distinct(s), NEW e
    PROVE  Cardinality({i \in DOMAIN s : s[i] = e}) = IF e \in Contents(s) THEN 1 ELSE 0
<1>1. CASE e \in Contents(s)
  <2>1. PICK k \in DOMAIN s : s[k] = e
    BY <1>1 DEF Contents
  <2>2. {i \in DOMAIN s : s[i] = e} = {k}
    BY <2>1 DEF Distinct
  <2> QED BY <1>1, <2>2, FS_Singleton
<1>2. CASE e \notin Contents(s)
  <2>1. {i \in DOMAIN s : s[i] = e} = {}
    BY <1>2 DEF Contents
  <2> QED BY <1>2, <2>1, FS_EmptySet
<1> QED BY <1>1, <1>2

LEMMA ListTypes ==
    ASSUME TypeInv
    PROVE  /\ messages \in Seq(1..MaxReports) /\ mail \in Seq(1..MaxReports)
           /\ mailed \in Seq(1..MaxReports) /\ reports \in Nat
BY WorkersAssumption DEF TypeInv, TypeOK

LEMMA ReportInit == Init => ReportInv
<1> SUFFICES ASSUME Init PROVE ReportInv
  OBVIOUS
<1>1. TypeInv
  BY TypeInit
<1>2. messages = <<>> /\ mail = <<>> /\ mailed = <<>> /\ lost = {} /\ reports = 0
  BY DEF Init
<1>3. Distinct(<<>>) /\ Contents(<<>>) = {} /\ 1..0 = {}
  BY DEF Distinct, Contents
<1> QED BY <1>1, <1>2, <1>3 DEF ReportInv, Queued, Composed, Delivered

LEMMA ReportUnmoved ==
    ASSUME ReportInv, TypeInv', UNCHANGED <<reports, messages, mail, mailed, lost>>
    PROVE  ReportInv'
BY DEF ReportInv, Queued, Composed, Delivered

LEMMA ReportAnalyze ==
    ASSUME ReportInv, TypeInv', NEW o \in Objects, Analyze(o) PROVE ReportInv'
<1>1. CASE UNCHANGED <<reports, messages>>
  BY <1>1, ReportUnmoved DEF Analyze, AnalyzerStep
<1>2. CASE reports' = reports + 1 /\ messages' = Append(messages, reports')
  <2>1. UNCHANGED <<mail, mailed, lost, Composed, Delivered>>
    BY DEF Analyze, AnalyzerStep, Composed, Delivered
  <2>2. messages \in Seq(1..MaxReports) /\ reports \in Nat /\ reports' \in Nat
    BY <1>2, ListTypes DEF ReportInv
  <2>3. reports' \notin 1..reports /\ 1..reports' = (1..reports) \cup {reports'}
    BY <1>2, <2>2
  <2>4. reports' \notin Queued \cup Composed \cup Delivered \cup lost
    BY <2>3 DEF ReportInv
  <2>5. Distinct(messages') /\ Queued' = Queued \cup {reports'}
    BY <1>2, <2>2, <2>4, DistinctAppend DEF ReportInv, Queued
  <2> QED BY <2>1, <2>3, <2>4, <2>5 DEF ReportInv
<1> QED BY <1>1, <1>2 DEF Analyze

LEMMA ReportGet == ASSUME ReportInv, TypeInv', GetMessage PROVE ReportInv'
<1> DEFINE x == Head(messages)
<1>0. /\ messages \in Seq(1..MaxReports) /\ messages # <<>> /\ mail \in Seq(1..MaxReports)
      /\ mail' = Append(mail, x) /\ messages' = Tail(messages)
      /\ UNCHANGED <<mailed, lost, reports>>
  BY ListTypes DEF GetMessage, At, NotifierStep, ReportInv, TypeInv, TypeOK
<1>1. Distinct(messages') /\ Queued = {x} \cup Queued' /\ x \notin Queued'
  BY <1>0, DistinctTail DEF ReportInv, Queued
<1> HIDE DEF x
<1>2. x \notin Composed \cup Delivered \cup lost
  BY <1>1 DEF ReportInv
<1>3. Distinct(mail') /\ Composed' = Composed \cup {x}
  BY <1>0, <1>2, DistinctAppend DEF ReportInv, Composed
<1>4. UNCHANGED Delivered
  BY <1>0 DEF Delivered
<1> QED BY <1>0, <1>1, <1>2, <1>3, <1>4 DEF ReportInv

LEMMA ReportFail == ASSUME ReportInv, TypeInv', Fail PROVE ReportInv'
<1>1. Distinct(mail') /\ Composed' = {} /\ lost' = lost \cup Composed
  BY DEF Fail, Distinct, Composed, Contents
<1>2. UNCHANGED <<messages, mailed, reports, Queued, Delivered>>
  BY DEF Fail, NotifierStep, Queued, Delivered
<1> QED BY <1>1, <1>2 DEF ReportInv

LEMMA ReportSend == ASSUME ReportInv, TypeInv', SendMail PROVE ReportInv'
<1>1. CASE Fail
  BY <1>1, ReportFail
<1>2. CASE mailed' = mailed \o mail /\ mail' = <<>> /\ UNCHANGED <<messages, lost>> /\ NotifierStep
  <2>1. mailed \in Seq(1..MaxReports) /\ mail \in Seq(1..MaxReports)
    BY ListTypes DEF ReportInv
  <2>2. Distinct(mailed') /\ Delivered' = Delivered \cup Composed
    BY <1>2, <2>1, DistinctConcat DEF ReportInv, Delivered, Composed
  <2>3. Distinct(mail') /\ Composed' = {}
    BY <1>2 DEF Distinct, Composed, Contents
  <2>4. UNCHANGED <<messages, lost, reports, Queued>>
    BY <1>2 DEF NotifierStep, Queued
  <2> QED BY <2>2, <2>3, <2>4 DEF ReportInv
<1> QED BY <1>1, <1>2 DEF SendMail

LEMMA ReportStep == ReportInv /\ [Next]_vars => ReportInv'
<1> SUFFICES ASSUME ReportInv, [Next]_vars PROVE ReportInv'
  OBVIOUS
<1>0. TypeInv'
  BY TypeStep DEF ReportInv
<1>1. ASSUME NEW w \in Workers, LoopNext(w) \/ Throws(w) PROVE ReportInv'
  BY <1>0, <1>1, ReportUnmoved DEF LoopNext, StartLoop, While, Sleep, Throws, notifierVars
<1>2. CASE MainNext \/ BusLoopThrows
  BY <1>0, <1>2, ReportUnmoved DEF MainNext, Boot, Create, StartThread, StartBus, BusLoopEnds,
     StopWorkers, CloseDatabase, Join, BusLoopThrows, MainStep, notifierVars
<1>3. CASE Signal \/ HandlerNext
  BY <1>0, <1>3, ReportUnmoved DEF Signal, HandlerNext, StartAnalyzing, ExitHandler, StopLoop,
     HandlerStep, notifierVars
<1>4. CASE AnalyzerNext \/ AnalyzeThrows
  <2>1. CASE CheckAnalyzing \/ ClearAnalyzing
    BY <1>0, <2>1, ReportUnmoved DEF CheckAnalyzing, ClearAnalyzing, AnalyzerStep
  <2> QED BY <1>0, <1>1, <1>4, <2>1, ReportAnalyze DEF AnalyzerNext, AnalyzeThrows, Workers
<1>5. CASE NotifierNext
  <2>1. CASE IsMessageAvailable
    BY <1>0, <2>1, ReportUnmoved DEF IsMessageAvailable, NotifierStep, notifierVars
  <2>2. CASE GetDetectionResults
    BY <1>0, <2>2, ReportUnmoved, ReportFail DEF GetDetectionResults, NotifierStep, notifierVars
  <2> QED BY <1>0, <1>1, <1>5, <2>1, <2>2, ReportGet, ReportSend DEF NotifierNext, Workers
<1>6. CASE WebNext \/ WebThrows
  <2>1. CASE WaitForData \/ ReadAndExecuteCommand
    BY <1>0, <2>1, ReportUnmoved DEF WaitForData, ReadAndExecuteCommand, WebStep, notifierVars
  <2> QED BY <1>1, <1>6, <2>1 DEF WebNext, WebThrows, Workers
<1>7. CASE UNCHANGED vars
  BY <1>0, <1>7, ReportUnmoved DEF vars, notifierVars
<1> QED BY <1>2, <1>3, <1>4, <1>5, <1>6, <1>7 DEF Next, Ended

\* No report vanishes and none is mailed twice, for any number of reports and signals and
\* every interleaving of the analyzer, the notifier and main.
THEOREM ReportsAreAccounted == Spec => []ReportsAccounted
<1>1. ASSUME ReportInv PROVE ReportsAccounted
  <2> DEFINE v == messages \o mail
             ways == v \o mailed
  <2>1. /\ messages \in Seq(1..MaxReports) /\ mail \in Seq(1..MaxReports)
        /\ mailed \in Seq(1..MaxReports)
    BY <1>1, ListTypes DEF ReportInv
  <2>2. v \in Seq(1..MaxReports) /\ Distinct(v) /\ Contents(v) = Queued \cup Composed
    BY <1>1, <2>1, DistinctConcat DEF ReportInv, Queued, Composed
  <2> HIDE DEF v
  <2>3. Distinct(ways) /\ Contents(ways) = Queued \cup Composed \cup Delivered
    BY <1>1, <2>1, <2>2, DistinctConcat DEF ReportInv, Delivered
  <2> HIDE DEF ways
  <2>4. ASSUME NEW r \in 1..reports
        PROVE  Cardinality({i \in DOMAIN ways : ways[i] = r}) = IF r \in lost THEN 0 ELSE 1
    <3>1. r \in Contents(ways) <=> r \notin lost
      BY <1>1, <2>3 DEF ReportInv
    <3>2. Cardinality({i \in DOMAIN ways : ways[i] = r}) = IF r \in Contents(ways) THEN 1 ELSE 0
      BY <2>3, OnePosition
    <3> QED BY <3>1, <3>2
  <2> QED BY <2>4 DEF ReportsAccounted, ways, v
<1>2. Spec => []ReportInv
  BY ReportInit, ReportStep, PTL DEF Spec
<1> QED BY <1>1, <1>2, PTL

-----------------------------------------------------------------------------
(***************************************************************************)
(* The end.  A mail is written only inside SendMailNotification, and main  *)
(* exits only when every worker has left its loop.                         *)
(***************************************************************************)
ExitInv ==
    /\ TypeInv
    /\ process = "exited" => \A w \in Workers : worker[w] = "done"
    /\ mail # <<>> => worker["notifier"] \in {"lookup", "compose", "get", "send"}

LEMMA ExitStep == ExitInv /\ [Next]_vars => ExitInv'
<1> SUFFICES ASSUME ExitInv, [Next]_vars PROVE ExitInv'
  OBVIOUS
<1>0. TypeInv' /\ worker \in [Workers -> Labels]
  BY TypeStep DEF ExitInv, TypeInv
<1>a. ASSUME process = "runs", process' # "exited", UNCHANGED <<mail, worker>> PROVE ExitInv'
  BY <1>0, <1>a DEF ExitInv
<1>b. ASSUME process = "runs", process' # "exited", UNCHANGED mail,
             worker'["notifier"] = worker["notifier"] \/ mail = <<>>
      PROVE  ExitInv'
  BY <1>0, <1>b DEF ExitInv
<1>c. ASSUME NEW w \in Workers, LoopNext(w) PROVE ExitInv'
  <2>1. process = "runs" /\ process' = "runs" /\ UNCHANGED mail
    BY <1>c DEF LoopNext, StartLoop, While, Sleep, At, notifierVars
  <2>2. w = "notifier" => mail = <<>>
    BY <1>c DEF LoopNext, StartLoop, While, Sleep, At, ExitInv
  <2>3. w # "notifier" => worker'["notifier"] = worker["notifier"]
    BY <1>0, <1>c DEF LoopNext, StartLoop, While, Sleep, Goto, Workers
  <2> QED BY <1>b, <2>1, <2>2, <2>3
<1>1. CASE MainNext \/ BusLoopThrows
  <2>1. CASE Join
    BY <1>0, <2>1 DEF Join, MainStep, notifierVars, ExitInv
  <2>2. CASE Boot
    <3>1. process = "runs" /\ process' = "runs" /\ UNCHANGED mail
      BY <2>2 DEF Boot, Create, StartThread, MainAt, MainStep, notifierVars
    <3>2. worker'["notifier"] = worker["notifier"] \/ mail = <<>>
      BY <1>0, <2>2 DEF Boot, Create, StartThread, MainAt, MainStep, ExitInv, TypeInv, TypeOK, Workers
    <3> QED BY <1>b, <3>1, <3>2
  <2>3. CASE StartBus \/ BusLoopEnds \/ StopWorkers \/ CloseDatabase \/ BusLoopThrows
    BY <1>a, <2>3 DEF StartBus, BusLoopEnds, StopWorkers, CloseDatabase, BusLoopThrows,
                      MainAt, MainStep, notifierVars
  <2> QED BY <1>1, <2>1, <2>2, <2>3 DEF MainNext
<1>2. CASE Signal \/ HandlerNext
  BY <1>a, <1>2 DEF Signal, HandlerNext, StartAnalyzing, ExitHandler, StopLoop, HandlerAt,
     HandlerStep, notifierVars
<1>3. CASE AnalyzerNext
  <2>1. CASE CheckAnalyzing \/ ClearAnalyzing \/ \E o \in Objects : Analyze(o)
    <3>1. process = "runs" /\ process' = "runs" /\ UNCHANGED mail
      BY <2>1 DEF CheckAnalyzing, ClearAnalyzing, Analyze, AnalyzerStep, At
    <3>2. worker'["notifier"] = worker["notifier"]
      BY <1>0, <2>1 DEF CheckAnalyzing, ClearAnalyzing, Analyze, Goto, Workers
    <3> QED BY <1>b, <3>1, <3>2
  <2> QED BY <1>3, <1>c, <2>1 DEF AnalyzerNext, Workers
<1>4. CASE NotifierNext
  <2>0. "notifier" \in Workers
    BY DEF Workers
  <2>1. CASE IsMessageAvailable
    BY <1>0, <2>0, <2>1 DEF IsMessageAvailable, NotifierStep, notifierVars, ExitInv, At, Goto
  <2>2. CASE GetMessage
    BY <1>0, <2>0, <2>2 DEF GetMessage, NotifierStep, ExitInv, At, Goto
  <2>3. CASE GetDetectionResults
    BY <1>0, <2>0, <2>3 DEF GetDetectionResults, Fail, NotifierStep, notifierVars, ExitInv, At, Goto
  <2>4. CASE SendMail
    BY <1>0, <2>0, <2>4 DEF SendMail, Fail, NotifierStep, ExitInv, At, Goto
  <2> QED BY <1>4, <1>c, <2>0, <2>1, <2>2, <2>3, <2>4 DEF NotifierNext
<1>5. CASE WebNext
  <2>1. CASE WaitForData \/ ReadAndExecuteCommand
    <3>1. process = "runs" /\ process' = "runs" /\ UNCHANGED mail
      BY <2>1 DEF WaitForData, ReadAndExecuteCommand, WebStep, At, notifierVars
    <3>2. worker'["notifier"] = worker["notifier"]
      BY <1>0, <2>1 DEF WaitForData, ReadAndExecuteCommand, Goto, Workers
    <3> QED BY <1>b, <3>1, <3>2
  <2> QED BY <1>5, <1>c, <2>1 DEF WebNext, Workers
<1>6. CASE AnalyzeThrows \/ WebThrows
  BY <1>a, <1>6 DEF AnalyzeThrows, WebThrows, Throws, At, notifierVars
<1>7. CASE UNCHANGED vars
  BY <1>0, <1>7 DEF vars, notifierVars, ExitInv
<1> QED BY <1>1, <1>2, <1>3, <1>4, <1>5, <1>6, <1>7 DEF Next, Ended

\* main's joins wait for all three workers: an exit with status 0 leaves no analysis half
\* done and no mail half written, whenever the signals come.
THEOREM ExitIsClean == Spec => []CleanExit
<1>1. Init => ExitInv
  <2> SUFFICES ASSUME Init PROVE ExitInv
    OBVIOUS
  <2>1. process = "runs" /\ mail = <<>>
    BY DEF Init
  <2> QED BY <2>1, TypeInit DEF ExitInv
<1>2. ExitInv => CleanExit
  <2> SUFFICES ASSUME ExitInv, process = "exited" PROVE todo = {} /\ mail = <<>>
    BY DEF CleanExit
  <2>1. worker["analyzer"] = "done" /\ worker["notifier"] = "done"
    BY DEF ExitInv, Workers
  <2> QED BY <2>1 DEF ExitInv, TypeInv, TypeOK
<1> QED BY <1>1, <1>2, ExitStep, PTL DEF Spec

-----------------------------------------------------------------------------
(***************************************************************************)
(* Texts over stream sockets: NetworkText.                                 *)
(***************************************************************************)
\* The bytes of a message, and so all that is on the wire, are not 0.
Visible == Bytes \ {0}

\* SendText works on a message as long as a byte of the text is left for it.
SenderInv ==
    /\ text \in Seq(Visible) /\ offset \in Nat /\ sendPc # "failed"
    /\ sendPc \in {"length", "body"} => offset < Len(text)
    /\ sendPc = "body" => sent < Len(Frame)

\* A message that is received has a byte at least, and its length byte was counted.
ReceiverInv ==
    /\ channel \in Seq(Visible)
    /\ recvPc \in {"body", "message"} => length \in Visible /\ total \in Nat \ {0}

BuffersInv == BuffersHold /\ SenderInv /\ ReceiverInv

\* SendText cuts the text so that no message is longer than the limit.
LEMMA FrameType ==
    ASSUME SenderInv, offset < Len(text)
    PROVE  /\ Frame \in Seq(Visible)
           /\ Len(Frame) \in 2..MaxMessageLength
<1> USE NetworkAssumption
<1>1. text \in Seq(Visible) /\ offset \in Nat /\ Len(text) \in Nat
  BY DEF SenderInv
<1>2. CASE offset + MaxMessageLength <= Len(text)
  <2> DEFINE part == SubSeq(text, offset + 1, offset + MaxMessageLength - 1)
  <2>1. part \in Seq(Visible) /\ Len(part) = MaxMessageLength - 1
    BY <1>1, <1>2
  <2>2. <<TypeM>> \in Seq(Visible) /\ Len(<<TypeM>>) = 1
    BY DEF Visible
  <2>3. Frame = <<TypeM>> \o part
    BY <1>2 DEF Frame
  <2> QED BY <2>1, <2>2, <2>3
<1>3. CASE ~(offset + MaxMessageLength <= Len(text))
  <2> DEFINE part == SubSeq(text, offset + 1, Len(text))
  <2>1. part \in Seq(Visible) /\ Len(part) = Len(text) - offset
    BY <1>1
  <2>2. <<TypeL>> \in Seq(Visible) /\ Len(<<TypeL>>) = 1
    BY DEF Visible
  <2>3. Frame = <<TypeL>> \o part
    BY <1>3 DEF Frame
  <2>4. Len(part) \in 1..(MaxMessageLength - 1)
    BY <1>1, <1>3, <2>1
  <2> QED BY <2>1, <2>2, <2>3, <2>4
<1> QED BY <1>2, <1>3

\* The bytes left of a message of l bytes, t of them and of its length byte counted.
LEMMA Remainder ==
    ASSUME NEW l \in Nat, NEW t \in Nat, 1 <= t, t <= l
    PROVE  l + 1 - t \in 1..l /\ (t - 1) + (l + 1 - t) = l
OBVIOUS

LEMMA BuffersInit == SocketInit => BuffersInv
<1> SUFFICES ASSUME SocketInit PROVE BuffersInv
  OBVIOUS
<1> USE NetworkAssumption DEF SocketInit
<1>1. text \in Seq(Visible)
  BY DEF Visible
<1>2. BuffersHold
  BY DEF BuffersHold, Bytes
<1>3. SenderInv
  BY <1>1 DEF SenderInv
<1>4. ReceiverInv
  BY DEF ReceiverInv
<1> QED BY <1>2, <1>3, <1>4 DEF BuffersInv

LEMMA SenderStep == BuffersInv /\ (SendLength \/ SendBody \/ Disconnect) => BuffersInv'
<1> SUFFICES ASSUME BuffersInv, SendLength \/ SendBody \/ Disconnect PROVE BuffersInv'
  OBVIOUS
<1> USE NetworkAssumption
<1>0. BuffersHold /\ SenderInv /\ ReceiverInv
  BY DEF BuffersInv
<1>1. CASE SendLength
  <2>1. offset < Len(text)
    BY <1>0, <1>1 DEF SendLength, SenderInv
  <2>2. Len(Frame) \in Visible /\ Len(Frame) <= MaxMessageLength /\ Len(Frame) \in Nat
    BY <1>0, <2>1, FrameType DEF Visible, Bytes
  <2>3. sendPc' = "body" /\ sent' = 0 /\ channel' = Append(channel, Len(Frame))
    BY <1>1, <2>2 DEF SendLength
  <2>4. UNCHANGED <<path, text, offset, open, receiverVars, Frame>>
    BY <1>1 DEF SendLength, Frame
  <2>5. channel' \in Seq(Visible) /\ channel' \in Seq(Bytes)
    BY <1>0, <2>2, <2>3 DEF ReceiverInv, Visible
  <2>6. BuffersHold'
    BY <1>0, <2>3, <2>4, <2>5 DEF BuffersHold, receiverVars, LeftToReceive
  <2>7. SenderInv'
    BY <1>0, <2>1, <2>3, <2>4, FrameType DEF SenderInv
  <2>8. ReceiverInv'
    BY <1>0, <2>4, <2>5 DEF ReceiverInv, receiverVars
  <2> QED BY <2>6, <2>7, <2>8 DEF BuffersInv
<1>2. CASE SendBody
  <2> DEFINE left == Len(Frame) - sent
  <2>1. offset < Len(text) /\ Frame \in Seq(Visible) /\ Len(Frame) \in 2..MaxMessageLength
    BY <1>0, <1>2, FrameType DEF SendBody, SenderInv
  <2>2. PICK n \in 1..left :
           /\ channel' = channel \o SubSeq(Frame, sent + 1, sent + n)
           /\ sent' = sent + n
           /\ IF n < left
              THEN UNCHANGED <<offset, sendPc>>
              ELSE /\ offset' = offset + MaxMessageLength - 1
                   /\ sendPc' = IF offset' < Len(text) THEN "length" ELSE "sent"
    BY <1>2 DEF SendBody
  <2>3. UNCHANGED <<path, text, open, receiverVars>> /\ sendPc = "body"
    BY <1>2 DEF SendBody
  <2>4. sent \in Nat /\ n \in Nat /\ sent + n <= Len(Frame) /\ sent' \in 0..MaxMessageLength
    BY <1>0, <2>1, <2>2 DEF BuffersHold
  <2>5. SubSeq(Frame, sent + 1, sent + n) \in Seq(Visible)
    BY <2>1, <2>4
  <2>6. channel' \in Seq(Visible) /\ channel' \in Seq(Bytes)
    BY <1>0, <2>2, <2>5 DEF ReceiverInv, Visible
  <2>7. offset' \in Nat /\ sendPc' \in {"length", "body", "sent"}
    BY <1>0, <2>2, <2>3 DEF SenderInv
  <2>8. BuffersHold'
    BY <1>0, <2>3, <2>4, <2>6, <2>7 DEF BuffersHold, receiverVars, LeftToReceive
  <2>9. SenderInv'
    <3>1. CASE n < left
      <4>1. UNCHANGED <<offset, sendPc, text>> /\ sent' = sent + n
        BY <2>2, <2>3, <3>1
      <4>2. Frame' = Frame
        BY <4>1 DEF Frame
      <4>3. sent' < Len(Frame)
        BY <2>1, <2>4, <3>1, <4>1
      <4> QED BY <1>0, <4>1, <4>2, <4>3 DEF SenderInv
    <3>2. CASE ~(n < left)
      BY <1>0, <2>2, <2>3, <2>7, <3>2 DEF SenderInv
    <3> QED BY <3>1, <3>2
  <2>10. ReceiverInv'
    BY <1>0, <2>3, <2>6 DEF ReceiverInv, receiverVars
  <2> QED BY <2>8, <2>9, <2>10 DEF BuffersInv
<1>3. CASE Disconnect
  <2>1. BuffersHold'
    BY <1>0, <1>3 DEF Disconnect, BuffersHold, receiverVars, LeftToReceive
  <2>2. SenderInv'
    BY <1>0, <1>3 DEF Disconnect, SenderInv
  <2>3. ReceiverInv'
    BY <1>0, <1>3 DEF Disconnect, ReceiverInv, receiverVars
  <2> QED BY <2>1, <2>2, <2>3 DEF BuffersInv
<1> QED BY <1>1, <1>2, <1>3

\* A read leaves the message as long as it was, and what is left of it fits as before.
LEMMA ReceiverStepInv == BuffersInv /\ ReceiverNext => BuffersInv'
<1> SUFFICES ASSUME BuffersInv, ReceiverNext PROVE BuffersInv'
  OBVIOUS
<1> USE NetworkAssumption
<1>0. BuffersHold /\ SenderInv /\ ReceiverInv
  BY DEF BuffersInv
<1>1. UNCHANGED senderVars
  BY DEF ReceiverNext, RecvLength, RecvBody, EndMessage, RecvFails, ReceiverStep
<1>2. SenderInv'
  BY <1>0, <1>1 DEF SenderInv, senderVars, Frame
<1>3. BuffersHold' /\ ReceiverInv'
  <2>1. CASE RecvLength
    <3>1. length' \in Visible /\ channel' \in Seq(Visible) /\ channel' \in Seq(Bytes)
      BY <1>0, <2>1 DEF RecvLength, ReceiverInv, Visible
    <3>2. length' \in Bytes /\ length' \in Nat
      BY <3>1 DEF Visible, Bytes
    <3>3. message' \in Seq(Bytes) /\ Len(message') = length'
      <4>1. message' = [i \in 1..length' |-> 0] /\ 0 \in Bytes
        BY <2>1 DEF RecvLength, Bytes
      <4> QED BY <3>2, <4>1
    <3>4. total' = 1 /\ recvPc' \in {"body", "message"} /\ UNCHANGED collected
      BY <2>1 DEF RecvLength, After
    <3>5. LeftToReceive' \in 1..BufferLength /\ (total' - 1) + LeftToReceive' = Len(message')
      <4>1. total' \in Nat /\ 1 <= total' /\ total' <= length' /\ length' <= MaxByte
        BY <3>1, <3>2, <3>4 DEF Visible, Bytes
      <4>2. LeftToReceive' = length' + 1 - total'
        BY DEF LeftToReceive
      <4>3. LeftToReceive' \in 1..length' /\ (total' - 1) + LeftToReceive' = length'
        BY ONLY <3>2, <4>1, <4>2, Remainder
      <4>4. LeftToReceive' \in 1..BufferLength
        BY <3>2, <4>1, <4>3
      <4> QED BY <3>3, <4>3, <4>4, Zenon
    <3>6. BuffersHold'
      <4>1. total' \in 0..(MaxByte + 1)
        BY <3>4
      <4> QED BY <1>0, <1>1, <3>1, <3>2, <3>3, <3>4, <3>5, <4>1 DEF BuffersHold, senderVars
    <3> QED BY <3>1, <3>4, <3>6 DEF ReceiverInv
  <2>2. CASE RecvBody
    <3>1. PICK n \in 1..Len(channel) :
             /\ n <= LeftToReceive
             /\ message' = [i \in DOMAIN message |->
                               IF i \in total..(total + n - 1)
                               THEN channel[i - total + 1] ELSE message[i]]
             /\ channel' = SubSeq(channel, n + 1, Len(channel))
             /\ total' = total + n
             /\ recvPc' = After(total', length)
      BY <2>2 DEF RecvBody
    <3>2. recvPc = "body" /\ UNCHANGED <<length, collected>>
      BY <2>2 DEF RecvBody
    <3>3. /\ length \in Visible /\ length \in Nat /\ length <= MaxByte
          /\ total \in Nat \ {0} /\ n \in Nat \ {0}
          /\ total + n <= length + 1
      BY <1>0, <3>1, <3>2 DEF BuffersHold, ReceiverInv, LeftToReceive, Visible, Bytes
    <3>4. channel' \in Seq(Visible) /\ channel' \in Seq(Bytes)
      BY <1>0, <3>1 DEF ReceiverInv, Visible
    <3>5. message' \in Seq(Bytes) /\ Len(message') = length
      <4>1. \A i \in 1..length : i \in total..(total + n - 1) => channel[i - total + 1] \in Bytes
        BY <1>0, <3>1, <3>3 DEF BuffersHold
      <4>2. \A i \in 1..length : message[i] \in Bytes
        BY <1>0 DEF BuffersHold
      <4>3. DOMAIN message = 1..length
        BY <1>0 DEF BuffersHold
      <4> DEFINE byte(i) == IF i \in total..(total + n - 1)
                            THEN channel[i - total + 1] ELSE message[i]
      <4>4. message' = [i \in 1..length |-> byte(i)]
        BY <3>1, <4>3
      <4>5. \A i \in 1..length : byte(i) \in Bytes
        BY <4>1, <4>2
      <4> HIDE DEF byte
      <4> QED BY <3>3, <4>4, <4>5
    <3>6. total' \in Nat \ {0} /\ total' \in 0..(MaxByte + 1)
      BY <3>1, <3>3
    <3>7. recvPc' \in {"body", "message"} /\ (recvPc' = "body" => total' <= length)
      BY <3>1, <3>3, <3>6 DEF After, Incomplete
    <3>8. recvPc' = "body" => /\ LeftToReceive' \in 1..BufferLength
                              /\ (total' - 1) + LeftToReceive' = Len(message')
      <4>1. LeftToReceive' = length + 1 - total'
        BY <3>2 DEF LeftToReceive
      <4>2. ASSUME recvPc' = "body"
            PROVE  LeftToReceive' \in 1..length /\ (total' - 1) + LeftToReceive' = length
        <5>1. total' \in Nat /\ 1 <= total' /\ total' <= length
          BY <3>6, <3>7, <4>2
        <5> QED BY ONLY <3>3, <4>1, <5>1, Remainder
      <4> QED BY <3>3, <3>5, <4>2
    <3>9. BuffersHold'
      BY <1>0, <1>1, <3>2, <3>3, <3>4, <3>5, <3>6, <3>7, <3>8 DEF BuffersHold, senderVars
    <3> QED BY <3>2, <3>3, <3>4, <3>6, <3>9 DEF ReceiverInv
  <2>3. CASE EndMessage
    <3>1. message \in Seq(Bytes) /\ message # <<>>
      BY <1>0, <2>3 DEF EndMessage, BuffersHold, ReceiverInv, Visible
    <3>2. collected' \in Seq(Bytes)
      BY <1>0, <2>3, <3>1 DEF EndMessage, BuffersHold
    <3>3. recvPc' \in {"length", "done"} /\ UNCHANGED <<channel, length, total, message>>
      BY <2>3 DEF EndMessage
    <3> QED BY <1>0, <1>1, <3>2, <3>3 DEF BuffersHold, ReceiverInv, senderVars
  <2>4. CASE RecvFails
    BY <1>0, <1>1, <2>4 DEF RecvFails, BuffersHold, ReceiverInv, senderVars
  <2> QED BY <2>1, <2>2, <2>3, <2>4 DEF ReceiverNext
<1> QED BY <1>2, <1>3 DEF BuffersInv

LEMMA BuffersStep == BuffersInv /\ [SocketNext]_socketVars => BuffersInv'
<1>1. BuffersInv /\ UNCHANGED socketVars => BuffersInv'
  BY DEF socketVars, senderVars, receiverVars, BuffersInv, BuffersHold, SenderInv, ReceiverInv,
     LeftToReceive, Frame
<1> QED BY <1>1, SenderStep, ReceiverStepInv DEF SocketNext

\* RecvMessage writes only into its message and reads only into its buffer, however the
\* bytes arrive and whatever byte it takes for a length.
THEOREM BuffersNeverOverrun == SocketSpec => []BuffersHold
<1>1. SocketSpec => []BuffersInv
  BY BuffersInit, BuffersStep, PTL DEF SocketSpec
<1>2. BuffersInv => BuffersHold
  BY DEF BuffersInv
<1> QED BY <1>1, <1>2, PTL

\* SendText never meets MessageTooLongException, whatever the length of the text.
THEOREM MessagesAlwaysFit == SocketSpec => []MessagesFit
<1>1. SocketSpec => []BuffersInv
  BY BuffersInit, BuffersStep, PTL DEF SocketSpec
<1>2. BuffersInv => MessagesFit
  BY DEF BuffersInv, SenderInv, MessagesFit
<1> QED BY <1>1, <1>2, PTL

-----------------------------------------------------------------------------
(***************************************************************************)
(* The messages of a text t, counted from 0, and the bytes they put on the *)
(* wire.                                                                   *)
(***************************************************************************)

\* How much of the text, and how much of the wire, comes before message m.
Start(m) == m * (MaxMessageLength - 1)
Place(m) == m * (MaxMessageLength + 1)

IsLast(t, m) == Start(m) + MaxMessageLength > Len(t)

Message(t, m) ==
    IF IsLast(t, m)
    THEN <<TypeL>> \o SubSeq(t, Start(m) + 1, Len(t))
    ELSE <<TypeM>> \o SubSeq(t, Start(m) + 1, Start(m) + MaxMessageLength - 1)

Size(t, m) == Len(Message(t, m))

\* The length byte is the byte 0 of a message.
WireByte(t, m, i) == IF i = 0 THEN Size(t, m) ELSE Message(t, m)[i]

\* The bytes ch are those of the wire from place "at" on, up to byte j of message k.
Wire(ch, t, at, k, j) ==
    /\ at + Len(ch) = Place(k) + j
    /\ \A m \in 0..k : \A i \in 0..Size(t, m) :
          at <= Place(m) + i /\ Place(m) + i < Place(k) + j
             => ch[Place(m) + i + 1 - at] = WireByte(t, m, i)

\* The part of a sequence after its first a elements, up to the b-th.
LEMMA PartOf ==
    ASSUME NEW S, NEW s \in Seq(S), NEW a \in Nat, NEW b \in Nat, a <= b, b <= Len(s)
    PROVE  /\ SubSeq(s, a + 1, b) \in Seq(S)
           /\ Len(SubSeq(s, a + 1, b)) = b - a
           /\ \A i \in 1..(b - a) : SubSeq(s, a + 1, b)[i] = s[a + i]
OBVIOUS

\* A sequence after another.
LEMMA Joined ==
    ASSUME NEW S, NEW s \in Seq(S), NEW e \in Seq(S), NEW n \in Nat, n = Len(s), NEW m \in Nat, m = Len(e)
    PROVE  /\ s \o e \in Seq(S) /\ Len(s \o e) = n + m
           /\ \A i \in 1..n : (s \o e)[i] = s[i]
           /\ \A i \in 1..m : (s \o e)[n + i] = e[i]
OBVIOUS

LEMMA StartNext ==
    ASSUME NEW m \in Nat
    PROVE  /\ Start(m) \in Nat /\ Place(m) \in Nat
           /\ Start(m + 1) = Start(m) + MaxMessageLength - 1
           /\ Place(m + 1) = Place(m) + MaxMessageLength + 1
<1>1. MaxMessageLength \in Nat /\ MaxMessageLength >= 2
  BY NetworkAssumption
<1> QED BY <1>1 DEF Start, Place

LEMMA StartAfter ==
    ASSUME NEW m \in Nat, NEW k \in Nat, m < k
    PROVE  /\ Start(m) + MaxMessageLength - 1 <= Start(k)
           /\ Place(m) + MaxMessageLength + 1 <= Place(k)
<1>1. MaxMessageLength \in Nat /\ MaxMessageLength >= 2
  BY NetworkAssumption
<1>2. PICK d \in Nat : k = m + 1 + d
  <2>1. k - m - 1 \in Nat /\ k = m + 1 + (k - m - 1)
    OBVIOUS
  <2> QED BY <2>1
<1>3. ASSUME NEW L \in Nat PROVE (m + 1 + d) * L = m * L + L + d * L /\ d * L \in Nat
  OBVIOUS
<1>4. MaxMessageLength - 1 \in Nat /\ MaxMessageLength + 1 \in Nat
  BY <1>1
<1> DEFINE P == MaxMessageLength + 1
           S == MaxMessageLength - 1
<1>5. k * P = m * P + P + d * P /\ d * P \in Nat /\ m * P \in Nat
  BY <1>2, <1>3, <1>4
<1>6. k * S = m * S + S + d * S /\ d * S \in Nat /\ m * S \in Nat
  BY <1>2, <1>3, <1>4
<1> QED BY <1>1, <1>5, <1>6 DEF Start, Place

LEMMA StartFirst == Start(0) = 0 /\ Place(0) = 0
<1>1. MaxMessageLength \in Nat
  BY NetworkAssumption
<1> QED BY <1>1 DEF Start, Place

\* What a message of a text is: its type, and the text from its start on.
LEMMA MessageIs ==
    ASSUME NEW t \in Seq(Visible), NEW m \in Nat, Start(m) < Len(t)
    PROVE  /\ Message(t, m) \in Seq(Visible)
           /\ Size(t, m) \in 2..MaxMessageLength
           /\ ~ IsLast(t, m) => /\ Size(t, m) = MaxMessageLength /\ Message(t, m)[1] = TypeM
                                /\ Start(m + 1) < Len(t)
           /\ IsLast(t, m) => /\ Size(t, m) = Len(t) - Start(m) + 1 /\ Message(t, m)[1] = TypeL
                              /\ Start(m + 1) >= Len(t)
           /\ \A i \in 2..Size(t, m) : Message(t, m)[i] = t[Start(m) + i - 1]
<1>1. /\ MaxMessageLength \in Nat /\ MaxMessageLength >= 2 /\ Len(t) \in Nat
      /\ Start(m) \in Nat /\ Start(m + 1) = Start(m) + MaxMessageLength - 1
  BY NetworkAssumption, StartNext
<1>2. CASE IsLast(t, m)
  <2> DEFINE part == SubSeq(t, Start(m) + 1, Len(t))
  <2>1. /\ part \in Seq(Visible) /\ Len(part) = Len(t) - Start(m)
        /\ \A i \in 1..Len(part) : part[i] = t[Start(m) + i]
    BY <1>1
  <2>2. <<TypeL>> \in Seq(Visible) /\ Len(<<TypeL>>) = 1 /\ <<TypeL>>[1] = TypeL
    BY NetworkAssumption DEF Visible
  <2>3. Message(t, m) = <<TypeL>> \o part
    BY <1>2 DEF Message
  <2> HIDE DEF part
  <2>4. /\ Message(t, m) \in Seq(Visible) /\ Size(t, m) = Len(part) + 1
        /\ Message(t, m)[1] = TypeL
        /\ \A i \in 2..Size(t, m) : Message(t, m)[i] = part[i - 1]
    BY <2>1, <2>2, <2>3 DEF Size
  <2>5. Start(m) + MaxMessageLength > Len(t)
    BY <1>2 DEF IsLast
  <2>6. \A i \in 2..Size(t, m) : i - 1 \in 1..Len(part) /\ Start(m) + (i - 1) = Start(m) + i - 1
    BY <1>1, <2>1, <2>4
  <2> QED BY <1>1, <1>2, <2>1, <2>4, <2>5, <2>6
<1>3. CASE ~ IsLast(t, m)
  <2> DEFINE part == SubSeq(t, Start(m) + 1, Start(m) + MaxMessageLength - 1)
  <2>5. Start(m) + MaxMessageLength <= Len(t)
    BY <1>1, <1>3 DEF IsLast
  <2>1. /\ part \in Seq(Visible) /\ Len(part) = MaxMessageLength - 1
        /\ \A i \in 1..Len(part) : part[i] = t[Start(m) + i]
    <3>1. PICK s \in Nat : s = Start(m)
      BY <1>1
    <3>2. PICK e \in Nat : e = s + MaxMessageLength - 1
      BY <1>1
    <3>3. s <= e /\ e <= Len(t) /\ e - s = MaxMessageLength - 1
      BY <1>1, <2>5, <3>1, <3>2
    <3>4. /\ SubSeq(t, s + 1, e) \in Seq(Visible) /\ Len(SubSeq(t, s + 1, e)) = e - s
          /\ \A i \in 1..(e - s) : SubSeq(t, s + 1, e)[i] = t[s + i]
      BY <3>3, PartOf
    <3>5. part = SubSeq(t, s + 1, e)
      BY <3>1, <3>2
    <3> HIDE DEF part
    <3> QED BY <3>1, <3>3, <3>4, <3>5
  <2>2. <<TypeM>> \in Seq(Visible) /\ Len(<<TypeM>>) = 1 /\ <<TypeM>>[1] = TypeM
    BY NetworkAssumption DEF Visible
  <2>3. Message(t, m) = <<TypeM>> \o part
    BY <1>3 DEF Message
  <2> HIDE DEF part
  <2>4. /\ Message(t, m) \in Seq(Visible) /\ Size(t, m) = Len(part) + 1
        /\ Message(t, m)[1] = TypeM
        /\ \A i \in 2..Size(t, m) : Message(t, m)[i] = part[i - 1]
    BY <2>1, <2>2, <2>3 DEF Size
  <2>6. \A i \in 2..Size(t, m) : i - 1 \in 1..Len(part) /\ Start(m) + (i - 1) = Start(m) + i - 1
    BY <1>1, <2>1, <2>4
  <2> QED BY <1>1, <1>3, <2>1, <2>4, <2>5, <2>6
<1> QED BY <1>2, <1>3

LEMMA SizeIs ==
    ASSUME NEW t \in Seq(Visible), NEW m \in Nat, Start(m) < Len(t)
    PROVE  \E L \in Nat : L = Size(t, m) /\ L >= 2 /\ L <= MaxMessageLength /\ MaxMessageLength \in Nat
<1>1. MaxMessageLength \in Nat
  BY NetworkAssumption
<1>2. Size(t, m) \in 2..MaxMessageLength
  BY MessageIs
<1> QED BY <1>1, <1>2

\* The message at the sender's offset.
LEMMA FrameIsMessage ==
    ASSUME NEW k \in Nat, offset = Start(k), text \in Seq(Visible)
    PROVE  Frame = Message(text, k)
<1>1. MaxMessageLength \in Nat /\ Start(k) \in Nat /\ Len(text) \in Nat
  BY NetworkAssumption, StartNext
<1> QED BY <1>1 DEF Frame, Message, IsLast

\* Bytes sent follow those of the wire that were there.
LEMMA WireGrows ==
    ASSUME NEW t \in Seq(Visible), NEW ch \in Seq(Visible), NEW at \in Nat, NEW k \in Nat, NEW j \in Nat,
           Start(k) < Len(t), Wire(ch, t, at, k, j),
           NEW new \in Seq(Visible), j + Len(new) <= Size(t, k) + 1,
           \A i \in 1..Len(new) : new[i] = WireByte(t, k, j + i - 1)
    PROVE  Wire(ch \o new, t, at, k, j + Len(new))
<1>1. PICK n \in Nat : n = Len(new)
  OBVIOUS
<1>2. PICK l \in Nat : l = Len(ch)
  OBVIOUS
<1>3. PICK p \in Nat : p = Place(k)
  BY StartNext
<1>4. PICK both : both = ch \o new
  OBVIOUS
<1>5. /\ Len(both) = l + n
      /\ \A x \in 1..l : both[x] = ch[x]
      /\ \A x \in 1..n : both[l + x] = new[x]
  BY <1>1, <1>2, <1>4
<1>6. at + l = p + j
  BY <1>2, <1>3 DEF Wire
<1>7. at + (l + n) = p + (j + n)
  BY ONLY <1>6, at \in Nat, j \in Nat, l \in Nat, p \in Nat, n \in Nat
<1>8. ASSUME NEW m \in 0..k, NEW i \in 0..Size(t, m),
             at <= Place(m) + i, Place(m) + i < Place(k) + (j + n)
      PROVE  both[Place(m) + i + 1 - at] = WireByte(t, m, i)
  <2>1. PICK q \in Nat : q = Place(m)
    BY StartNext
  <2>2. /\ MaxMessageLength \in Nat /\ m \in Nat
        /\ m # k => Start(m) < Len(t) /\ q + MaxMessageLength + 1 <= p
    <3>1. MaxMessageLength \in Nat /\ m \in Nat /\ Start(m) \in Nat /\ Start(k) \in Nat
      BY NetworkAssumption, StartNext
    <3>2. ASSUME m # k
          PROVE  /\ Start(m) + MaxMessageLength - 1 <= Start(k)
                 /\ q + MaxMessageLength + 1 <= p
      BY <1>3, <2>1, <3>1, <3>2, StartAfter
    <3>3. MaxMessageLength >= 2
      BY NetworkAssumption
    <3> QED BY <3>1, <3>2, <3>3
  <2>3. Size(t, m) \in 2..MaxMessageLength /\ i \in Nat /\ i <= MaxMessageLength
    BY <2>2, MessageIs
  <2>4. CASE q + i < p + j
    <3>1. ch[q + i + 1 - at] = WireByte(t, m, i)
      BY <1>3, <1>8, <2>1, <2>4 DEF Wire
    <3>2. q + i + 1 - at \in 1..l
      BY ONLY <1>6, <1>8, <2>1, <2>3, <2>4, at \in Nat, j \in Nat, l \in Nat, p \in Nat, q \in Nat
    <3> QED BY <1>5, <2>1, <3>1, <3>2
  <2>5. CASE ~ (q + i < p + j)
    <3>1. m = k
      BY ONLY <2>2, <2>3, <2>5, p \in Nat, q \in Nat, j \in Nat
    <3>2. q = p
      BY <1>3, <2>1, <3>1
    <3>3. q + i < p + (j + n)
      BY <1>3, <1>8, <2>1
    <3>4. i - j + 1 \in 1..n /\ q + i + 1 - at = l + (i - j + 1) /\ j + (i - j + 1) - 1 = i
      BY ONLY <1>6, <2>3, <2>5, <3>2, <3>3,
         at \in Nat, j \in Nat, l \in Nat, n \in Nat, p \in Nat, q \in Nat
    <3>5. both[l + (i - j + 1)] = new[i - j + 1]
      BY <1>5, <3>4
    <3>6. new[i - j + 1] = WireByte(t, k, i)
      BY <1>1, <3>4
    <3> QED BY <2>1, <3>1, <3>4, <3>5, <3>6
  <2> QED BY <2>4, <2>5
<1>9. Wire(both, t, at, k, j + n)
  BY <1>3, <1>5, <1>7, <1>8 DEF Wire
<1> QED BY <1>1, <1>4, <1>9

\* After the whole of a message comes the next one.
LEMMA WireNext ==
    ASSUME NEW t \in Seq(Visible), NEW ch \in Seq(Visible), NEW at \in Nat, NEW k \in Nat,
           Start(k) < Len(t), ~ IsLast(t, k), Wire(ch, t, at, k, Size(t, k) + 1)
    PROVE  Wire(ch, t, at, k + 1, 0)
<1>1. /\ Place(k) \in Nat /\ Place(k + 1) = Place(k) + MaxMessageLength + 1 /\ MaxMessageLength \in Nat
      /\ Size(t, k) = MaxMessageLength /\ Start(k + 1) < Len(t) /\ Len(ch) \in Nat
  BY StartNext, MessageIs, NetworkAssumption
<1>2. at + Len(ch) = Place(k + 1) + 0
  BY <1>1 DEF Wire
<1>3. ASSUME NEW m \in 0..(k + 1), NEW i \in 0..Size(t, m),
             at <= Place(m) + i, Place(m) + i < Place(k + 1) + 0
      PROVE  ch[Place(m) + i + 1 - at] = WireByte(t, m, i)
  <2>0. m \in Nat /\ Place(m) \in Nat /\ k + 1 \in Nat
    BY StartNext
  <2>1. CASE m = k + 1
    <3>1. Size(t, m) \in Nat /\ i \in Nat
      BY <1>1, <2>0, <2>1, MessageIs
    <3> QED BY <1>1, <1>3, <2>0, <2>1, <3>1
  <2>2. CASE m \in 0..k
    <3>1. Place(m) + i < Place(k) + (Size(t, k) + 1)
      <4>1. Place(k) + (Size(t, k) + 1) = Place(k + 1) + 0
        BY <1>1
      <4> QED BY <1>3, <4>1
    <3> QED BY <1>3, <2>2, <3>1 DEF Wire
  <2> QED BY <2>1, <2>2
<1> QED BY <1>2, <1>3 DEF Wire

\* Bytes read are gone from the front.
LEMMA WireShrinks ==
    ASSUME NEW t \in Seq(Visible), NEW ch \in Seq(Visible), NEW at \in Nat, NEW k \in Nat, NEW j \in Nat,
           Start(k) < Len(t), Wire(ch, t, at, k, j), NEW n \in Nat, n <= Len(ch)
    PROVE  Wire(SubSeq(ch, n + 1, Len(ch)), t, at + n, k, j)
<1>1. PICK l \in Nat : l = Len(ch)
  OBVIOUS
<1>2. PICK p \in Nat : p = Place(k)
  BY StartNext
<1>3. PICK rest : rest = SubSeq(ch, n + 1, Len(ch))
  OBVIOUS
<1>4. Len(rest) = l - n /\ \A x \in 1..(l - n) : rest[x] = ch[n + x]
  BY <1>1, <1>3, PartOf
<1>5. at + l = p + j
  BY <1>1, <1>2 DEF Wire
<1>6. (at + n) + (l - n) = p + j
  BY ONLY <1>5, at \in Nat, j \in Nat, l \in Nat, p \in Nat, n \in Nat
<1>7. ASSUME NEW m \in 0..k, NEW i \in 0..Size(t, m),
             at + n <= Place(m) + i, Place(m) + i < Place(k) + j
      PROVE  rest[Place(m) + i + 1 - (at + n)] = WireByte(t, m, i)
  <2>1. PICK q \in Nat : q = Place(m)
    BY StartNext
  <2>2. Start(m) < Len(t)
    <3>1. MaxMessageLength \in Nat /\ m \in Nat /\ Start(m) \in Nat /\ Start(k) \in Nat
      BY NetworkAssumption, StartNext
    <3>2. m # k => Start(m) + MaxMessageLength - 1 <= Start(k)
      BY <3>1, StartAfter
    <3>3. MaxMessageLength >= 2
      BY NetworkAssumption
    <3> QED BY <3>1, <3>2, <3>3
  <2>3. i \in Nat
    BY <2>2, MessageIs
  <2>4. at <= q + i /\ q + i < p + j
    BY ONLY <1>2, <1>7, <2>1, <2>3, at \in Nat, j \in Nat, n \in Nat, p \in Nat, q \in Nat
  <2>5. ch[q + i + 1 - at] = WireByte(t, m, i)
    BY <1>2, <2>1, <2>4 DEF Wire
  <2>6. at + n <= q + i
    BY <1>7, <2>1
  <2>7. /\ q + i + 1 - (at + n) \in 1..(l - n)
        /\ n + (q + i + 1 - (at + n)) = q + i + 1 - at
    BY ONLY <1>5, <2>3, <2>4, <2>6, at \in Nat, j \in Nat, l \in Nat, n \in Nat, p \in Nat, q \in Nat
  <2>8. rest[q + i + 1 - (at + n)] = ch[q + i + 1 - at]
    BY <1>4, <2>7
  <2> QED BY <2>1, <2>5, <2>8
<1>8. Wire(rest, t, at + n, k, j)
  BY <1>2, <1>4, <1>6, <1>7 DEF Wire
<1> QED BY <1>3, <1>8

-----------------------------------------------------------------------------
(***************************************************************************)
(* Sender and receiver are at places of the same wire: the sender has sent *)
(* j bytes of message k, the receiver reads message r.                     *)
(***************************************************************************)

\* The sender is in message k, and it goes on to the next one unless that was the last.
SenderAt(k, j) ==
    /\ Start(k) < Len(text) /\ j <= Size(text, k) + 1
    /\ j = Size(text, k) + 1 => IsLast(text, k)
    /\ sendPc = "length" => offset = Start(k) /\ j = 0
    /\ sendPc = "body" => offset = Start(k) /\ j = sent + 1
    /\ path = "unix" => j \in {0, 1, Size(text, k) + 1}

\* Of message r the receiver has the length, then its first bytes.  Only a request may be
\* taken for whole when its last byte has not been read.
ReceiverAt(r) ==
    /\ Start(r) < Len(text)
    /\ collected = SubSeq(text, 1, Start(r))
    /\ recvPc \in {"length", "body", "message"}
    /\ recvPc # "length" =>
          /\ length = Size(text, r) /\ total \in 1..(length + 1)
          /\ \A i \in 1..length : message[i] = IF i < total THEN Message(text, r)[i] ELSE 0
    /\ recvPc = "body" /\ path = "unix" => total = 1
    /\ recvPc = "message" => total >= length /\ (path # "request" => total = length + 1)

\* Where the channel begins.
ReadTo(r) == Place(r) + (IF recvPc = "length" THEN 0 ELSE total)

InStep(r, k, j) ==
    /\ r <= k /\ SenderAt(k, j) /\ ReceiverAt(r)
    /\ Wire(channel, text, ReadTo(r), k, j)

\* A request that was taken for whole before its last byte has a 0 in the text's place.
Cut ==
    /\ path = "request"
    /\ \E n \in 0..Len(text) :
          /\ n < Len(collected) /\ collected[n + 1] = 0
          /\ \A i \in 1..n : collected[i] = text[i]

TextInv ==
    \/ recvPc = "failed"
    \/ recvPc = "done" /\ collected = text
    \/ Cut
    \/ text = <<>> /\ channel = <<>> /\ sendPc \in {"sent", "closed"} /\ recvPc = "length"
    \/ \E r, k, j \in Nat : InStep(r, k, j)

LEMMA TextInit == SocketInit => TextInv
<1> SUFFICES ASSUME SocketInit, text # <<>> PROVE InStep(0, 0, 0)
  BY DEF SocketInit, TextInv
<1>1. text \in Seq(Visible) /\ Len(text) \in Nat /\ Len(text) > 0
  BY NetworkAssumption DEF SocketInit, Visible
<1>2. Start(0) = 0 /\ Place(0) = 0
  BY StartFirst
<1>3. Size(text, 0) \in Nat /\ Size(text, 0) >= 2
  BY <1>1, <1>2, MessageIs
<1>4. SenderAt(0, 0)
  BY <1>1, <1>2, <1>3 DEF SenderAt, SocketInit
<1>5. ReceiverAt(0)
  <2>1. SubSeq(text, 1, 0) = <<>>
    BY <1>1
  <2> QED BY <1>1, <1>2, <2>1 DEF ReceiverAt, SocketInit
<1>6. ReadTo(0) = 0 /\ channel = <<>>
  BY <1>2 DEF ReadTo, SocketInit
<1>7. Wire(<<>>, text, 0, 0, 0)
  BY <1>2, <1>3 DEF Wire
<1> QED BY <1>4, <1>5, <1>6, <1>7 DEF InStep

LEMMA ReceiverStays ==
    ASSUME UNCHANGED <<path, text, receiverVars>>, NEW r
    PROVE  ReceiverAt(r)' = ReceiverAt(r) /\ ReadTo(r)' = ReadTo(r)
BY DEF ReceiverAt, ReadTo, receiverVars

LEMMA SenderStays ==
    ASSUME ReceiverStep, NEW k, NEW j
    PROVE  SenderAt(k, j)' = SenderAt(k, j)
BY DEF SenderAt, ReceiverStep, senderVars

\* Where the channel begins is a number.
LEMMA ReadToIsNat ==
    ASSUME BuffersInv, NEW r \in Nat
    PROVE  ReadTo(r) \in Nat
<1>1. Place(r) \in Nat
  BY StartNext
<1>2. total \in Nat
  BY NetworkAssumption DEF BuffersInv, BuffersHold
<1> QED BY <1>1, <1>2 DEF ReadTo

LEMMA SendLengthInStep ==
    ASSUME BuffersInv, SendLength, NEW r \in Nat, NEW k \in Nat, NEW j \in Nat, InStep(r, k, j)
    PROVE  InStep(r, k, 1)'
<1>1. text \in Seq(Visible) /\ channel \in Seq(Visible) /\ Start(k) < Len(text)
  BY DEF BuffersInv, SenderInv, ReceiverInv, InStep, SenderAt
<1>2. offset = Start(k) /\ j = 0 /\ Frame = Message(text, k)
  BY <1>1, FrameIsMessage DEF InStep, SenderAt, SendLength
<1>3. Size(text, k) \in 2..MaxMessageLength /\ MaxMessageLength \in 1..MaxByte /\ MaxByte \in Nat
  BY <1>1, MessageIs, NetworkAssumption
<1>4. /\ channel' = Append(channel, Size(text, k)) /\ sendPc' = "body" /\ sent' = 0
      /\ UNCHANGED <<path, text, offset, open, receiverVars>>
  BY <1>2, <1>3 DEF SendLength, Size
<1> DEFINE new == <<Size(text, k)>>
<1>5. /\ new \in Seq(Visible) /\ Len(new) = 1 /\ channel' = channel \o new
      /\ \A i \in 1..Len(new) : new[i] = WireByte(text, k, j + i - 1)
  <2>1. Size(text, k) \in Visible
    BY <1>3 DEF Visible, Bytes
  <2>2. new[1] = WireByte(text, k, 0)
    BY DEF WireByte
  <2> QED BY <1>1, <1>2, <1>4, <2>1, <2>2
<1>6. Wire(channel', text, ReadTo(r), k, 1)
  <2>1. j + Len(new) <= Size(text, k) + 1 /\ j + Len(new) = 1
    BY <1>2, <1>3, <1>5
  <2>2. Wire(channel, text, ReadTo(r), k, j)
    BY DEF InStep
  <2> HIDE DEF new
  <2>3. Wire(channel \o new, text, ReadTo(r), k, j + Len(new))
    BY <1>1, <1>5, <2>1, <2>2, ReadToIsNat, WireGrows
  <2> QED BY <1>5, <2>1, <2>3
<1>7. SenderAt(k, 1)'
  BY <1>1, <1>2, <1>3, <1>4 DEF SenderAt
<1> QED BY <1>4, <1>6, <1>7, ReceiverStays DEF InStep

LEMMA SendBodyInStep ==
    ASSUME BuffersInv, SendBody, NEW r \in Nat, NEW k \in Nat, NEW j \in Nat, InStep(r, k, j)
    PROVE  (\E kk, jj \in Nat : InStep(r, kk, jj))'
<1>1. text \in Seq(Visible) /\ channel \in Seq(Visible) /\ Start(k) < Len(text) /\ Len(text) \in Nat
  BY DEF BuffersInv, SenderInv, ReceiverInv, InStep, SenderAt
<1>2. /\ offset = Start(k) /\ j = sent + 1 /\ Frame = Message(text, k) /\ sent \in Nat
      /\ sent < Size(text, k)
  BY <1>1, FrameIsMessage DEF InStep, SenderAt, SendBody, BuffersInv, BuffersHold, SenderInv, Size
<1>3. /\ Message(text, k) \in Seq(Visible) /\ Size(text, k) \in Nat /\ MaxMessageLength \in Nat
      /\ Start(k) \in Nat /\ Start(k + 1) = Start(k) + MaxMessageLength - 1
  <2>1. MaxMessageLength \in Nat
    BY NetworkAssumption
  <2>2. Message(text, k) \in Seq(Visible) /\ Size(text, k) \in 2..MaxMessageLength
    BY <1>1, MessageIs
  <2> QED BY <2>1, <2>2, StartNext
<1>4. PICK n \in 1..(Size(text, k) - sent) :
         /\ path = "unix" => n = Size(text, k) - sent
         /\ channel' = channel \o SubSeq(Message(text, k), sent + 1, sent + n)
         /\ sent' = sent + n
         /\ IF n < Size(text, k) - sent
            THEN UNCHANGED <<offset, sendPc>>
            ELSE /\ offset' = offset + MaxMessageLength - 1
                 /\ sendPc' = IF offset' < Len(text) THEN "length" ELSE "sent"
  BY <1>2 DEF SendBody, Size
<1>5. UNCHANGED <<path, text, open, receiverVars>> /\ sendPc = "body"
  BY DEF SendBody
<1>6. PICK new : new = SubSeq(Message(text, k), sent + 1, sent + n)
  OBVIOUS
<1>7. /\ new \in Seq(Visible) /\ Len(new) = n /\ n \in Nat
      /\ \A i \in 1..n : new[i] = WireByte(text, k, j + i - 1)
  <2>1. PICK e \in Nat : e = sent + n
    BY <1>2
  <2>2. sent <= e /\ e <= Len(Message(text, k)) /\ e - sent = n /\ n \in Nat
    BY <1>2, <1>3, <2>1 DEF Size
  <2>3. new \in Seq(Visible) /\ Len(new) = n /\ \A i \in 1..n : new[i] = Message(text, k)[sent + i]
    BY <1>2, <1>3, <1>6, <2>1, <2>2, PartOf
  <2>4. \A i \in 1..n : j + i - 1 = sent + i /\ sent + i # 0
    BY <1>2
  <2> QED BY <2>2, <2>3, <2>4 DEF WireByte
<1>8. Wire(channel', text, ReadTo(r), k, j + n) /\ j + n = sent + n + 1 /\ j + n <= Size(text, k) + 1
  <2>1. j + n <= Size(text, k) + 1 /\ j + n = sent + n + 1
    BY <1>2, <1>3
  <2>2. Wire(channel, text, ReadTo(r), k, j)
    BY DEF InStep
  <2>3. Wire(channel \o new, text, ReadTo(r), k, j + n)
    BY <1>1, <1>7, <2>1, <2>2, ReadToIsNat, WireGrows
  <2> QED BY <1>4, <1>6, <2>1, <2>3
<1>9. CASE n < Size(text, k) - sent
  <2>1. SenderAt(k, j + n)'
    <3>1. path # "unix" /\ UNCHANGED <<path, text, offset, sendPc>> /\ sendPc = "body"
      BY <1>4, <1>5, <1>9
    <3>2. j + n = sent' + 1 /\ j + n # Size(text, k) + 1 /\ j + n <= Size(text, k) + 1
      BY <1>2, <1>3, <1>4, <1>8, <1>9
    <3> QED BY <1>1, <1>2, <3>1, <3>2 DEF SenderAt
  <2>2. InStep(r, k, j + n)'
    BY <1>5, <1>8, <2>1, ReceiverStays DEF InStep
  <2>3. j + n \in Nat
    BY <1>7
  <2> QED BY <2>2, <2>3
<1>10. CASE ~ (n < Size(text, k) - sent)
  <2>1. /\ j + n = Size(text, k) + 1
        /\ offset' = Start(k + 1)
        /\ sendPc' = IF Start(k + 1) < Len(text) THEN "length" ELSE "sent"
    <3>1. n = Size(text, k) - sent
      BY <1>2, <1>3, <1>10
    <3>2. j + n = Size(text, k) + 1
      BY <1>2, <1>3, <1>7, <3>1
    <3>3. offset' = Start(k + 1)
      BY <1>2, <1>3, <1>4, <1>10
    <3>4. sendPc' = IF offset' < Len(text) THEN "length" ELSE "sent"
      BY <1>4, <1>5, <1>10
    <3> QED BY <3>2, <3>3, <3>4
  <2>2. CASE IsLast(text, k)
    <3>1. sendPc' = "sent"
      BY <1>1, <1>3, <2>1, <2>2, MessageIs
    <3>2. SenderAt(k, Size(text, k) + 1)'
      BY <1>1, <1>3, <1>5, <2>2, <3>1 DEF SenderAt
    <3>3. InStep(r, k, Size(text, k) + 1)'
      BY <1>5, <1>8, <2>1, <3>2, ReceiverStays DEF InStep
    <3>4. Size(text, k) + 1 \in Nat
      BY <1>3
    <3>5. Size(text, k)' = Size(text, k)
      BY <1>5
    <3> QED BY <3>3, <3>4, <3>5
  <2>3. CASE ~ IsLast(text, k)
    <3>1. Start(k + 1) < Len(text) /\ sendPc' = "length"
      BY <1>1, <2>1, <2>3, MessageIs
    <3>2. k + 1 \in Nat /\ Size(text, k + 1) \in 2..MaxMessageLength
      BY <1>1, <3>1, MessageIs
    <3>3. SenderAt(k + 1, 0)'
      BY <1>3, <1>5, <2>1, <3>1, <3>2 DEF SenderAt
    <3>4. Wire(channel', text, ReadTo(r), k + 1, 0)
      <4>1. channel' \in Seq(Visible)
        BY <1>1, <1>4, <1>6, <1>7
      <4> QED BY <1>1, <1>8, <2>1, <2>3, <4>1, ReadToIsNat, WireNext
    <3>5. InStep(r, k + 1, 0)'
      BY <1>5, <3>3, <3>4, ReceiverStays DEF InStep
    <3> QED BY <3>2, <3>5
  <2> QED BY <2>2, <2>3
<1> QED BY <1>9, <1>10

LEMMA RecvLengthInStep ==
    ASSUME BuffersInv, RecvLength, NEW r \in Nat, NEW k \in Nat, NEW j \in Nat, InStep(r, k, j)
    PROVE  InStep(r, k, j)'
<1>1. /\ text \in Seq(Visible) /\ channel \in Seq(Visible)
      /\ Start(k) < Len(text) /\ Start(r) < Len(text) /\ r <= k
  BY DEF BuffersInv, SenderInv, ReceiverInv, InStep, SenderAt, ReceiverAt
<1>2. PICK p \in Nat : p = Place(k)
  BY StartNext
<1>3. PICK q \in Nat : q = Place(r)
  BY StartNext
<1>4. PICK l \in Nat : l = Len(channel) /\ l > 0
  BY <1>1 DEF RecvLength
<1>5. ReadTo(r) = q /\ Wire(channel, text, q, k, j) /\ q + l = p + j
  <2>1. ReadTo(r) = q
    BY <1>3 DEF ReadTo, RecvLength
  <2> QED BY <1>2, <1>4, <2>1 DEF InStep, Wire
<1>6. PICK L \in Nat : L = Size(text, r) /\ L >= 2
  BY <1>1, SizeIs
<1>7. Head(channel) = L
  <2>1. q <= q + 0 /\ q + 0 < p + j /\ q + 0 + 1 - q = 1 /\ r \in 0..k /\ 0 \in 0..L
    BY ONLY <1>1, <1>4, <1>5, r \in Nat, k \in Nat, j \in Nat, q \in Nat, p \in Nat, l \in Nat, L \in Nat
  <2>2. channel[q + 0 + 1 - q] = WireByte(text, r, 0)
    BY <1>2, <1>3, <1>5, <1>6, <2>1 DEF Wire
  <2> QED BY <1>6, <2>1, <2>2 DEF WireByte
<1>8. /\ length' = L /\ total' = 1 /\ message' = [i \in 1..L |-> 0] /\ recvPc' = After(1, L)
      /\ UNCHANGED collected /\ ReceiverStep /\ channel' = Tail(channel) /\ recvPc = "length"
  BY <1>7 DEF RecvLength
<1>9. recvPc' = "body"
  BY <1>6, <1>8 DEF After, Incomplete
<1>10. Wire(channel', text, q + 1, k, j)
  <2>1. channel' = SubSeq(channel, 1 + 1, Len(channel))
    BY <1>1, <1>4, <1>8
  <2> QED BY <1>1, <1>4, <1>5, <2>1, WireShrinks
<1>11. UNCHANGED <<text, path>>
  BY <1>8 DEF ReceiverStep, senderVars
<1>12. ReceiverAt(r)'
  <2>1. collected' = SubSeq(text, 1, Start(r))
    BY <1>8 DEF InStep, ReceiverAt
  <2>2. \A i \in 1..L : message'[i] = IF i < 1 THEN Message(text, r)[i] ELSE 0
    BY <1>8
  <2>3. 1 \in 1..(L + 1)
    BY <1>6
  <2> QED BY <1>1, <1>6, <1>8, <1>9, <1>11, <2>1, <2>2, <2>3 DEF ReceiverAt
<1>13. ReadTo(r)' = q + 1
  BY <1>3, <1>8, <1>9 DEF ReadTo
<1> QED BY <1>1, <1>8, <1>10, <1>11, <1>12, <1>13, SenderStays DEF InStep

LEMMA RecvBodyInStep ==
    ASSUME BuffersInv, RecvBody, NEW r \in Nat, NEW k \in Nat, NEW j \in Nat, InStep(r, k, j)
    PROVE  InStep(r, k, j)'
<1>1. /\ text \in Seq(Visible) /\ channel \in Seq(Visible) /\ Len(message) = length
      /\ Start(k) < Len(text) /\ Start(r) < Len(text) /\ r <= k
      /\ SenderAt(k, j) /\ ReceiverAt(r)
  BY DEF BuffersInv, BuffersHold, SenderInv, ReceiverInv, InStep, SenderAt, ReceiverAt
<1>2. PICK p \in Nat : p = Place(k)
  BY StartNext
<1>3. PICK q \in Nat : q = Place(r)
  BY StartNext
<1>4. PICK l \in Nat : l = Len(channel)
  BY <1>1
<1>5. PICK L \in Nat : L = Size(text, r) /\ L >= 2 /\ L <= MaxMessageLength /\ MaxMessageLength \in Nat
  BY <1>1, SizeIs
<1>6. recvPc = "body" /\ length = L /\ UNCHANGED <<length, collected>> /\ ReceiverStep
  BY <1>1, <1>5 DEF RecvBody, ReceiverAt
<1>7. PICK o \in Nat : o = total /\ 1 <= o /\ o <= L + 1
  BY <1>1, <1>5, <1>6 DEF ReceiverAt
<1>8. PICK n \in 1..l :
         /\ n <= L + 1 - o
         /\ path = "unix" => n = L + 1 - o \/ n = l
         /\ message' = [i \in DOMAIN message |->
                           IF i \in o..(o + n - 1) THEN channel[i - o + 1] ELSE message[i]]
         /\ channel' = SubSeq(channel, n + 1, Len(channel))
         /\ total' = o + n
         /\ recvPc' = After(o + n, L)
  BY <1>4, <1>6, <1>7 DEF RecvBody, LeftToReceive
<1>9. ReadTo(r) = q + o /\ Wire(channel, text, q + o, k, j) /\ q + o + l = p + j
  <2>1. ReadTo(r) = q + o
    BY <1>3, <1>6, <1>7 DEF ReadTo
  <2> QED BY <1>2, <1>4, <2>1 DEF InStep, Wire
<1>10. UNCHANGED <<text, path>>
  BY <1>6 DEF ReceiverStep, senderVars
<1>11. Wire(channel', text, q + (o + n), k, j)
  <2>1. n \in Nat /\ n <= Len(channel) /\ q + o \in Nat
    BY <1>4
  <2>2. Wire(channel', text, (q + o) + n, k, j)
    BY <1>1, <1>8, <1>9, <2>1, WireShrinks
  <2>3. (q + o) + n = q + (o + n)
    BY <2>1
  <2> QED BY <2>2, <2>3
<1>12. \A i \in 1..L : message'[i] = IF i < o + n THEN Message(text, r)[i] ELSE 0
  <2>1. DOMAIN message = 1..L
    BY <1>1, <1>5, <1>6 DEF BuffersInv, BuffersHold
  <2>2. \A i \in 1..L : message[i] = IF i < o THEN Message(text, r)[i] ELSE 0
    BY <1>1, <1>6, <1>7 DEF ReceiverAt
  <2>3. ASSUME NEW i \in 1..L, i \in o..(o + n - 1) PROVE channel[i - o + 1] = Message(text, r)[i]
    <3>1. /\ q + o <= q + i /\ q + i < p + j /\ q + i + 1 - (q + o) = i - o + 1
          /\ r \in 0..k /\ i \in 0..L /\ i # 0
      <4>1. r <= k /\ q + o + l = p + j /\ n \in 1..l /\ i \in 1..L /\ i \in o..(o + n - 1)
        BY <1>1, <1>9, <2>3
      <4> QED BY ONLY <4>1, r \in Nat, k \in Nat, j \in Nat, q \in Nat, p \in Nat, l \in Nat,
              o \in Nat, L \in Nat
    <3>2. channel[q + i + 1 - (q + o)] = WireByte(text, r, i)
      BY <1>2, <1>3, <1>5, <1>9, <3>1 DEF Wire
    <3> QED BY <3>1, <3>2 DEF WireByte
  <2>4. ASSUME NEW i \in 1..L, ~ (i \in o..(o + n - 1)) PROVE i < o + n <=> i < o
    BY ONLY <2>4, n \in 1..l, l \in Nat, o \in Nat, L \in Nat
  <2>5. ASSUME NEW i \in 1..L, i \in o..(o + n - 1) PROVE i < o + n
    BY ONLY <2>5, n \in 1..l, l \in Nat, o \in Nat, L \in Nat
  <2>6. ASSUME NEW i \in 1..L PROVE message'[i] = IF i < o + n THEN Message(text, r)[i] ELSE 0
    <3>1. message'[i] = IF i \in o..(o + n - 1) THEN channel[i - o + 1] ELSE message[i]
      BY <1>8, <2>1
    <3> QED BY <2>2, <2>3, <2>4, <2>5, <3>1
  <2> QED BY <2>6
<1>13. o + n \in 1..(L + 1)
  BY <1>7, <1>8
<1>14. path = "unix" => o + n = L + 1
  <2>1. SUFFICES ASSUME path = "unix" PROVE L <= l
    BY <1>1, <1>6, <1>7, <1>8 DEF ReceiverAt
  <2>2. o = 1 /\ j \in {0, 1, Size(text, k) + 1}
    BY <1>1, <1>6, <1>7, <2>1 DEF ReceiverAt, SenderAt
  <2>3. CASE r = k
    <3>1. q = p /\ j \in {0, 1, L + 1}
      BY <1>2, <1>3, <1>5, <2>2, <2>3
    <3> QED BY ONLY <1>8, <1>9, <2>2, <3>1, l \in Nat, j \in Nat, p \in Nat, L \in Nat
  <2>4. CASE r < k
    <3>1. q + MaxMessageLength + 1 <= p
      BY <1>2, <1>3, <2>4, StartAfter
    <3> QED BY ONLY <1>5, <1>9, <2>2, <3>1, l \in Nat, j \in Nat, p \in Nat, q \in Nat, L \in Nat
  <2> QED BY <1>1, <2>3, <2>4
<1>15. /\ recvPc' \in {"body", "message"}
       /\ recvPc' = "body" => path # "unix"
       /\ recvPc' = "message" => o + n >= L /\ (path # "request" => o + n = L + 1)
  <2>1. path \in {"unix", "request", "response"}
    BY NetworkAssumption DEF BuffersInv, BuffersHold
  <2>2. CASE path = "response"
    BY <1>8, <1>13, <2>2 DEF After, Incomplete
  <2>3. CASE path # "response"
    BY <1>8, <1>13, <1>14, <2>1, <2>3 DEF After, Incomplete
  <2> QED BY <2>2, <2>3
<1>16. ReceiverAt(r)'
  <2>1. collected' = SubSeq(text, 1, Start(r))
    BY <1>1, <1>6 DEF ReceiverAt
  <2> QED BY <1>1, <1>5, <1>6, <1>8, <1>10, <1>12, <1>13, <1>15, <2>1 DEF ReceiverAt
<1>17. ReadTo(r)' = q + (o + n)
  BY <1>3, <1>8, <1>15 DEF ReadTo
<1> QED BY <1>1, <1>6, <1>10, <1>11, <1>16, <1>17, SenderStays DEF InStep

\* The receiver takes a whole message, or all of it but its last byte: there it has a 0.
LEMMA EndMessageInStep ==
    ASSUME BuffersInv, EndMessage, NEW r \in Nat, NEW k \in Nat, NEW j \in Nat, InStep(r, k, j)
    PROVE  TextInv'
<1>1. /\ text \in Seq(Visible) /\ channel \in Seq(Visible) /\ message \in Seq(Bytes)
      /\ Len(message) = length /\ Start(k) < Len(text) /\ Start(r) < Len(text) /\ r <= k
      /\ SenderAt(k, j) /\ ReceiverAt(r) /\ path \in {"unix", "request", "response"}
  BY NetworkAssumption
     DEF BuffersInv, BuffersHold, SenderInv, ReceiverInv, InStep, SenderAt, ReceiverAt
<1>2. PICK s \in Nat : s = Start(r) /\ Start(r + 1) = s + MaxMessageLength - 1
  BY StartNext
<1>3. PICK L \in Nat : L = Size(text, r) /\ L >= 2 /\ L <= MaxMessageLength /\ MaxMessageLength \in Nat
  BY <1>1, SizeIs
<1>4. PICK N \in Nat : N = Len(text) /\ s < N
  BY <1>1, <1>2
<1>5. /\ recvPc = "message" /\ collected' = collected \o Tail(message)
      /\ recvPc' = IF message[1] = TypeL THEN "done" ELSE "length"
      /\ UNCHANGED <<channel, length, total, message>> /\ ReceiverStep
  BY DEF EndMessage
<1>6. UNCHANGED <<text, path>>
  BY <1>5 DEF ReceiverStep, senderVars
<1>7. /\ length = L /\ total \in 1..(L + 1) /\ total >= L /\ (path # "request" => total = L + 1)
      /\ \A i \in 1..L : message[i] = IF i < total THEN Message(text, r)[i] ELSE 0
  BY <1>1, <1>3, <1>5 DEF ReceiverAt
<1>8. message[1] = Message(text, r)[1]
  BY <1>3, <1>7
<1>9. PICK rest : rest = Tail(message)
  OBVIOUS
<1>10. rest \in Seq(Bytes) /\ Len(rest) = L - 1 /\ \A i \in 1..(L - 1) : rest[i] = message[i + 1]
  BY <1>1, <1>3, <1>7, <1>9
<1>11. PICK before : before = SubSeq(text, 1, s)
  OBVIOUS
<1>12. /\ before \in Seq(Visible) /\ Len(before) = s /\ \A i \in 1..s : before[i] = text[i]
  <2>1. SubSeq(text, 0 + 1, s) \in Seq(Visible) /\ Len(SubSeq(text, 0 + 1, s)) = s - 0
        /\ \A i \in 1..(s - 0) : SubSeq(text, 0 + 1, s)[i] = text[0 + i]
    BY <1>1, <1>4, PartOf
  <2>2. SubSeq(text, 0 + 1, s) = before
    BY <1>11
  <2> QED BY <2>1, <2>2
<1>13. collected = before
  BY <1>1, <1>2, <1>11 DEF ReceiverAt
<1>14. PICK both : both = before \o rest
  OBVIOUS
<1>15. /\ both = collected' /\ both \in Seq(Bytes) /\ Len(both) = s + (L - 1)
       /\ \A i \in 1..s : both[i] = text[i]
       /\ \A i \in 1..(L - 1) : both[s + i] = message[i + 1]
  <2>1. before \in Seq(Bytes)
    BY <1>12 DEF Visible
  <2>2. L - 1 \in Nat
    BY <1>3
  <2>3. PICK m \in Nat : m = L - 1
    BY <2>2
  <2>4. /\ both \in Seq(Bytes) /\ Len(both) = s + m
        /\ \A i \in 1..s : both[i] = before[i]
        /\ \A i \in 1..m : both[s + i] = rest[i]
    <3>1. rest \in Seq(Bytes) /\ s = Len(before) /\ m = Len(rest)
      BY <1>10, <1>12, <2>3
    <3>2. /\ before \o rest \in Seq(Bytes) /\ Len(before \o rest) = s + m
          /\ \A i \in 1..s : (before \o rest)[i] = before[i]
          /\ \A i \in 1..m : (before \o rest)[s + i] = rest[i]
      BY ONLY <2>1, <3>1, s \in Nat, m \in Nat, Joined
    <3> QED BY <1>14, <3>2
  <2>5. both = collected'
    BY <1>5, <1>9, <1>13, <1>14
  <2> QED BY <1>10, <1>12, <2>3, <2>4, <2>5
<1>16. s + (L - 1) <= N /\ \A i \in 1..(L - 1) : Message(text, r)[i + 1] = text[s + i]
  <2>1. \A i \in 2..L : Message(text, r)[i] = text[s + i - 1]
    BY <1>1, <1>2, <1>3, MessageIs
  <2>2. \A i \in 1..(L - 1) : i + 1 \in 2..L /\ s + (i + 1) - 1 = s + i
    BY <1>2, <1>3
  <2>3. CASE IsLast(text, r)
    <3>1. L = N - s + 1
      BY <1>1, <1>2, <1>3, <1>4, <2>3, MessageIs
    <3> QED BY <1>3, <2>1, <2>2, <3>1
  <2>4. CASE ~ IsLast(text, r)
    <3>1. L = MaxMessageLength /\ s + MaxMessageLength - 1 < N
      BY <1>1, <1>2, <1>3, <1>4, <2>4, MessageIs
    <3> QED BY <1>3, <2>1, <2>2, <3>1
  <2> QED BY <2>3, <2>4
<1>17. CASE total = L + 1
  <2>1. \A i \in 1..(L - 1) : both[s + i] = text[s + i]
    <3>1. \A i \in 1..(L - 1) : message[i + 1] = Message(text, r)[i + 1]
      BY <1>3, <1>7, <1>17
    <3> QED BY <1>15, <1>16, <3>1
  <2>2. PICK e \in Nat : e = s + (L - 1)
    BY <1>3
  <2>3. \A i \in 1..e : both[i] = text[i]
    <3>1. ASSUME NEW i \in 1..e, i > s PROVE both[i] = text[i]
      <4>1. i - s \in 1..(L - 1) /\ s + (i - s) = i
        BY <1>3, <2>2, <3>1
      <4> QED BY <2>1, <4>1
    <3> QED BY <1>15, <2>2, <3>1
  <2>4. both = SubSeq(text, 1, e)
    <3>1. SubSeq(text, 0 + 1, e) \in Seq(Visible) /\ Len(SubSeq(text, 0 + 1, e)) = e - 0
          /\ \A i \in 1..(e - 0) : SubSeq(text, 0 + 1, e)[i] = text[0 + i]
      BY <1>1, <1>4, <1>16, <2>2, PartOf
    <3>2. PICK part : part = SubSeq(text, 1, e)
      OBVIOUS
    <3>3. part \in Seq(Visible) /\ Len(part) = e /\ \A i \in 1..e : part[i] = text[i]
      BY <3>1, <3>2
    <3>4. Len(both) = e
      BY <1>15, <2>2
    <3>5. both = part
      BY <1>15, <2>3, <3>3, <3>4
    <3> QED BY <3>2, <3>5
  <2>5. CASE IsLast(text, r)
    <3>1. L = N - s + 1 /\ Message(text, r)[1] = TypeL
      BY <1>1, <1>2, <1>3, <1>4, <2>5, MessageIs
    <3>2. recvPc' = "done"
      BY <1>5, <1>8, <3>1
    <3>3. e = N
      BY <1>3, <1>4, <2>2, <3>1
    <3>4. collected' = text
      BY <1>1, <1>4, <1>15, <2>4, <3>3
    <3> QED BY <1>6, <3>2, <3>4 DEF TextInv
  <2>6. CASE ~ IsLast(text, r)
    <3>1. L = MaxMessageLength /\ Message(text, r)[1] = TypeM /\ Start(r + 1) < Len(text)
      BY <1>1, <1>2, <1>3, <1>4, <2>6, MessageIs
    <3>2. recvPc' = "length"
      BY <1>5, <1>8, <3>1, NetworkAssumption
    <3>3. Start(r + 1) = e
      BY <1>2, <2>2, <3>1
    <3>4. ReceiverAt(r + 1)'
      BY <1>6, <1>15, <2>4, <3>1, <3>2, <3>3 DEF ReceiverAt
    <3>5. PICK p \in Nat : p = Place(k)
      BY StartNext
    <3>6. PICK q \in Nat : q = Place(r) /\ Place(r + 1) = q + MaxMessageLength + 1 /\ r + 1 \in Nat
      BY StartNext
    <3>7. PICK l \in Nat : l = Len(channel)
      BY <1>1
    <3>8. ReadTo(r) = q + (L + 1) /\ ReadTo(r + 1)' = q + (L + 1)
      <4>1. ReadTo(r) = q + (L + 1)
        BY <1>5, <1>17, <3>6 DEF ReadTo
      <4>2. ReadTo(r + 1)' = Place(r + 1) + 0
        BY <3>2 DEF ReadTo
      <4> QED BY <1>3, <3>1, <3>6, <4>1, <4>2
    <3>9. q + (L + 1) + l = p + j
      BY <3>5, <3>7, <3>8 DEF InStep, Wire
    <3>10. r < k
      <4>1. SUFFICES ASSUME r = k PROVE FALSE
        BY <1>1
      <4>2. q = p /\ j <= L + 1 /\ j # L + 1
        BY <1>1, <1>3, <2>6, <3>5, <3>6, <4>1 DEF SenderAt
      <4> QED BY ONLY <3>9, <4>2, l \in Nat, p \in Nat, j \in Nat, L \in Nat
    <3>11. Wire(channel', text', ReadTo(r + 1)', k, j)
      BY <1>5, <1>6, <3>8 DEF InStep
    <3>12. InStep(r + 1, k, j)'
      BY <1>1, <1>5, <3>4, <3>10, <3>11, SenderStays DEF InStep
    <3> QED BY <3>6, <3>12 DEF TextInv
  <2> QED BY <2>5, <2>6
<1>18. CASE total # L + 1
  <2>1. total = L /\ path = "request"
    BY <1>1, <1>3, <1>7, <1>18
  <2>2. PICK n \in Nat : n = s + (L - 2)
    BY <1>3
  <2>3. n + 1 = s + (L - 1) /\ n \in 0..Len(text) /\ n < Len(both)
    BY <1>3, <1>4, <1>15, <1>16, <2>2
  <2>4. both[n + 1] = 0
    <3>1. L - 1 \in 1..(L - 1) /\ L - 1 + 1 = L /\ L \in 1..L
      BY <1>3
    <3>2. both[s + (L - 1)] = message[L]
      BY <1>15, <3>1
    <3>3. message[L] = 0
      BY <1>7, <2>1, <3>1
    <3> QED BY <2>3, <3>2, <3>3
  <2>5. ASSUME NEW i \in 1..n PROVE both[i] = text[i]
    <3>1. CASE i <= s
      BY <1>15, <3>1
    <3>2. CASE i > s
      <4>1. i - s \in 1..(L - 1) /\ s + (i - s) = i /\ i - s + 1 \in 1..L /\ i - s + 1 < L
        BY <1>3, <2>2, <3>2
      <4>2. both[i] = message[i - s + 1]
        BY <1>15, <4>1
      <4>3. message[i - s + 1] = Message(text, r)[i - s + 1]
        BY <1>7, <2>1, <4>1
      <4>4. Message(text, r)[i - s + 1] = text[i]
        BY <1>16, <4>1
      <4> QED BY <4>2, <4>3, <4>4
    <3> QED BY <3>1, <3>2
  <2>6. Cut'
    BY <1>6, <1>15, <2>1, <2>3, <2>4, <2>5 DEF Cut
  <2> QED BY <2>6 DEF TextInv
<1> QED BY <1>17, <1>18

LEMMA SenderKeepsText == BuffersInv /\ TextInv /\ (SendLength \/ SendBody \/ Disconnect) => TextInv'
<1> SUFFICES ASSUME BuffersInv, TextInv, SendLength \/ SendBody \/ Disconnect PROVE TextInv'
  OBVIOUS
<1>1. UNCHANGED <<path, text, receiverVars>>
  BY DEF SendLength, SendBody, Disconnect
<1>2. UNCHANGED <<path, text, recvPc, collected>>
  BY <1>1 DEF receiverVars
<1>3. CASE recvPc = "failed" \/ (recvPc = "done" /\ collected = text)
  BY <1>2, <1>3 DEF TextInv
<1>4. CASE Cut
  BY <1>2, <1>4 DEF TextInv, Cut
<1>5. CASE text = <<>> /\ channel = <<>> /\ sendPc \in {"sent", "closed"} /\ recvPc = "length"
  <2>1. Disconnect
    BY <1>5 DEF SendLength, SendBody
  <2> QED BY <1>2, <1>5, <2>1 DEF Disconnect, TextInv
<1>6. ASSUME NEW r \in Nat, NEW k \in Nat, NEW j \in Nat, InStep(r, k, j) PROVE TextInv'
  <2>1. CASE SendLength
    <3>1. InStep(r, k, 1)'
      BY <1>6, <2>1, SendLengthInStep
    <3> QED BY <3>1 DEF TextInv
  <2>2. CASE SendBody
    BY <1>6, <2>2, SendBodyInStep DEF TextInv
  <2>3. CASE Disconnect
    <3>1. ReceiverAt(r)' = ReceiverAt(r) /\ ReadTo(r)' = ReadTo(r)
      BY <1>1, ReceiverStays
    <3>2. SenderAt(k, j)'
      BY <1>6, <2>3 DEF InStep, SenderAt, Disconnect
    <3>3. InStep(r, k, j)'
      BY <1>6, <2>3, <3>1, <3>2 DEF InStep, Disconnect
    <3> QED BY <3>3 DEF TextInv
  <2> QED BY <2>1, <2>2, <2>3
<1> QED BY <1>3, <1>4, <1>5, <1>6 DEF TextInv

LEMMA ReceiverKeepsText == BuffersInv /\ TextInv /\ ReceiverNext => TextInv'
<1> SUFFICES ASSUME BuffersInv, TextInv, ReceiverNext PROVE TextInv'
  OBVIOUS
<1>1. UNCHANGED senderVars
  BY DEF ReceiverNext, RecvLength, RecvBody, EndMessage, RecvFails, ReceiverStep
<1>2. UNCHANGED <<path, text, sendPc>>
  BY <1>1 DEF senderVars
<1>3. CASE RecvFails
  BY <1>3 DEF RecvFails, TextInv
<1>4. CASE recvPc \in {"failed", "done"}
  BY <1>4 DEF ReceiverNext, RecvLength, RecvBody, EndMessage, RecvFails
<1>5. CASE Cut
  <2>1. collected \in Seq(Bytes)
    BY DEF BuffersInv, BuffersHold
  <2>2. PICK n \in 0..Len(text) :
           /\ n < Len(collected) /\ collected[n + 1] = 0
           /\ \A i \in 1..n : collected[i] = text[i]
    BY <1>5 DEF Cut
  <2>3. n < Len(collected') /\ \A i \in 1..(n + 1) : collected'[i] = collected[i]
    <3>1. n \in Nat
      BY NetworkAssumption DEF BuffersInv, SenderInv
    <3>2. CASE EndMessage
      <4>1. PICK rest : rest = Tail(message)
        OBVIOUS
      <4>2. rest \in Seq(Bytes) /\ collected' = collected \o rest
        <5>1. message \in Seq(Bytes) /\ message # <<>>
          BY <3>2 DEF EndMessage, BuffersInv, BuffersHold, ReceiverInv, Visible
        <5> QED BY <3>2, <4>1, <5>1 DEF EndMessage
      <4> QED BY <2>1, <2>2, <3>1, <4>2
    <3>3. CASE ~ EndMessage
      <4>1. UNCHANGED collected
        BY <3>3 DEF ReceiverNext, RecvLength, RecvBody, RecvFails
      <4> QED BY <2>2, <4>1
    <3> QED BY <3>2, <3>3
  <2>4. \A i \in 1..n : collected'[i] = text[i] /\ i \in 1..(n + 1)
    BY <2>2, <2>3
  <2>5. collected'[n + 1] = 0
    BY <2>2, <2>3
  <2>6. path = "request"
    BY <1>5 DEF Cut
  <2>7. Cut'
    BY <1>2, <2>3, <2>4, <2>5, <2>6 DEF Cut
  <2> QED BY <2>7 DEF TextInv
<1>6. CASE text = <<>> /\ channel = <<>> /\ recvPc = "length"
  BY <1>3, <1>6 DEF ReceiverNext, RecvLength, RecvBody, EndMessage
<1>7. ASSUME NEW r \in Nat, NEW k \in Nat, NEW j \in Nat, InStep(r, k, j) PROVE TextInv'
  <2>1. CASE RecvLength
    <3>1. InStep(r, k, j)'
      BY <1>7, <2>1, RecvLengthInStep
    <3> QED BY <3>1 DEF TextInv
  <2>2. CASE RecvBody
    <3>1. InStep(r, k, j)'
      BY <1>7, <2>2, RecvBodyInStep
    <3> QED BY <3>1 DEF TextInv
  <2>3. CASE EndMessage
    BY <1>7, <2>3, EndMessageInStep
  <2> QED BY <1>3, <2>1, <2>2, <2>3 DEF ReceiverNext
<1> QED BY <1>4, <1>5, <1>6, <1>7 DEF TextInv

LEMMA TextStep == BuffersInv /\ TextInv /\ [SocketNext]_socketVars => TextInv'
<1> SUFFICES ASSUME BuffersInv, TextInv, UNCHANGED socketVars PROVE TextInv'
  BY SenderKeepsText, ReceiverKeepsText DEF SocketNext
<1>1. UNCHANGED <<path, text, receiverVars>> /\ UNCHANGED <<channel, sendPc, offset, sent>>
  BY DEF socketVars, senderVars
<1>2. \A r : ReceiverAt(r)' = ReceiverAt(r) /\ ReadTo(r)' = ReadTo(r)
  BY <1>1, ReceiverStays
<1>3. \A k, j : SenderAt(k, j)' = SenderAt(k, j)
  BY <1>1 DEF SenderAt
<1>4. \A r, k, j : InStep(r, k, j)' = InStep(r, k, j)
  BY <1>1, <1>2, <1>3 DEF InStep
<1>5. UNCHANGED <<recvPc, collected, text, channel, sendPc>> /\ (Cut <=> Cut')
  BY <1>1 DEF receiverVars, Cut
<1> QED BY <1>4, <1>5 DEF TextInv

\* Sender and receiver work on the same wire, unless a request was cut, for every text and
\* every way its messages are written and read.
THEOREM TextInvariance == SocketSpec => [](BuffersInv /\ TextInv)
BY BuffersInit, BuffersStep, TextInit, TextStep, PTL DEF SocketSpec

\* What ReceiveText makes of what it collected.
LEMMA UpToNulOfText ==
    ASSUME text \in Seq(Visible)
    PROVE  UpToNul(text) = text
<1>1. 0 \notin ToSet(text)
  BY DEF ToSet, Visible
<1> QED BY <1>1 DEF UpToNul

LEMMA UpToNulOfCut ==
    ASSUME BuffersInv, Cut
    PROVE  IsPrefix(UpToNul(collected), text)
<1>1. collected \in Seq(Bytes) /\ text \in Seq(Visible)
  BY DEF BuffersInv, BuffersHold, SenderInv
<1>2. PICK n \in 0..Len(text) :
         /\ n < Len(collected) /\ collected[n + 1] = 0
         /\ \A i \in 1..n : collected[i] = text[i]
  BY DEF Cut
<1>3. n \in Nat /\ n <= Len(text) /\ n + 1 \in 1..Len(collected)
  BY <1>1, <1>2
<1>4. \A i \in 1..n : collected[i] # 0
  BY <1>1, <1>2 DEF Visible
<1> DEFINE First(i) == collected[i] = 0 /\ \A j \in 1..(i - 1) : collected[j] # 0
<1>5. First(n + 1)
  BY <1>2, <1>3, <1>4
<1>6. ASSUME NEW i \in DOMAIN collected, First(i) PROVE i = n + 1
  <2>1. i \in Nat /\ i >= 1
    BY <1>1
  <2>2. CASE i < n + 1
    BY <1>4, <1>6, <2>1, <2>2
  <2>3. CASE i > n + 1
    <3>1. n + 1 \in 1..(i - 1)
      BY <1>3, <2>1, <2>3
    <3> QED BY <1>2, <1>6, <3>1
  <2> QED BY <1>3, <2>1, <2>2, <2>3
<1>7. n + 1 \in DOMAIN collected
  BY <1>1, <1>3
<1> HIDE DEF First
<1> DEFINE first == CHOOSE i \in DOMAIN collected : First(i)
<1>8. first = n + 1
  BY <1>5, <1>6, <1>7
<1>9. 0 \in ToSet(collected)
  BY <1>2, <1>7 DEF ToSet
<1>10. UpToNul(collected) = SubSeq(collected, 1, n)
  <2>1. UpToNul(collected) = SubSeq(collected, 1, first - 1)
    BY <1>9 DEF UpToNul, First
  <2> HIDE DEF first
  <2>2. n + 1 - 1 = n
    BY <1>3
  <2> QED BY <1>8, <2>1, <2>2
<1>11. PICK a : a = SubSeq(collected, 0 + 1, n)
  OBVIOUS
<1>12. a \in Seq(Bytes) /\ Len(a) = n /\ \A i \in 1..n : a[i] = collected[i]
  <2>1. n <= Len(collected) /\ n - 0 = n /\ 0 <= n
    BY <1>1, <1>3
  <2>2. \A i \in 1..n : 0 + i = i
    BY <1>3
  <2> QED BY <1>1, <1>3, <1>11, <2>1, <2>2, PartOf
<1>13. PICK b : b = SubSeq(text, 0 + 1, n)
  OBVIOUS
<1>14. b \in Seq(Visible) /\ Len(b) = n /\ \A i \in 1..n : b[i] = text[i]
  <2>1. n - 0 = n /\ 0 <= n
    BY <1>3
  <2>2. \A i \in 1..n : 0 + i = i
    BY <1>3
  <2> QED BY <1>1, <1>3, <1>13, <2>1, <2>2, PartOf
<1>15. a = b
  <2>1. a \in Seq(Bytes) /\ b \in Seq(Bytes)
    BY <1>12, <1>14 DEF Visible
  <2>2. \A i \in 1..n : a[i] = b[i]
    BY <1>2, <1>12, <1>14
  <2> QED BY <1>12, <1>14, <2>1, <2>2
<1>16. SubSeq(a, 1, Len(a)) = a
  BY <1>12
<1>17. UpToNul(collected) = a /\ SubSeq(text, 1, n) = b
  BY <1>10, <1>11, <1>13
<1> QED BY <1>3, <1>12, <1>15, <1>16, <1>17 DEF IsPrefix

\* On a Unix socket, and from the server to a page, a text that is received is the one
\* that was sent, for every text and every way it is cut into messages and reads.
THEOREM TextsArriveWhole == SocketSpec => []ReceivedWhole
<1>1. BuffersInv /\ TextInv => ReceivedWhole
  <2> SUFFICES ASSUME BuffersInv, TextInv, path # "request", recvPc = "done" PROVE Received = text
    BY DEF ReceivedWhole
  <2>1. collected = text
    BY DEF TextInv, Cut, InStep, ReceiverAt
  <2>2. UpToNul(text) = text
    BY UpToNulOfText DEF BuffersInv, SenderInv
  <2> QED BY <2>1, <2>2 DEF Received
<1> QED BY <1>1, TextInvariance, PTL

\* A request may lose its end (see Incomplete) and is never anything but the beginning of
\* the text.
THEOREM TextsAreNotMadeUp == SocketSpec => []ReceivedIsPrefix
<1>1. BuffersInv /\ TextInv => ReceivedIsPrefix
  <2> SUFFICES ASSUME BuffersInv, TextInv, recvPc = "done" PROVE IsPrefix(Received, text)
    BY DEF ReceivedIsPrefix
  <2>1. CASE Cut
    <3>1. Received = UpToNul(collected)
      BY <2>1 DEF Cut, Received
    <3> QED BY <2>1, <3>1, UpToNulOfCut
  <2>2. CASE ~ Cut
    <3>1. collected = text
      BY <2>2 DEF TextInv, InStep, ReceiverAt
    <3>2. UpToNul(text) = text /\ text \in Seq(Visible)
      BY UpToNulOfText DEF BuffersInv, SenderInv
    <3>3. Received = text
      BY <3>1, <3>2 DEF Received
    <3> QED BY <3>2, <3>3 DEF IsPrefix
  <2> QED BY <2>1, <2>2
<1> QED BY <1>1, TextInvariance, PTL
=============================================================================
