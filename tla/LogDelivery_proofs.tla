------------------------- MODULE LogDelivery_proofs -------------------------
(***************************************************************************)
(* The agent, and the agent with the server, for any number of entries and *)
(* signals: no thread takes from an empty list; a stop that reaches the    *)
(* dbus thread at work leaves nothing in the list that was there; every    *)
(* entry is at one place and the entries of a source stay in order; and,   *)
(* through calls that fail while they are under way, the server is called  *)
(* at most once for an entry and in that order, and every entry that is    *)
(* not in the file is one the agent still has, or knows to have lost, or a *)
(* shell entry.                                                            *)
(***************************************************************************)
EXTENDS LogDelivery, FiniteSetTheorems, TLAPS

\* The labels of one thread are labels.
Labels == ReceiverLabels \cup DbusLabels \cup HandlerLabels

LEMMA TypeInit == Init => TypeOK
<1> SUFFICES ASSUME Init PROVE TypeOK
  OBVIOUS
<1> USE AgentAssumption
<1>1. offered \in Seq(Entries) /\ commands \in Seq(Entries) /\ delivered \in Seq(Entries)
      /\ backlog \in [Receivers -> Seq(Entries)]
  <2>1. <<>> \in Seq(Entries)
    OBVIOUS
  <2>2. backlog \in [Receivers -> Seq(Entries)]
    BY <2>1 DEF Init
  <2>3. offered = <<>> /\ commands = <<>> /\ delivered = <<>>
    BY DEF Init
  <2> QED BY <2>1, <2>2, <2>3
<1>2. /\ pc \in [Threads -> Labels]
      /\ \A r \in Receivers : pc[r] = "start"
      /\ pc["dbus"] = "start" /\ pc["handler"] = "idle"
  BY DEF Init, Threads, Receivers, Labels, ReceiverLabels, DbusLabels, HandlerLabels
<1>3. /\ running \in [Receivers -> BOOLEAN] /\ polled \in [Receivers -> BOOLEAN]
      /\ hand \in [Receivers -> Entries \cup {NoEntry}]
      /\ \A r \in Receivers : hand[r] = NoEntry
  BY DEF Init
<1>4. /\ fdOpen \in BOOLEAN /\ loopRunning \in BOOLEAN /\ command = NoEntry
      /\ failed \in SUBSET Entries /\ dropped \in SUBSET Entries /\ due \in SUBSET Entries
      /\ process \in {"runs", "exited", "terminated"}
  BY Zenon DEF Init
<1>5. signals \in 0..MaxSignals
  BY DEF Init
<1> QED BY <1>1, <1>2, <1>3, <1>4, <1>5 DEF TypeOK, Labels, ReceiverLabels, DbusLabels, HandlerLabels

LEMMA TypeSend == ASSUME TypeOK, NEW e \in Entries, Send(e) PROVE TypeOK'
<1>1. SourceOf[e] \in Receivers
  BY AgentAssumption
<1>2. backlog' \in [Receivers -> Seq(Entries)]
  BY <1>1 DEF TypeOK, Send
<1>3. ASSUME NEW r \in Receivers, pc'[r] = "accept" PROVE backlog'[r] # <<>>
  <2>1. backlog[r] \in Seq(Entries) /\ backlog[r] # <<>>
    BY <1>3 DEF TypeOK, Send
  <2>2. backlog'[r] = IF r = SourceOf[e] THEN Append(backlog[r], e) ELSE backlog[r]
    BY <1>1 DEF TypeOK, Send
  <2>3. Append(backlog[r], e) # <<>>
    BY <2>1
  <2> QED BY <2>1, <2>2, <2>3
<1>4. offered' \in Seq(Entries)
  BY DEF TypeOK, Send
<1> QED BY <1>2, <1>3, <1>4 DEF TypeOK, Send, receiverVars, dbusVars

LEMMA TypeReceiver == ASSUME TypeOK, NEW r \in Receivers, ReceiverNext(r) PROVE TypeOK'
<1> USE DEF ReceiverStep, dbusVars, At, Goto, ReceiverLabels
<1>0. /\ r \in Threads /\ r \notin {"dbus", "handler"}
      /\ pc \in [Threads -> Labels] /\ r \in DOMAIN pc
      /\ Receivers \subseteq Threads /\ "dbus" \in Threads /\ "handler" \in Threads
  BY DEF Receivers, Threads, TypeOK, Labels
<1>1. CASE ReceiverStart(r)
  BY <1>0, <1>1 DEF ReceiverStart, TypeOK, Labels
<1>2. CASE ReceiverWhile(r)
  BY <1>0, <1>2 DEF ReceiverWhile, TypeOK, Labels, receiverVars
<1>3. CASE WaitForData(r)
  BY <1>0, <1>3 DEF WaitForData, TypeOK, Labels
<1>4. CASE PollReturns(r)
  BY <1>0, <1>4 DEF PollReturns, TypeOK, Labels, receiverVars
<1>5. CASE Accept(r)
  <2>1. backlog[r] \in Seq(Entries) /\ backlog[r] # <<>>
    BY <1>5 DEF Accept, AcceptStep, TypeOK
  <2>2. Head(backlog[r]) \in Entries /\ Tail(backlog[r]) \in Seq(Entries)
    BY <2>1
  <2>3. Head(backlog[r]) # NoEntry
    BY <2>2, AgentAssumption
  <2> QED BY <1>0, <1>5, <2>2, <2>3 DEF Accept, AcceptStep, TypeOK, Labels
<1>6. CASE AcceptThrows(r)
  BY <1>0, <1>6 DEF AcceptThrows, TypeOK, Labels, receiverVars
<1>7. CASE AddCommand(r)
  <2>1. hand[r] \in Entries
    BY <1>7 DEF AddCommand, TypeOK
  <2>2. commands' = Append(commands, hand[r]) /\ commands \in Seq(Entries)
    BY <1>7 DEF AddCommand, TypeOK
  <2>3. commands' \in Seq(Entries) /\ commands' # <<>>
    BY <2>1, <2>2
  <2> QED BY <1>0, <1>7, <2>3 DEF AddCommand, TypeOK, Labels
<1>8. CASE r = "apache" /\ DropMalformed
  BY <1>0, <1>8 DEF DropMalformed, AcceptStep, TypeOK, Labels
<1> QED BY <1>1, <1>2, <1>3, <1>4, <1>5, <1>6, <1>7, <1>8 DEF ReceiverNext

LEMMA TypeDbus == TypeOK /\ DbusNext => TypeOK'
<1> SUFFICES ASSUME TypeOK, DbusNext PROVE TypeOK'
  OBVIOUS
<1> USE DEF DbusStep, senderVars, receiverVars, dbusVars, At, Goto, DbusLabels
<1>0. /\ "dbus" \in Threads /\ Receivers \subseteq Threads \ {"dbus"} /\ "handler" \in Threads
      /\ pc \in [Threads -> Labels]
  BY DEF Receivers, Threads, TypeOK, Labels
<1>1. CASE DbusStart
  BY <1>0, <1>1 DEF DbusStart, TypeOK, Labels
<1>2. CASE DbusWhile
  BY <1>0, <1>2 DEF DbusWhile, TypeOK, Labels
<1>3. CASE IsCommandAvailable
  BY <1>0, <1>3 DEF IsCommandAvailable, TypeOK, Labels
<1>4. CASE GetCommand
  <2>1. commands \in Seq(Entries) /\ commands # <<>>
    BY <1>4 DEF GetCommand, TypeOK
  <2>2. Head(commands) \in Entries /\ Tail(commands) \in Seq(Entries)
    BY <2>1
  <2>3. Head(commands) # NoEntry
    BY <2>2, AgentAssumption
  <2> QED BY <1>0, <1>4, <2>2, <2>3 DEF GetCommand, TypeOK, Labels
<1>5. CASE Execute
  <2>1. command \in Entries
    BY <1>5 DEF Execute, ReplyReceived, NoReply, CallReturns, TypeOK
  <2>2. Append(delivered, command) \in Seq(Entries)
    BY <2>1 DEF TypeOK
  <2>3. delivered' \in Seq(Entries) /\ failed' \in SUBSET Entries
    BY <1>5, <2>1, <2>2 DEF Execute, ReplyReceived, NoReply, CallReturns, TypeOK
  <2> QED BY <1>0, <1>5, <2>3 DEF Execute, ReplyReceived, NoReply, CallReturns, TypeOK, Labels
<1>6. CASE Usleep
  BY <1>0, <1>6 DEF Usleep, TypeOK, Labels
<1>7. CASE ExecuteThrows
  BY <1>7 DEF ExecuteThrows, TypeOK
<1> QED BY <1>1, <1>2, <1>3, <1>4, <1>5, <1>6, <1>7 DEF DbusNext, DbusLocal

LEMMA ContentsType == ASSUME NEW S, NEW s \in Seq(S) PROVE Contents(s) \subseteq S
BY DEF Contents

LEMMA TypeHandler == TypeOK /\ (Signal \/ HandlerNext) => TypeOK'
<1> SUFFICES ASSUME TypeOK, Signal \/ HandlerNext PROVE TypeOK'
  OBVIOUS
<1> USE DEF HandlerStep, senderVars, At, Goto, HandlerLabels
<1>0. /\ "handler" \in Threads /\ Receivers \subseteq Threads \ {"handler"} /\ "dbus" \in Threads
      /\ pc \in [Threads -> Labels] /\ {"apache", "bash"} = Receivers
  BY DEF Receivers, Threads, TypeOK, Labels
<1>1. CASE Signal
  BY <1>0, <1>1, AgentAssumption DEF Signal, TypeOK, Labels
<1>2. CASE StopApache
  BY <1>0, <1>2 DEF StopApache, TypeOK, Labels
<1>3. CASE StopBash
  BY <1>0, <1>3 DEF StopBash, TypeOK, Labels
<1>4. CASE StopBashFd
  BY <1>0, <1>4 DEF StopBashFd, TypeOK, Labels
<1>5. CASE StopDbus
  <2>1. due' \in SUBSET Entries
    BY <1>5, ContentsType DEF StopDbus, TypeOK
  <2> QED BY <1>0, <1>5, <2>1 DEF StopDbus, TypeOK, Labels
<1> QED BY <1>1, <1>2, <1>3, <1>4, <1>5 DEF HandlerNext

LEMMA TypeStep == TypeOK /\ [Next]_vars => TypeOK'
<1> SUFFICES ASSUME TypeOK, [Next]_vars PROVE TypeOK'
  OBVIOUS
<1>1. CASE Exit
  BY <1>1 DEF Exit, TypeOK, senderVars, receiverVars, dbusVars
<1>2. CASE UNCHANGED vars
  BY <1>2 DEF vars, TypeOK, senderVars, receiverVars, dbusVars
<1> QED BY <1>1, <1>2, TypeSend, TypeReceiver, TypeDbus, TypeHandler DEF Next, LocalNext, DbusNext, Ended

\* Type correctness of the agent.  A receiver accepts only when a connection waits, and
\* front() and pop_front() never meet an empty list: the dbus thread alone takes from it.
THEOREM TypeCorrect == Spec => []TypeOK
BY TypeInit, TypeStep, PTL DEF Spec

-----------------------------------------------------------------------------
(***************************************************************************)
(* A stop that comes while the dbus thread is in its inner loop.  What was *)
(* in the list stays in the list, in the thread's hand or executed, and    *)
(* the inner loop ends only with an empty list.                            *)
(***************************************************************************)
DrainInv ==
    /\ TypeOK
    /\ due \subseteq Executed \cup Contents(commands) \cup {command}
    /\ pc["dbus"] \notin InnerLoop => due \subseteq Executed

LEMMA ContentsAppend ==
    ASSUME NEW S, NEW s \in Seq(S), NEW e
    PROVE  Contents(Append(s, e)) = Contents(s) \cup {e}
<1>1. Len(s) \in Nat /\ DOMAIN s = 1..Len(s)
  OBVIOUS
<1> DEFINE t == Append(s, e)
<1>2. /\ DOMAIN t = 1..(Len(s) + 1) /\ t[Len(s) + 1] = e
      /\ \A i \in 1..Len(s) : t[i] = s[i]
  OBVIOUS
<1>3. \A i \in 1..(Len(s) + 1) : i \in 1..Len(s) \/ i = Len(s) + 1
  BY <1>1
<1>4. Len(s) + 1 \in 1..(Len(s) + 1) /\ 1..Len(s) \subseteq 1..(Len(s) + 1)
  BY <1>1
<1> HIDE DEF t
<1>5. Contents(t) = Contents(s) \cup {e}
  BY <1>1, <1>2, <1>3, <1>4, Zenon DEF Contents
<1> QED BY <1>5 DEF t

LEMMA ContentsHead ==
    ASSUME NEW S, NEW s \in Seq(S), s # <<>>
    PROVE  Contents(s) \subseteq {Head(s)} \cup Contents(Tail(s))
<1> SUFFICES ASSUME NEW i \in DOMAIN s, s[i] # Head(s)
             PROVE  \E j \in DOMAIN Tail(s) : Tail(s)[j] = s[i]
  BY DEF Contents
<1>1. i \in 2..Len(s)
  OBVIOUS
<1>2. i - 1 \in DOMAIN Tail(s) /\ Tail(s)[i - 1] = s[i]
  BY <1>1
<1> QED BY <1>2

LEMMA DrainInit == Init => DrainInv
BY TypeInit DEF Init, DrainInv

LEMMA DrainDbus == DrainInv /\ TypeOK' /\ DbusNext => DrainInv'
<1> SUFFICES ASSUME DrainInv, TypeOK', DbusNext PROVE DrainInv'
  OBVIOUS
<1> USE DEF DbusStep, dbusVars, At, Goto, InnerLoop
<1>0. /\ TypeOK /\ pc \in [Threads -> Labels] /\ "dbus" \in Threads
      /\ due \in SUBSET Entries /\ NoEntry \notin Entries
      /\ delivered \in Seq(Entries) /\ commands \in Seq(Entries)
  BY AgentAssumption DEF DrainInv, TypeOK, Labels, Threads
<1>1. CASE DbusStart \/ DbusWhile \/ Usleep
  BY <1>0, <1>1 DEF DbusStart, DbusWhile, Usleep, DrainInv, Executed
<1>2. CASE IsCommandAvailable
  <2>1. UNCHANGED <<commands, command, due, Executed>>
    BY <1>2 DEF IsCommandAvailable, Executed
  <2>2. ASSUME pc'["dbus"] \notin InnerLoop PROVE due \subseteq Executed
    <3>1. Contents(commands) = {}
      BY <1>0, <1>2, <2>2 DEF IsCommandAvailable, Contents
    <3>2. command = NoEntry
      BY <1>2 DEF IsCommandAvailable, DrainInv, TypeOK
    <3> QED BY <1>0, <3>1, <3>2 DEF DrainInv
  <2> QED BY <2>1, <2>2 DEF DrainInv
<1>3. CASE GetCommand
  <2>1. command = NoEntry /\ commands # <<>>
    BY <1>3 DEF GetCommand, DrainInv, TypeOK
  <2>2. Contents(commands) \subseteq {command'} \cup Contents(commands')
    BY <1>0, <1>3, <2>1, ContentsHead DEF GetCommand
  <2>3. UNCHANGED <<due, Executed>> /\ pc'["dbus"] = "execute"
    BY <1>0, <1>3 DEF GetCommand, Executed
  <2> QED BY <1>0, <2>1, <2>2, <2>3 DEF DrainInv
<1>4. CASE Execute
  <2>1. Executed' = Executed \cup {command}
    <3>1. CASE delivered' = Append(delivered, command) /\ UNCHANGED failed
      BY <1>0, <3>1, ContentsAppend DEF Executed
    <3>2. CASE failed' = failed \cup {command} /\ UNCHANGED delivered
      BY <3>2 DEF Executed
    <3> QED BY <1>4, <3>1, <3>2 DEF Execute, ReplyReceived, NoReply, CallReturns
  <2>2. UNCHANGED <<due, commands>> /\ pc'["dbus"] = "available"
    BY <1>0, <1>4 DEF Execute, ReplyReceived, NoReply, CallReturns
  <2> QED BY <2>1, <2>2 DEF DrainInv
<1>5. CASE ExecuteThrows
  BY <1>5 DEF ExecuteThrows, DrainInv, Executed
<1> QED BY <1>1, <1>2, <1>3, <1>4, <1>5 DEF DbusNext, DbusLocal

LEMMA DrainStep == DrainInv /\ [Next]_vars => DrainInv'
<1> SUFFICES ASSUME DrainInv, [Next]_vars PROVE DrainInv'
  OBVIOUS
<1>0. TypeOK /\ TypeOK' /\ commands \in Seq(Entries) /\ pc \in [Threads -> Labels]
      /\ Threads = {"apache", "bash", "dbus", "handler"} /\ Receivers = {"apache", "bash"}
  BY TypeStep DEF DrainInv, TypeOK, Labels, Threads, Receivers
<1>1. ASSUME UNCHANGED <<commands, dbusVars, due>>, pc'["dbus"] = pc["dbus"] PROVE DrainInv'
  BY <1>0, <1>1 DEF DrainInv, Executed, dbusVars
<1>2. ASSUME NEW r \in Receivers, ReceiverNext(r) PROVE DrainInv'
  <2>1. pc'["dbus"] = pc["dbus"]
    BY <1>0, <1>2 DEF ReceiverNext, ReceiverStart, ReceiverWhile, WaitForData, PollReturns,
       Accept, AcceptStep, AcceptThrows, AddCommand, DropMalformed, Goto
  <2>2. UNCHANGED <<dbusVars, due>>
    BY <1>2 DEF ReceiverNext, ReceiverStart, ReceiverWhile, WaitForData, PollReturns,
       Accept, AcceptStep, AcceptThrows, AddCommand, DropMalformed, ReceiverStep
  <2>3. CASE UNCHANGED commands
    BY <1>1, <2>1, <2>2, <2>3
  <2>4. CASE AddCommand(r)
    <3>1. Contents(commands') = Contents(commands) \cup {hand[r]}
      BY <1>0, <2>4, ContentsAppend DEF AddCommand
    <3> QED BY <1>0, <2>1, <2>2, <3>1 DEF DrainInv, Executed, dbusVars
  <2> QED BY <1>2, <2>3, <2>4 DEF ReceiverNext, ReceiverStart, ReceiverWhile, WaitForData,
         PollReturns, Accept, AcceptStep, AcceptThrows, DropMalformed
<1>3. ASSUME HandlerNext \/ Signal PROVE DrainInv'
  <2>1. pc'["dbus"] = pc["dbus"] /\ UNCHANGED <<commands, command, delivered, failed>>
    BY <1>0, <1>3 DEF Signal, HandlerNext, StopApache, StopBash, StopBashFd, StopDbus, Goto,
       HandlerStep
  <2>2. CASE UNCHANGED due
    BY <1>0, <2>1, <2>2 DEF DrainInv, Executed
  <2>3. CASE StopDbus
    <3>1. due' = IF pc["dbus"] \in InnerLoop THEN due \cup Contents(commands) ELSE due
      BY <2>3 DEF StopDbus
    <3> QED BY <1>0, <2>1, <3>1 DEF DrainInv, Executed
  <2> QED BY <1>3, <2>2, <2>3 DEF Signal, HandlerNext, StopApache, StopBash, StopBashFd
<1>4. CASE \E e \in Entries : Send(e)
  BY <1>1, <1>4 DEF Send
<1>5. CASE Exit
  BY <1>1, <1>5 DEF Exit
<1>6. CASE UNCHANGED vars
  BY <1>1, <1>6 DEF vars
<1> QED BY <1>0, <1>2, <1>3, <1>4, <1>5, <1>6, DrainDbus DEF Next, LocalNext, DbusNext, Ended

\* The commands a stop found in the list while the dbus thread worked on it are executed
\* when its loop ends, however many there are and whatever the receivers add meanwhile.
THEOREM StopAlwaysDrains == Spec => []StopDrainsTheList
<1>1. Spec => []DrainInv
  BY DrainInit, DrainStep, PTL DEF Spec
<1>2. DrainInv => StopDrainsTheList
  BY DEF DrainInv, StopDrainsTheList, InnerLoop
<1> QED BY <1>1, <1>2, PTL

-----------------------------------------------------------------------------
(***************************************************************************)
(* Where the entries are.  An entry goes from a backlog to a receiver's    *)
(* hand, to the list, to the dbus thread and to the server, and at every   *)
(* stage the entries of one source that are further on were sent before    *)
(* those behind them.  Sent once, an entry is not before itself, so that   *)
(* it is at one stage only.                                                *)
(***************************************************************************)
Before(o, a, b) == \E k, m \in DOMAIN o : k < m /\ o[k] = a /\ o[m] = b

Precede(o, A, B) == \A a \in A, b \in B : SourceOf[a] = SourceOf[b] => Before(o, a, b)

Sorted(o, s) ==
    \A i, j \in DOMAIN s : i < j /\ SourceOf[s[i]] = SourceOf[s[j]] => Before(o, s[i], s[j])

Distinct(s) == \A i, j \in DOMAIN s : s[i] = s[j] => i = j

Arrived == Contents(delivered)
Executing == {command} \ {NoEntry}
Listed == Contents(commands)
InHand == {hand[r] : r \in Receivers} \ {NoEntry}
Waiting == UNION {Contents(backlog[r]) : r \in Receivers}

\* The order of the stages.
StagesInOrder(o, D, X, C, H, W) ==
    /\ Precede(o, D, X \cup C \cup H \cup W)
    /\ Precede(o, X, C \cup H \cup W)
    /\ Precede(o, C, H \cup W)
    /\ Precede(o, H, W)

\* Every entry sent is at a stage, or failed, or was dropped.
Places(O, D, X, C, H, W, F, M) ==
    /\ O = D \cup X \cup C \cup H \cup W \cup F \cup M
    /\ (D \cup X \cup C \cup H \cup W) \cap (F \cup M) = {} /\ F \cap M = {}

SourcesKept ==
    \A r \in Receivers : /\ hand[r] # NoEntry => SourceOf[hand[r]] = r
                         /\ \A e \in Contents(backlog[r]) : SourceOf[e] = r

PlaceInv ==
    /\ TypeOK /\ SourcesKept /\ Distinct(offered)
    /\ Sorted(offered, delivered) /\ Sorted(offered, commands)
    /\ \A r \in Receivers : Sorted(offered, backlog[r])
    /\ StagesInOrder(offered, Arrived, Executing, Listed, InHand, Waiting)
    /\ Places(Contents(offered), Arrived, Executing, Listed, InHand, Waiting, failed, dropped)

\* Lists that grow at the end and shrink at the front.
LEMMA AppendFacts ==
    ASSUME NEW S, NEW s \in Seq(S), NEW e
    PROVE  LET t == Append(s, e) IN
           /\ DOMAIN s = 1..Len(s) /\ Len(s) \in Nat /\ DOMAIN t = 1..(Len(s) + 1)
           /\ t[Len(s) + 1] = e /\ \A i \in 1..Len(s) : t[i] = s[i]
OBVIOUS

LEMMA TailFacts ==
    ASSUME NEW S, NEW s \in Seq(S), s # <<>>
    PROVE  /\ DOMAIN s = 1..Len(s) /\ Len(s) \in Nat \ {0} /\ Head(s) = s[1]
           /\ DOMAIN Tail(s) = 1..(Len(s) - 1)
           /\ \A i \in 1..(Len(s) - 1) : Tail(s)[i] = s[i + 1]
OBVIOUS

LEMMA ContentsTail ==
    ASSUME NEW S, NEW s \in Seq(S), s # <<>>
    PROVE  Contents(s) = {Head(s)} \cup Contents(Tail(s))
<1>1. Contents(s) \subseteq {Head(s)} \cup Contents(Tail(s))
  BY ContentsHead
<1>2. Head(s) \in Contents(s)
  BY TailFacts DEF Contents
<1>3. ASSUME NEW i \in 1..(Len(s) - 1) PROVE Tail(s)[i] \in Contents(s)
  <2>1. i + 1 \in DOMAIN s
    BY TailFacts
  <2> QED BY <2>1, TailFacts DEF Contents
<1>4. Contents(Tail(s)) \subseteq Contents(s)
  BY <1>3, TailFacts DEF Contents
<1> QED BY <1>1, <1>2, <1>4

\* What was sent in some order stays sent in that order.
LEMMA BeforeStays ==
    ASSUME NEW S, NEW o \in Seq(S), NEW e, NEW a, NEW b, Before(o, a, b)
    PROVE  Before(Append(o, e), a, b)
<1> DEFINE t == Append(o, e)
<1>1. PICK k, m \in DOMAIN o : k < m /\ o[k] = a /\ o[m] = b
  BY DEF Before
<1>2. k \in 1..Len(o) /\ m \in 1..Len(o) /\ Len(o) \in Nat
  BY <1>1
<1>3. k \in DOMAIN t /\ m \in DOMAIN t /\ t[k] = a /\ t[m] = b
  BY <1>1, <1>2, AppendFacts
<1> HIDE DEF t
<1> QED BY <1>1, <1>3 DEF Before, t

LEMMA BeforeLast ==
    ASSUME NEW S, NEW o \in Seq(S), NEW e, NEW a \in Contents(o)
    PROVE  Before(Append(o, e), a, e)
<1> DEFINE t == Append(o, e)
<1>1. PICK k \in DOMAIN o : o[k] = a
  BY DEF Contents
<1>2. k \in 1..Len(o) /\ Len(o) \in Nat /\ Len(o) + 1 \in 1..(Len(o) + 1)
  BY <1>1
<1>3. k \in DOMAIN t /\ Len(o) + 1 \in DOMAIN t /\ t[k] = a /\ t[Len(o) + 1] = e /\ k < Len(o) + 1
  BY <1>1, <1>2, AppendFacts
<1> HIDE DEF t
<1> QED BY <1>3 DEF Before, t

LEMMA NotBeforeItself ==
    ASSUME NEW S, NEW o \in Seq(S), Distinct(o), NEW a
    PROVE  ~ Before(o, a, a)
BY DEF Before, Distinct

LEMMA SortedAppend ==
    ASSUME NEW S, NEW s \in Seq(S), NEW o, NEW e, Sorted(o, s), Precede(o, Contents(s), {e})
    PROVE  Sorted(o, Append(s, e))
<1> DEFINE t == Append(s, e)
<1>1. SUFFICES ASSUME NEW i \in DOMAIN t, NEW j \in DOMAIN t, i < j, SourceOf[t[i]] = SourceOf[t[j]]
               PROVE  Before(o, t[i], t[j])
  BY DEF Sorted
<1>2. i \in 1..Len(s) /\ t[i] = s[i] /\ Len(s) \in Nat /\ j \in 1..(Len(s) + 1)
  BY <1>1, AppendFacts
<1>3. CASE j \in 1..Len(s)
  <2>1. t[j] = s[j] /\ i \in DOMAIN s /\ j \in DOMAIN s
    BY <1>2, <1>3, AppendFacts
  <2> QED BY <1>1, <1>2, <2>1 DEF Sorted
<1>4. CASE j = Len(s) + 1
  <2>1. t[j] = e /\ t[i] \in Contents(s)
    BY <1>2, <1>4, AppendFacts DEF Contents
  <2> HIDE DEF t
  <2> QED BY <1>1, <2>1 DEF Precede
<1> QED BY <1>2, <1>3, <1>4

LEMMA SortedTail ==
    ASSUME NEW S, NEW s \in Seq(S), NEW o, s # <<>>, Sorted(o, s)
    PROVE  Sorted(o, Tail(s)) /\ Precede(o, {Head(s)}, Contents(Tail(s)))
<1> DEFINE t == Tail(s)
<1>0. /\ DOMAIN s = 1..Len(s) /\ Len(s) \in Nat \ {0} /\ Head(s) = s[1]
      /\ DOMAIN t = 1..(Len(s) - 1) /\ \A i \in 1..(Len(s) - 1) : t[i] = s[i + 1]
  BY TailFacts
<1> HIDE DEF t
<1>1. ASSUME NEW i \in DOMAIN t, NEW j \in DOMAIN t, i < j, SourceOf[t[i]] = SourceOf[t[j]]
      PROVE  Before(o, t[i], t[j])
  <2>1. i + 1 \in DOMAIN s /\ j + 1 \in DOMAIN s /\ i + 1 < j + 1
    BY <1>0, <1>1
  <2> QED BY <1>0, <1>1, <2>1 DEF Sorted
<1>2. ASSUME NEW j \in DOMAIN t, SourceOf[Head(s)] = SourceOf[t[j]] PROVE Before(o, Head(s), t[j])
  <2>1. 1 \in DOMAIN s /\ j + 1 \in DOMAIN s /\ 1 < j + 1
    BY <1>0
  <2> QED BY <1>0, <1>2, <2>1 DEF Sorted
<1>3. Sorted(o, t) /\ Precede(o, {Head(s)}, Contents(t))
  BY <1>1, <1>2 DEF Sorted, Precede, Contents
<1> QED BY <1>3 DEF t

LEMMA PlaceInit == Init => PlaceInv
<1> SUFFICES ASSUME Init PROVE PlaceInv
  OBVIOUS
<1>1. TypeOK
  BY TypeInit
<1>2. /\ Contents(offered) = {} /\ Arrived = {} /\ Executing = {} /\ Listed = {} /\ InHand = {}
      /\ Waiting = {} /\ failed = {} /\ dropped = {}
  BY DEF Init, Contents, Arrived, Executing, Listed, InHand, Waiting
<1>3. Distinct(offered) /\ Sorted(offered, delivered) /\ Sorted(offered, commands)
  BY DEF Init, Distinct, Sorted
<1>4. \A r \in Receivers : Sorted(offered, backlog[r])
  BY DEF Init, Sorted
<1>5. SourcesKept
  BY DEF Init, SourcesKept, Contents
<1>6. StagesInOrder(offered, Arrived, Executing, Listed, InHand, Waiting)
  BY <1>2 DEF StagesInOrder, Precede
<1>7. Places(Contents(offered), Arrived, Executing, Listed, InHand, Waiting, failed, dropped)
  BY <1>2 DEF Places
<1> QED BY <1>1, <1>3, <1>4, <1>5, <1>6, <1>7 DEF PlaceInv

\* A step that moves no entry.
LEMMA PlaceUnmoved ==
    ASSUME PlaceInv, TypeOK', UNCHANGED <<offered, backlog, hand, commands, command, delivered, failed, dropped>>
    PROVE  PlaceInv'
BY DEF PlaceInv, SourcesKept, Arrived, Executing, Listed, InHand, Waiting

LEMMA StageTypes ==
    ASSUME TypeOK
    PROVE  /\ offered \in Seq(Entries) /\ delivered \in Seq(Entries) /\ commands \in Seq(Entries)
           /\ \A r \in Receivers : backlog[r] \in Seq(Entries)
           /\ Arrived \subseteq Entries /\ Executing \subseteq Entries /\ Listed \subseteq Entries
           /\ InHand \subseteq Entries /\ Waiting \subseteq Entries
<1>1. /\ offered \in Seq(Entries) /\ delivered \in Seq(Entries) /\ commands \in Seq(Entries)
      /\ \A r \in Receivers : backlog[r] \in Seq(Entries) /\ hand[r] \in Entries \cup {NoEntry}
      /\ command \in Entries \cup {NoEntry}
  BY DEF TypeOK
<1>2. \A r \in Receivers : Contents(backlog[r]) \subseteq Entries
  BY <1>1, ContentsType
<1> QED BY <1>1, <1>2, ContentsType DEF Arrived, Executing, Listed, InHand, Waiting

LEMMA PlaceSend == ASSUME PlaceInv, NEW e \in Entries, Send(e) PROVE PlaceInv'
<1>0. /\ TypeOK /\ TypeOK' /\ e \notin Contents(offered) /\ SourceOf[e] \in Receivers
      /\ offered' = Append(offered, e)
      /\ backlog' = [backlog EXCEPT ![SourceOf[e]] = Append(@, e)]
      /\ UNCHANGED <<hand, commands, command, delivered, failed, dropped>>
      /\ backlog \in [Receivers -> Seq(Entries)]
  BY TypeSend, AgentAssumption DEF PlaceInv, Send, receiverVars, dbusVars, TypeOK
<1> DEFINE q == SourceOf[e]
<1>1. /\ \A r \in Receivers : backlog'[r] = IF r = q THEN Append(backlog[r], e) ELSE backlog[r]
      /\ \A r \in Receivers : backlog[r] \in Seq(Entries)
  BY <1>0
<1>2. \A r \in Receivers : Contents(backlog'[r]) = IF r = q THEN Contents(backlog[r]) \cup {e}
                                                    ELSE Contents(backlog[r])
  BY <1>1, ContentsAppend
<1>3. Waiting' = Waiting \cup {e}
  <2>1. /\ Waiting = Contents(backlog["apache"]) \cup Contents(backlog["bash"])
        /\ Waiting' = Contents(backlog'["apache"]) \cup Contents(backlog'["bash"])
    BY DEF Waiting, Receivers
  <2> QED BY <1>0, <1>2, <2>1 DEF Receivers
<1>4. UNCHANGED <<Arrived, Executing, Listed, InHand>>
  BY <1>0 DEF Arrived, Executing, Listed, InHand
<1>5. Contents(offered') = Contents(offered) \cup {e}
  BY <1>0, StageTypes, ContentsAppend
<1>6. \A a, b : Before(offered, a, b) => Before(offered', a, b)
  BY <1>0, StageTypes, BeforeStays
<1>7. \A a \in Contents(offered) : Before(offered', a, e)
  BY <1>0, StageTypes, BeforeLast
<1>8. /\ Arrived \subseteq Contents(offered) /\ Executing \subseteq Contents(offered)
      /\ Listed \subseteq Contents(offered) /\ InHand \subseteq Contents(offered)
      /\ Waiting \subseteq Contents(offered)
  BY DEF PlaceInv, Places
<1>9. SourcesKept'
  <2>1. ASSUME NEW r \in Receivers, NEW x \in Contents(backlog'[r]) PROVE SourceOf[x] = r
    BY <1>2, <2>1 DEF PlaceInv, SourcesKept
  <2> QED BY <1>0, <2>1 DEF PlaceInv, SourcesKept
<1>10. Distinct(offered')
  <2>1. offered \in Seq(Entries) /\ Distinct(offered)
    BY <1>0, StageTypes DEF PlaceInv
  <2>2. /\ DOMAIN offered = 1..Len(offered) /\ Len(offered) \in Nat
        /\ DOMAIN offered' = 1..(Len(offered) + 1)
        /\ offered'[Len(offered) + 1] = e /\ \A i \in 1..Len(offered) : offered'[i] = offered[i]
    BY <1>0, <2>1, AppendFacts
  <2>3. \A i \in 1..Len(offered) : offered[i] # e
    BY <1>0, <2>2 DEF Contents
  <2> QED BY <2>1, <2>2, <2>3 DEF Distinct
<1>11. Sorted(offered', delivered') /\ Sorted(offered', commands')
  BY <1>0, <1>6 DEF PlaceInv, Sorted
<1>12. ASSUME NEW r \in Receivers PROVE Sorted(offered', backlog'[r])
  <2>1. Sorted(offered', backlog[r])
    BY <1>6 DEF PlaceInv, Sorted
  <2>2. Contents(backlog[r]) \subseteq Contents(offered)
    BY <1>8 DEF Waiting
  <2>3. Precede(offered', Contents(backlog[r]), {e})
    BY <1>7, <2>2 DEF Precede
  <2>4. Sorted(offered', Append(backlog[r], e))
    BY <1>1, <2>1, <2>3, SortedAppend
  <2> QED BY <1>1, <2>1, <2>4
<1>13. StagesInOrder(offered', Arrived', Executing', Listed', InHand', Waiting')
  BY <1>3, <1>4, <1>6, <1>7, <1>8 DEF PlaceInv, StagesInOrder, Precede
<1>14. Places(Contents(offered'), Arrived', Executing', Listed', InHand', Waiting', failed', dropped')
  <2>1. e \notin failed /\ e \notin dropped
    BY <1>0 DEF PlaceInv, Places
  <2> QED BY <1>0, <1>3, <1>4, <1>5, <2>1 DEF PlaceInv, Places
<1> QED BY <1>0, <1>9, <1>10, <1>11, <1>12, <1>13, <1>14 DEF PlaceInv

\* No entry is at two stages.
LEMMA StagesDisjoint ==
    ASSUME PlaceInv
    PROVE  /\ Arrived \cap (Executing \cup Listed \cup InHand \cup Waiting) = {}
           /\ Executing \cap (Listed \cup InHand \cup Waiting) = {}
           /\ Listed \cap (InHand \cup Waiting) = {} /\ InHand \cap Waiting = {}
<1>1. \A a : ~ Before(offered, a, a)
  BY StageTypes, NotBeforeItself DEF PlaceInv
<1> QED BY <1>1 DEF PlaceInv, StagesInOrder, Precede

\* A connection is accepted: its entry leaves the front of the backlog.
LEMMA TakeWaiting ==
    ASSUME PlaceInv, NEW r \in Receivers, AcceptStep(r)
    PROVE  LET x == Head(backlog[r]) IN
           /\ x \in Entries /\ SourceOf[x] = r /\ Waiting = {x} \cup Waiting'
           /\ Precede(offered, {x}, Waiting') /\ hand[r] = NoEntry
           /\ \A q \in Receivers : Sorted(offered, backlog'[q])
           /\ \A q \in Receivers : Contents(backlog'[q]) \subseteq Contents(backlog[q])
<1> DEFINE x == Head(backlog[r])
<1>0. /\ backlog \in [Receivers -> Seq(Entries)] /\ backlog[r] \in Seq(Entries) /\ backlog[r] # <<>>
      /\ backlog' = [backlog EXCEPT ![r] = Tail(@)] /\ hand[r] = NoEntry
  BY DEF AcceptStep, At, PlaceInv, TypeOK
<1>1. \A q \in Receivers : backlog'[q] = IF q = r THEN Tail(backlog[r]) ELSE backlog[q]
  BY <1>0
<1>2. Contents(backlog[r]) = {x} \cup Contents(Tail(backlog[r]))
  BY <1>0, ContentsTail
<1>3. Sorted(offered, Tail(backlog[r])) /\ Precede(offered, {x}, Contents(Tail(backlog[r])))
  BY <1>0, SortedTail DEF PlaceInv
<1>4. /\ Waiting = Contents(backlog["apache"]) \cup Contents(backlog["bash"])
      /\ Waiting' = Contents(backlog'["apache"]) \cup Contents(backlog'["bash"])
  BY DEF Waiting, Receivers
<1>5. x \in Entries /\ SourceOf[x] = r
  BY <1>0, <1>2 DEF PlaceInv, SourcesKept
<1>6. Waiting = {x} \cup Waiting'
  BY <1>1, <1>2, <1>4 DEF Receivers
<1>7. \A q \in Receivers : Contents(backlog'[q]) \subseteq Contents(backlog[q])
  BY <1>1, <1>2
<1>8. ASSUME NEW y \in Waiting', SourceOf[x] = SourceOf[y] PROVE Before(offered, x, y)
  <2>1. y \in Contents(backlog'[r])
    BY <1>4, <1>5, <1>7, <1>8 DEF PlaceInv, SourcesKept, Receivers
  <2> QED BY <1>1, <1>3, <1>8, <2>1 DEF Precede
<1>9. Precede(offered, {x}, Waiting')
  BY <1>8 DEF Precede
<1>10. \A q \in Receivers : Sorted(offered, backlog'[q])
  BY <1>1, <1>3 DEF PlaceInv
<1> QED BY <1>0, <1>5, <1>6, <1>7, <1>9, <1>10

LEMMA PlaceAccept == ASSUME PlaceInv, TypeOK', NEW r \in Receivers, Accept(r) PROVE PlaceInv'
<1> DEFINE x == Head(backlog[r])
<1>0. /\ x \in Entries /\ SourceOf[x] = r /\ Waiting = {x} \cup Waiting' /\ hand[r] = NoEntry
      /\ Precede(offered, {x}, Waiting')
      /\ \A q \in Receivers : Sorted(offered, backlog'[q])
      /\ \A q \in Receivers : Contents(backlog'[q]) \subseteq Contents(backlog[q])
  BY TakeWaiting DEF Accept
<1>1. /\ hand' = [hand EXCEPT ![r] = x] /\ hand \in [Receivers -> Entries \cup {NoEntry}]
      /\ UNCHANGED <<offered, commands, command, delivered, failed, dropped>>
  BY DEF Accept, AcceptStep, ReceiverStep, dbusVars, PlaceInv, TypeOK
<1> HIDE DEF x
<1>2. InHand' = InHand \cup {x}
  <2>1. x # NoEntry /\ \A q \in Receivers : hand'[q] = IF q = r THEN x ELSE hand[q]
    BY <1>0, <1>1, AgentAssumption
  <2> QED BY <1>0, <2>1 DEF InHand
<1>3. UNCHANGED <<Arrived, Executing, Listed>>
  BY <1>1 DEF Arrived, Executing, Listed
<1>4. SourcesKept'
  <2>1. \A q \in Receivers : hand'[q] # NoEntry => SourceOf[hand'[q]] = q
    BY <1>0, <1>1 DEF PlaceInv, SourcesKept
  <2>2. ASSUME NEW q \in Receivers, NEW y \in Contents(backlog'[q]) PROVE SourceOf[y] = q
    BY <1>0, <2>2 DEF PlaceInv, SourcesKept
  <2> QED BY <2>1, <2>2 DEF SourcesKept
<1>5. StagesInOrder(offered', Arrived', Executing', Listed', InHand', Waiting')
  BY <1>0, <1>1, <1>2, <1>3 DEF PlaceInv, StagesInOrder, Precede
<1>6. Places(Contents(offered'), Arrived', Executing', Listed', InHand', Waiting', failed', dropped')
  BY <1>0, <1>1, <1>2, <1>3 DEF PlaceInv, Places
<1> QED BY <1>0, <1>1, <1>4, <1>5, <1>6 DEF PlaceInv

LEMMA PlaceDrop == ASSUME PlaceInv, TypeOK', DropMalformed PROVE PlaceInv'
<1> DEFINE x == Head(backlog["apache"])
<1>0. /\ x \in Entries /\ Waiting = {x} \cup Waiting' /\ Precede(offered, {x}, Waiting')
      /\ \A q \in Receivers : Sorted(offered, backlog'[q])
      /\ \A q \in Receivers : Contents(backlog'[q]) \subseteq Contents(backlog[q])
  BY TakeWaiting DEF DropMalformed, Receivers
<1>1. /\ dropped' = dropped \cup {x}
      /\ UNCHANGED <<offered, hand, commands, command, delivered, failed>>
  BY DEF DropMalformed, AcceptStep, ReceiverStep, dbusVars
<1> HIDE DEF x
<1>2. UNCHANGED <<Arrived, Executing, Listed, InHand>>
  BY <1>1 DEF Arrived, Executing, Listed, InHand
<1>3. x \notin Waiting' /\ x \notin Arrived \cup Executing \cup Listed \cup InHand /\ x \notin failed
  <2>1. ~ Before(offered, x, x)
    BY StageTypes, NotBeforeItself DEF PlaceInv
  <2> QED BY <1>0, <2>1, StagesDisjoint DEF Precede, PlaceInv, Places
<1>4. SourcesKept'
  BY <1>0, <1>1 DEF PlaceInv, SourcesKept
<1>5. StagesInOrder(offered', Arrived', Executing', Listed', InHand', Waiting')
  BY <1>0, <1>1, <1>2 DEF PlaceInv, StagesInOrder, Precede
<1>6. Places(Contents(offered'), Arrived', Executing', Listed', InHand', Waiting', failed', dropped')
  BY <1>0, <1>1, <1>2, <1>3 DEF PlaceInv, Places
<1> QED BY <1>0, <1>1, <1>4, <1>5, <1>6 DEF PlaceInv

LEMMA PlaceAdd == ASSUME PlaceInv, TypeOK', NEW r \in Receivers, AddCommand(r) PROVE PlaceInv'
<1> DEFINE x == hand[r]
<1>0. /\ x \in Entries /\ SourceOf[x] = r /\ x \in InHand /\ x # NoEntry
      /\ commands' = Append(commands, x) /\ commands \in Seq(Entries)
      /\ hand' = [hand EXCEPT ![r] = NoEntry] /\ hand \in [Receivers -> Entries \cup {NoEntry}]
      /\ UNCHANGED <<offered, backlog, command, delivered, failed, dropped>>
  BY AgentAssumption
     DEF AddCommand, At, ReceiverStep, dbusVars, PlaceInv, TypeOK, SourcesKept, InHand
<1>1. Listed' = Listed \cup {x} /\ UNCHANGED <<Arrived, Executing, Waiting>>
  BY <1>0, ContentsAppend DEF Listed, Arrived, Executing, Waiting
<1>2. \A q \in Receivers : hand'[q] = IF q = r THEN NoEntry ELSE hand[q]
  BY <1>0
<1>3. InHand = InHand' \cup {x}
  BY <1>0, <1>2 DEF InHand
<1>4. \A y \in InHand' : SourceOf[y] # SourceOf[x]
  BY <1>0, <1>2 DEF InHand, PlaceInv, SourcesKept
<1>5. Sorted(offered, commands')
  <2>1. Precede(offered, Contents(commands), {x})
    BY <1>0 DEF PlaceInv, StagesInOrder, Listed, Precede
  <2> HIDE DEF x
  <2> QED BY <1>0, <2>1, SortedAppend DEF PlaceInv
<1> HIDE DEF x
<1>6. SourcesKept'
  BY <1>0, <1>2 DEF PlaceInv, SourcesKept
<1>7. StagesInOrder(offered', Arrived', Executing', Listed', InHand', Waiting')
  BY <1>0, <1>1, <1>3, <1>4 DEF PlaceInv, StagesInOrder, Precede
<1>8. Places(Contents(offered'), Arrived', Executing', Listed', InHand', Waiting', failed', dropped')
  BY <1>0, <1>1, <1>3 DEF PlaceInv, Places
<1> QED BY <1>0, <1>5, <1>6, <1>7, <1>8 DEF PlaceInv

LEMMA PlaceGet == ASSUME PlaceInv, TypeOK', GetCommand PROVE PlaceInv'
<1> DEFINE x == Head(commands)
<1>0. /\ commands \in Seq(Entries) /\ commands # <<>> /\ command = NoEntry
      /\ command' = x /\ commands' = Tail(commands)
      /\ UNCHANGED <<offered, backlog, hand, delivered, failed, dropped>>
  BY DEF GetCommand, At, DbusStep, senderVars, receiverVars, PlaceInv, TypeOK
<1>1. Listed = {x} \cup Listed' /\ x \in Entries /\ x # NoEntry
  BY <1>0, ContentsTail, AgentAssumption DEF Listed
<1>2. Sorted(offered, commands') /\ Precede(offered, {x}, Listed')
  BY <1>0, SortedTail DEF PlaceInv, Listed
<1> HIDE DEF x
<1>3. Executing = {} /\ Executing' = {x} /\ UNCHANGED <<Arrived, InHand, Waiting>>
  BY <1>0, <1>1 DEF Executing, Arrived, InHand, Waiting
<1>4. SourcesKept'
  BY <1>0 DEF PlaceInv, SourcesKept
<1>5. StagesInOrder(offered', Arrived', Executing', Listed', InHand', Waiting')
  BY <1>0, <1>1, <1>2, <1>3 DEF PlaceInv, StagesInOrder, Precede
<1>6. Places(Contents(offered'), Arrived', Executing', Listed', InHand', Waiting', failed', dropped')
  BY <1>0, <1>1, <1>3 DEF PlaceInv, Places
<1> QED BY <1>0, <1>2, <1>4, <1>5, <1>6 DEF PlaceInv

LEMMA PlaceExecute == ASSUME PlaceInv, TypeOK', Execute PROVE PlaceInv'
<1>0. /\ command \in Entries /\ command # NoEntry /\ Executing = {command} /\ Executing' = {}
      /\ delivered \in Seq(Entries)
      /\ UNCHANGED <<offered, backlog, hand, commands, dropped>>
  BY AgentAssumption
     DEF Execute, ReplyReceived, NoReply, CallReturns, At, DbusStep, senderVars, receiverVars, PlaceInv, TypeOK, Executing
<1>1. UNCHANGED <<Listed, InHand, Waiting>> /\ SourcesKept'
  BY <1>0 DEF Listed, InHand, Waiting, PlaceInv, SourcesKept
<1>2. CASE delivered' = Append(delivered, command) /\ UNCHANGED failed
  <2>1. Arrived' = Arrived \cup {command}
    BY <1>0, <1>2, ContentsAppend DEF Arrived
  <2>2. Precede(offered, Contents(delivered), {command})
    BY <1>0 DEF PlaceInv, StagesInOrder, Precede, Arrived
  <2>3. Sorted(offered, delivered')
    BY <1>0, <1>2, <2>2, SortedAppend DEF PlaceInv
  <2>4. StagesInOrder(offered', Arrived', Executing', Listed', InHand', Waiting')
    BY <1>0, <1>1, <2>1 DEF PlaceInv, StagesInOrder, Precede
  <2>5. Places(Contents(offered'), Arrived', Executing', Listed', InHand', Waiting', failed', dropped')
    BY <1>0, <1>1, <1>2, <2>1 DEF PlaceInv, Places
  <2> QED BY <1>0, <1>1, <2>3, <2>4, <2>5 DEF PlaceInv
<1>3. CASE failed' = failed \cup {command} /\ UNCHANGED delivered
  <2>1. UNCHANGED Arrived
    BY <1>3 DEF Arrived
  <2>2. StagesInOrder(offered', Arrived', Executing', Listed', InHand', Waiting')
    BY <1>0, <1>1, <2>1 DEF PlaceInv, StagesInOrder, Precede
  <2>3. command \notin Arrived \cup Listed \cup InHand \cup Waiting \cup dropped
    BY <1>0, StagesDisjoint DEF PlaceInv, Places
  <2>4. Places(Contents(offered'), Arrived', Executing', Listed', InHand', Waiting', failed', dropped')
    BY <1>0, <1>1, <1>3, <2>1, <2>3 DEF PlaceInv, Places
  <2> QED BY <1>0, <1>1, <1>3, <2>2, <2>4 DEF PlaceInv
<1> QED BY <1>2, <1>3 DEF Execute, ReplyReceived, NoReply, CallReturns

LEMMA PlaceStep == PlaceInv /\ [Next]_vars => PlaceInv'
<1> SUFFICES ASSUME PlaceInv, [Next]_vars PROVE PlaceInv'
  OBVIOUS
<1>0. TypeOK'
  BY TypeStep DEF PlaceInv
<1>1. CASE \E e \in Entries : Send(e)
  BY <1>1, PlaceSend
<1>2. ASSUME NEW r \in Receivers, ReceiverNext(r) PROVE PlaceInv'
  <2>1. CASE ReceiverStart(r) \/ ReceiverWhile(r) \/ WaitForData(r) \/ PollReturns(r) \/ AcceptThrows(r)
    BY <1>0, <2>1, PlaceUnmoved DEF ReceiverStart, ReceiverWhile, WaitForData, PollReturns,
       AcceptThrows, ReceiverStep, receiverVars, dbusVars
  <2> QED BY <1>0, <1>2, <2>1, PlaceAccept, PlaceDrop, PlaceAdd DEF ReceiverNext
<1>3. CASE DbusNext
  <2>1. CASE DbusStart \/ DbusWhile \/ IsCommandAvailable \/ Usleep
    BY <1>0, <2>1, PlaceUnmoved DEF DbusStart, DbusWhile, IsCommandAvailable, Usleep,
       DbusStep, senderVars, receiverVars, dbusVars
  <2>2. CASE ExecuteThrows
    BY <1>0, <2>2, PlaceUnmoved DEF ExecuteThrows, senderVars, receiverVars, dbusVars
  <2> QED BY <1>0, <1>3, <2>1, <2>2, PlaceGet, PlaceExecute DEF DbusNext, DbusLocal
<1>4. CASE Signal \/ HandlerNext
  BY <1>0, <1>4, PlaceUnmoved DEF Signal, HandlerNext, StopApache, StopBash, StopBashFd, StopDbus,
     HandlerStep, senderVars
<1>5. CASE Exit
  BY <1>0, <1>5, PlaceUnmoved DEF Exit, senderVars, receiverVars, dbusVars
<1>6. CASE UNCHANGED vars
  BY <1>0, <1>6, PlaceUnmoved DEF vars, senderVars, receiverVars, dbusVars
<1> QED BY <1>1, <1>2, <1>3, <1>4, <1>5, <1>6 DEF Next, LocalNext, DbusNext, Ended

\* Every entry sent is at one place on its way, for any number of entries and signals.
THEOREM Invariance == Spec => []PlaceInv
BY PlaceInit, PlaceStep, PTL DEF Spec

\* The entries of a source reach the server in the order they were sent.
THEOREM AlwaysInOrder == Spec => []ForwardedInOrder
<1>1. PlaceInv => ForwardedInOrder
  BY DEF PlaceInv, Sorted, Before, ForwardedInOrder
<1> QED BY <1>1, Invariance, PTL

\* Two lists without a common member, one after the other.
LEMMA DistinctConcat ==
    ASSUME NEW S, NEW s \in Seq(S), NEW t \in Seq(S), Distinct(s), Distinct(t),
           Contents(s) \cap Contents(t) = {}
    PROVE  /\ s \o t \in Seq(S) /\ Distinct(s \o t)
           /\ Contents(s \o t) = Contents(s) \cup Contents(t)
<1> DEFINE u == s \o t
<1>1. /\ u \in Seq(S) /\ DOMAIN u = 1..(Len(s) + Len(t))
      /\ DOMAIN s = 1..Len(s) /\ DOMAIN t = 1..Len(t) /\ Len(s) \in Nat /\ Len(t) \in Nat
      /\ \A i \in 1..Len(s) : u[i] = s[i]
      /\ \A i \in (Len(s) + 1)..(Len(s) + Len(t)) : u[i] = t[i - Len(s)]
  OBVIOUS
<1> HIDE DEF u
<1>2. \A i \in DOMAIN u : \/ i \in DOMAIN s /\ u[i] = s[i]
                          \/ i - Len(s) \in DOMAIN t /\ u[i] = t[i - Len(s)]
  BY <1>1
<1>3. \A i \in DOMAIN s : i \in DOMAIN u /\ u[i] = s[i]
  BY <1>1
<1>4. \A i \in DOMAIN t : i + Len(s) \in DOMAIN u /\ u[i + Len(s)] = t[i]
  BY <1>1
<1>5. ASSUME NEW i \in DOMAIN u, NEW j \in DOMAIN u, u[i] = u[j] PROVE i = j
  <2>1. CASE i \in DOMAIN s /\ u[i] = s[i] /\ j \in DOMAIN s /\ u[j] = s[j]
    BY <1>5, <2>1 DEF Distinct
  <2>2. CASE /\ i - Len(s) \in DOMAIN t /\ u[i] = t[i - Len(s)]
             /\ j - Len(s) \in DOMAIN t /\ u[j] = t[j - Len(s)]
    <3>1. i - Len(s) = j - Len(s)
      BY <1>5, <2>2 DEF Distinct
    <3> QED BY <1>1, <3>1
  <2>3. \A k \in DOMAIN s, m \in DOMAIN t : s[k] # t[m]
    BY DEF Contents
  <2> QED BY <1>2, <1>5, <2>1, <2>2, <2>3
<1>6. Contents(u) = Contents(s) \cup Contents(t)
  <2>1. Contents(u) \subseteq Contents(s) \cup Contents(t)
    BY <1>2 DEF Contents
  <2>2. Contents(s) \subseteq Contents(u)
    BY <1>3 DEF Contents
  <2>3. Contents(t) \subseteq Contents(u)
    BY <1>4 DEF Contents
  <2> QED BY <2>1, <2>2, <2>3
<1> QED BY <1>1, <1>5, <1>6 DEF Distinct, u

\* A member of such a list is at one position.
LEMMA OnePosition ==
    ASSUME NEW s, Distinct(s), NEW e
    PROVE  Cardinality({i \in DOMAIN s : s[i] = e}) = IF e \in Contents(s) THEN 1 ELSE 0
<1>1. CASE e \in Contents(s)
  <2>1. PICK k \in DOMAIN s : s[k] = e
    BY <1>1 DEF Contents
  <2>2. {i \in DOMAIN s : s[i] = e} = {k}
    BY <2>1 DEF Distinct
  <2> QED BY <1>1, <2>2, FS_Singleton
<1>2. CASE e \notin Contents(s)
  <2>1. {i \in DOMAIN s : s[i] = e} = {}
    BY <1>2 DEF Contents
  <2> QED BY <1>2, <2>1, FS_EmptySet
<1> QED BY <1>1, <1>2

LEMMA SortedDistinct ==
    ASSUME PlaceInv, NEW s \in Seq(Entries), Sorted(offered, s)
    PROVE  Distinct(s)
<1>1. \A a : ~ Before(offered, a, a)
  BY StageTypes, NotBeforeItself DEF PlaceInv
<1>2. SUFFICES ASSUME NEW i \in DOMAIN s, NEW j \in DOMAIN s, s[i] = s[j], i # j PROVE FALSE
  BY DEF Distinct
<1>3. i < j \/ j < i
  BY <1>2
<1> QED BY <1>1, <1>2, <1>3 DEF Sorted

\* No entry vanishes and none is forwarded twice, with both receivers adding to the list
\* while the dbus thread takes from it, for any number of entries and signals.
THEOREM EntriesOnce == Spec => []EachEntryOnce
<1>1. ASSUME PlaceInv PROVE EachEntryOnce
  <2> DEFINE w == backlog["apache"] \o backlog["bash"]
             v == w \o commands
             ways == v \o delivered
  <2>1. /\ backlog["apache"] \in Seq(Entries) /\ backlog["bash"] \in Seq(Entries)
        /\ commands \in Seq(Entries) /\ delivered \in Seq(Entries)
        /\ Distinct(backlog["apache"]) /\ Distinct(backlog["bash"])
        /\ Distinct(commands) /\ Distinct(delivered)
    BY <1>1, StageTypes, SortedDistinct DEF PlaceInv, Receivers
  <2>2. /\ Waiting = Contents(backlog["apache"]) \cup Contents(backlog["bash"])
        /\ Contents(backlog["apache"]) \cap Contents(backlog["bash"]) = {}
    BY <1>1 DEF Waiting, Receivers, PlaceInv, SourcesKept
  <2>3. w \in Seq(Entries) /\ Distinct(w) /\ Contents(w) = Waiting
    BY <2>1, <2>2, DistinctConcat
  <2> HIDE DEF w
  <2>4. Waiting \cap Listed = {} /\ (Waiting \cup Listed) \cap Arrived = {}
    BY <1>1, StagesDisjoint
  <2>5. v \in Seq(Entries) /\ Distinct(v) /\ Contents(v) = Waiting \cup Listed
    BY <2>1, <2>3, <2>4, DistinctConcat DEF Listed
  <2> HIDE DEF v
  <2>6. Distinct(ways) /\ Contents(ways) = Waiting \cup Listed \cup Arrived
    BY <2>1, <2>4, <2>5, DistinctConcat DEF Arrived
  <2> HIDE DEF ways
  <2>7. ASSUME NEW e \in Contents(offered)
        PROVE  Cardinality({i \in DOMAIN ways : ways[i] = e})
                 + Cardinality({s \in {Held, failed, dropped} : e \in s}) = 1
    <3>1. e \in Entries /\ e # NoEntry
      BY <1>1, <2>7, StageTypes, ContentsType, AgentAssumption DEF PlaceInv
    <3>2. e \in Held <=> e \in Executing \cup InHand
      BY <3>1 DEF Held, Executing, InHand
    <3>3. Cardinality({i \in DOMAIN ways : ways[i] = e}) = IF e \in Contents(ways) THEN 1 ELSE 0
      BY <2>6, OnePosition
    <3>4. CASE e \in Contents(ways)
      <4>1. e \notin Held /\ e \notin failed /\ e \notin dropped
        BY <1>1, <2>6, <3>2, <3>4, StagesDisjoint DEF PlaceInv, Places
      <4>2. {s \in {Held, failed, dropped} : e \in s} = {}
        BY <4>1
      <4>3. Cardinality({s \in {Held, failed, dropped} : e \in s}) = 0
        BY <4>2, FS_EmptySet, Zenon
      <4> QED BY <3>3, <3>4, <4>3
    <3>5. CASE e \notin Contents(ways)
      <4>1. e \in Held \cup failed \cup dropped
        BY <1>1, <2>6, <2>7, <3>2, <3>5 DEF PlaceInv, Places
      <4>2. PICK s \in {Held, failed, dropped} : {x \in {Held, failed, dropped} : e \in x} = {s}
        <5>1. CASE e \in Held
          <6>1. e \notin failed /\ e \notin dropped
            BY <1>1, <3>2, <5>1 DEF PlaceInv, Places
          <6> QED BY <5>1, <6>1
        <5>2. CASE e \in failed
          <6>1. e \notin Held /\ e \notin dropped
            BY <1>1, <3>2, <5>2 DEF PlaceInv, Places
          <6> QED BY <5>2, <6>1
        <5>3. CASE e \in dropped
          <6>1. e \notin Held /\ e \notin failed
            BY <1>1, <3>2, <5>3 DEF PlaceInv, Places
          <6> QED BY <5>3, <6>1
        <5> QED BY <4>1, <5>1, <5>2, <5>3
      <4>3. Cardinality({x \in {Held, failed, dropped} : e \in x}) = 1
        BY <4>2, FS_Singleton, Zenon
      <4> QED BY <3>3, <3>5, <4>3
    <3> QED BY <3>4, <3>5
  <2> QED BY <2>7 DEF EachEntryOnce, ways, v, w
<1> QED BY <1>1, Invariance, PTL

-----------------------------------------------------------------------------
(***************************************************************************)
(* The agent with the server.  A call is made when its entry is on the bus *)
(* or was taken by the server; calls that were made belong to the command  *)
(* at hand or to one executed, so everything the agent has yet to send     *)
(* comes after them.                                                       *)
(***************************************************************************)
Made == Contents(bus) \cup called
Behind == Listed \cup InHand \cup Waiting

CallsType ==
    /\ bus \in Seq(Entries) /\ waiting \in BOOLEAN /\ called \in SUBSET Entries
    /\ ledger \in [Entries -> Server!States]

DeliveryInv ==
    /\ PlaceInv /\ CallsType
    /\ waiting => pc["dbus"] = "execute"
    /\ Made \subseteq Executed \cup Executing
    /\ Sorted(offered, bus) /\ Precede(offered, called, Contents(bus))
    /\ Precede(offered, Made, Behind) /\ (~ waiting => Precede(offered, Made, Executing))
    /\ Contents(delivered) \subseteq answered
    /\ answered \subseteq called
    /\ answered \cap ApacheEntries \subseteq Stored

LEMMA ServerEntries == Server!AllEntries = Entries
BY AgentAssumption DEF Server!AllEntries, ApacheEntries, BashEntries, Receivers

\* Every step of the agent with the server is one of the agent or leaves it alone.
LEMMA AgentMoves == DeliveryNext => [Next]_vars
<1> SUFFICES ASSUME DeliveryNext PROVE [Next]_vars
  OBVIOUS
<1>1. CASE AgentStep
  BY <1>1 DEF AgentStep, Next
<1>2. CASE SendThrows
  BY <1>2 DEF SendThrows, Next
<1>3. CASE Return
  BY <1>3 DEF Return, Next, Execute
<1>4. CASE SendMessage \/ TakeCall \/ ServerStep \/ LoseCalls
  BY <1>4 DEF SendMessage, TakeCall, ServerStep, LoseCalls
<1> QED BY <1>1, <1>2, <1>3, <1>4 DEF DeliveryNext

\* The agent of LogDelivery is AgentForwarder: the refinement mapping is the identity on
\* the agent's variables, so that every theorem about the agent holds with the server too.
THEOREM DeliveryImplementsAgent == DeliverySpec => Spec
<1>1. DeliveryInit => Init
  BY DEF DeliveryInit
<1>2. [DeliveryNext]_deliveryVars => [Next]_vars
  BY AgentMoves DEF deliveryVars
<1> QED BY <1>1, <1>2, PTL DEF DeliverySpec, Spec

LEMMA DeliveryStart == DeliveryInit => DeliveryInv
<1> SUFFICES ASSUME DeliveryInit PROVE DeliveryInv
  OBVIOUS
<1>1. /\ PlaceInv /\ bus = <<>> /\ waiting = FALSE /\ called = {} /\ answered = {}
      /\ ledger = [l \in Entries |-> "absent"] /\ delivered = <<>>
  BY PlaceInit, ServerEntries DEF DeliveryInit, Init, Server!LedgerInit
<1>2. CallsType
  <2>1. bus \in Seq(Entries) /\ called \in SUBSET Entries
    BY <1>1
  <2>2. ledger \in [Entries -> Server!States]
    BY <1>1 DEF Server!States
  <2> QED BY <1>1, <2>1, <2>2, Zenon DEF CallsType
<1>3. Contents(bus) = {} /\ Contents(delivered) = {} /\ Made = {}
  BY <1>1 DEF Contents, Made
<1>4. Sorted(offered, bus) /\ Precede(offered, called, Contents(bus))
      /\ Precede(offered, Made, Behind) /\ Precede(offered, Made, Executing)
  BY <1>1, <1>3 DEF Sorted, Precede
<1> QED BY <1>1, <1>2, <1>3, <1>4 DEF DeliveryInv

\* What DeliveryInv says of the sets involved.
LEMMA MadeFacts ==
    ASSUME DeliveryInv
    PROVE  /\ TypeOK /\ offered \in Seq(Entries) /\ Distinct(offered)
           /\ bus \in Seq(Entries) /\ Contents(bus) \subseteq Entries
           /\ Made \subseteq Entries /\ Made \subseteq Contents(offered)
<1>1. /\ TypeOK /\ Distinct(offered) /\ bus \in Seq(Entries) /\ called \subseteq Entries
      /\ Made \subseteq Executed \cup Executing
  BY DEF DeliveryInv, PlaceInv, CallsType
<1>2. Contents(bus) \subseteq Entries /\ offered \in Seq(Entries)
  BY <1>1, ContentsType DEF TypeOK
<1>3. Executed \cup Executing \subseteq Contents(offered)
  BY DEF DeliveryInv, PlaceInv, Places, Executed, Arrived
<1> QED BY <1>1, <1>2, <1>3 DEF Made

\* A step of the agent's own that sends nothing and takes no command.
LEMMA KeptByAgent ==
    ASSUME DeliveryInv, PlaceInv', UNCHANGED <<offered, command, delivered, failed>>,
           UNCHANGED <<bus, waiting, serverVars>>, Behind' \subseteq Behind,
           waiting => pc'["dbus"] = "execute"
    PROVE  DeliveryInv'
<1>1. UNCHANGED <<Made, Executed, Executing, Stored, CallsType, bus, called, answered, waiting>>
  BY DEF serverVars, Made, Executed, Executing, Stored, CallsType
<1>2. Precede(offered', Made', Behind')
  BY <1>1 DEF DeliveryInv, Precede
<1> QED BY <1>1, <1>2 DEF DeliveryInv

LEMMA KeptBySend ==
    ASSUME DeliveryInv, NEW e \in Entries, Send(e), UNCHANGED <<bus, waiting, serverVars>>
    PROVE  DeliveryInv'
<1>0. /\ offered' = Append(offered, e) /\ SourceOf[e] \in Receivers
      /\ backlog' = [backlog EXCEPT ![SourceOf[e]] = Append(@, e)]
      /\ UNCHANGED <<pc, hand, commands, command, delivered, failed>>
      /\ backlog \in [Receivers -> Seq(Entries)]
  BY MadeFacts, AgentAssumption DEF Send, receiverVars, dbusVars, TypeOK
<1>1. /\ UNCHANGED <<Made, Executed, Executing, Stored, CallsType, bus, called, answered, waiting>>
      /\ UNCHANGED <<Listed, InHand>>
  BY <1>0 DEF serverVars, Made, Executed, Executing, Stored, CallsType, Listed, InHand
<1>2. Waiting' \subseteq Waiting \cup {e}
  <2>1. \A r \in Receivers : backlog'[r] = IF r = SourceOf[e] THEN Append(backlog[r], e) ELSE backlog[r]
    BY <1>0
  <2>2. \A r \in Receivers : Contents(backlog'[r]) \subseteq Contents(backlog[r]) \cup {e}
    BY <1>0, <2>1, ContentsAppend
  <2> QED BY <2>2 DEF Waiting
<1>3. \A a, b : Before(offered, a, b) => Before(offered', a, b)
  BY <1>0, MadeFacts, BeforeStays
<1>4. \A a \in Made : Before(offered', a, e)
  BY <1>0, MadeFacts, BeforeLast
<1>5. Precede(offered', Made', Behind')
  BY <1>1, <1>2, <1>3, <1>4 DEF DeliveryInv, Precede, Behind
<1>6. /\ Sorted(offered', bus') /\ Precede(offered', called', Contents(bus'))
      /\ ~ waiting' => Precede(offered', Made', Executing')
  BY <1>1, <1>3 DEF DeliveryInv, Sorted, Precede
<1>7. PlaceInv'
  BY PlaceSend DEF DeliveryInv
<1> QED BY <1>0, <1>1, <1>5, <1>6, <1>7 DEF DeliveryInv

LEMMA KeptByGet ==
    ASSUME DeliveryInv, PlaceInv', GetCommand, UNCHANGED <<bus, waiting, serverVars>>
    PROVE  DeliveryInv'
<1>0. /\ commands \in Seq(Entries) /\ commands # <<>> /\ command = NoEntry /\ ~ waiting
      /\ command' = Head(commands) /\ commands' = Tail(commands)
      /\ UNCHANGED <<offered, backlog, hand, delivered, failed>>
  BY DEF GetCommand, At, DbusStep, senderVars, receiverVars, DeliveryInv, PlaceInv, TypeOK
<1>1. /\ UNCHANGED <<Made, Executed, Stored, CallsType, bus, called, answered, waiting, InHand, Waiting>>
      /\ Executing = {}
  BY <1>0 DEF serverVars, Made, Executed, Executing, Stored, CallsType, InHand, Waiting
<1>2. Executing' \subseteq Listed /\ Listed' \subseteq Listed
  BY <1>0, ContentsTail DEF Executing, Listed
<1>3. Precede(offered', Made', Behind') /\ Precede(offered', Made', Executing')
  BY <1>0, <1>1, <1>2 DEF DeliveryInv, Precede, Behind
<1>4. Made' \subseteq Executed' \cup Executing'
  BY <1>1 DEF DeliveryInv
<1> QED BY <1>0, <1>1, <1>3, <1>4 DEF DeliveryInv

\* What is behind shrinks as the receivers work: entries leave it for the dbus thread or
\* are dropped.
LEMMA ReceiverBehind ==
    ASSUME PlaceInv, NEW r \in Receivers, ReceiverNext(r)
    PROVE  Behind' \subseteq Behind /\ UNCHANGED <<offered, command, delivered, failed, pc["dbus"]>>
<1>0. UNCHANGED <<offered, command, delivered, failed, pc["dbus"]>>
  BY DEF ReceiverNext, ReceiverStart, ReceiverWhile, WaitForData, PollReturns, Accept, AcceptStep,
     AcceptThrows, AddCommand, DropMalformed, ReceiverStep, dbusVars, Goto, PlaceInv, TypeOK,
     Receivers, Threads
<1>1. CASE ReceiverStart(r) \/ ReceiverWhile(r) \/ WaitForData(r) \/ PollReturns(r) \/ AcceptThrows(r)
  BY <1>0, <1>1 DEF ReceiverStart, ReceiverWhile, WaitForData, PollReturns, AcceptThrows,
     receiverVars, Behind, Listed, InHand, Waiting
<1>2. CASE Accept(r)
  <2>1. /\ Head(backlog[r]) \in Waiting /\ Waiting' \subseteq Waiting
        /\ hand' = [hand EXCEPT ![r] = Head(backlog[r])] /\ UNCHANGED commands
        /\ hand \in [Receivers -> Entries \cup {NoEntry}]
    BY <1>2, TakeWaiting DEF Accept, AcceptStep, PlaceInv, TypeOK
  <2>2. InHand' \subseteq InHand \cup {Head(backlog[r])}
    <3> DEFINE x == Head(backlog[r])
    <3>1. \A q \in Receivers : hand'[q] = IF q = r THEN x ELSE hand[q]
      BY <2>1
    <3> QED BY <3>1 DEF InHand
  <2> QED BY <1>0, <2>1, <2>2 DEF Behind, Listed
<1>3. CASE r = "apache" /\ DropMalformed
  <2>1. Waiting' \subseteq Waiting /\ UNCHANGED <<hand, commands>>
    BY <1>3, TakeWaiting DEF DropMalformed, AcceptStep
  <2> QED BY <1>0, <2>1 DEF Behind, Listed, InHand
<1>4. CASE AddCommand(r)
  <2>1. /\ hand[r] \in InHand /\ hand' = [hand EXCEPT ![r] = NoEntry] /\ UNCHANGED backlog
        /\ commands' = Append(commands, hand[r]) /\ commands \in Seq(Entries)
        /\ hand \in [Receivers -> Entries \cup {NoEntry}]
    BY <1>4 DEF AddCommand, At, PlaceInv, TypeOK, InHand
  <2>2. Listed' = Listed \cup {hand[r]}
    BY <2>1, ContentsAppend DEF Listed
  <2>3. InHand' \subseteq InHand
    BY <2>1 DEF InHand
  <2> QED BY <1>0, <2>1, <2>2, <2>3 DEF Behind, Waiting
<1> QED BY <1>1, <1>2, <1>3, <1>4 DEF ReceiverNext

LEMMA KeptByAgentStep == ASSUME DeliveryInv, AgentStep PROVE DeliveryInv'
<1>0. UNCHANGED <<bus, waiting, serverVars>> /\ LocalNext /\ PlaceInv' /\ TypeOK
  BY PlaceStep, MadeFacts DEF AgentStep, DeliveryInv, Next
<1>1. CASE \E e \in Entries : Send(e)
  BY <1>0, <1>1, KeptBySend
<1>2. CASE \E r \in Receivers : ReceiverNext(r)
  BY <1>0, <1>2, ReceiverBehind, KeptByAgent DEF DeliveryInv
<1>3. CASE GetCommand
  BY <1>0, <1>3, KeptByGet
<1>4. CASE DbusStart \/ DbusWhile \/ IsCommandAvailable \/ Usleep
  <2>1. ~ waiting /\ UNCHANGED <<offered, command, delivered, failed, Behind>>
    BY <1>4 DEF DbusStart, DbusWhile, IsCommandAvailable, Usleep, At, DbusStep, senderVars,
       receiverVars, dbusVars, DeliveryInv, Behind, Listed, InHand, Waiting
  <2> QED BY <1>0, <2>1, KeptByAgent
<1>5. CASE Signal \/ HandlerNext
  <2>1. UNCHANGED <<offered, command, delivered, failed, Behind>> /\ pc'["dbus"] = pc["dbus"]
    BY <1>0, <1>5 DEF Signal, HandlerNext, StopApache, StopBash, StopBashFd, StopDbus, HandlerStep,
       senderVars, Behind, Listed, InHand, Waiting, Goto, TypeOK, Threads
  <2> QED BY <1>0, <2>1, KeptByAgent DEF DeliveryInv
<1>6. CASE Exit \/ Ended
  <2>1. UNCHANGED <<offered, command, delivered, failed, Behind, pc>>
    BY <1>6 DEF Exit, Ended, vars, senderVars, receiverVars, dbusVars, Behind, Listed, InHand, Waiting
  <2> QED BY <1>0, <2>1, KeptByAgent DEF DeliveryInv
<1> QED BY <1>0, <1>1, <1>2, <1>3, <1>4, <1>5, <1>6 DEF LocalNext, DbusLocal

\* A call is sent: it comes after every call made before, and before all that is behind.
LEMMA KeptBySendMessage == ASSUME DeliveryInv, SendMessage PROVE DeliveryInv'
<1>0. /\ bus \in Seq(Entries) /\ pc["dbus"] = "execute" /\ ~ waiting
      /\ bus' = Append(bus, command) /\ waiting' = TRUE
      /\ UNCHANGED <<vars, ledger, called, answered>>
      /\ command \in Entries /\ Executing = {command}
  BY AgentAssumption DEF SendMessage, At, serverVars, DeliveryInv, PlaceInv, CallsType, TypeOK, Executing
<1>1. PlaceInv' /\ UNCHANGED <<offered, delivered, pc, Executed, Executing, Behind, Stored>>
  BY <1>0, PlaceUnmoved, PlaceStep
     DEF DeliveryInv, vars, senderVars, receiverVars, dbusVars, Executed, Executing, Behind, Listed,
         InHand, Waiting, Stored
<1>2. Contents(bus') = Contents(bus) \cup {command} /\ Made' = Made \cup {command}
  BY <1>0, ContentsAppend DEF Made
<1>3. /\ Precede(offered, Made, {command})
      /\ Precede(offered, {command}, Behind)
  BY <1>0 DEF DeliveryInv, PlaceInv, StagesInOrder, Precede, Behind
<1>4. Sorted(offered, bus')
  <2>1. Precede(offered, Contents(bus), {command}) /\ Sorted(offered, bus)
    BY <1>3 DEF Precede, Made, DeliveryInv
  <2> QED BY <1>0, <2>1, SortedAppend
<1>5. Precede(offered', called', Contents(bus'))
  BY <1>0, <1>1, <1>2, <1>3 DEF DeliveryInv, Precede, Made
<1>6. Precede(offered', Made', Behind')
  BY <1>1, <1>2, <1>3 DEF DeliveryInv, Precede
<1>7. Made' \subseteq Executed' \cup Executing'
  BY <1>0, <1>1, <1>2 DEF DeliveryInv
<1>8. CallsType'
  <2>1. bus' \in Seq(Entries)
    BY <1>0
  <2>2. called' \in SUBSET Entries /\ ledger' \in [Entries -> Server!States]
    BY <1>0 DEF DeliveryInv, CallsType
  <2> QED BY <1>0, <2>1, <2>2, Zenon DEF CallsType
<1> QED BY <1>0, <1>1, <1>4, <1>5, <1>6, <1>7, <1>8 DEF DeliveryInv

\* The server's side: calls are taken from the front of the bus, or lost.
LEMMA KeptByTakeCall == ASSUME DeliveryInv, TakeCall PROVE DeliveryInv'
<1>0. /\ bus \in Seq(Entries) /\ bus # <<>> /\ bus' = Tail(bus)
      /\ called' = called \cup {Head(bus)} /\ Head(bus) \in Entries
      /\ UNCHANGED <<vars, waiting, ledger, answered>>
  BY DEF TakeCall, Server!Call, DeliveryInv, CallsType
<1>1. PlaceInv' /\ UNCHANGED <<offered, delivered, pc, Executed, Executing, Behind, Stored>>
  BY <1>0, PlaceStep
     DEF DeliveryInv, vars, senderVars, receiverVars, dbusVars, Executed, Executing, Behind, Listed,
         InHand, Waiting, Stored
<1>2. Contents(bus) = {Head(bus)} \cup Contents(bus') /\ Made' = Made
  BY <1>0, ContentsTail DEF Made
<1>3. Sorted(offered, bus') /\ Precede(offered, {Head(bus)}, Contents(bus'))
  BY <1>0, SortedTail DEF DeliveryInv
<1>4. Precede(offered', called', Contents(bus'))
  BY <1>0, <1>1, <1>2, <1>3 DEF DeliveryInv, Precede
<1>5. CallsType'
  <2>1. bus' \in Seq(Entries) /\ called' \in SUBSET Entries
    BY <1>0 DEF DeliveryInv, CallsType
  <2>2. ledger' \in [Entries -> Server!States] /\ waiting' \in BOOLEAN
    BY <1>0, Zenon DEF DeliveryInv, CallsType
  <2> QED BY <2>1, <2>2, Zenon DEF CallsType
<1> QED BY <1>0, <1>1, <1>2, <1>3, <1>4, <1>5 DEF DeliveryInv

LEMMA KeptByLoss == ASSUME DeliveryInv, LoseCalls PROVE DeliveryInv'
<1>0. bus' = <<>> /\ UNCHANGED <<vars, waiting, ledger, called, answered>>
  BY DEF LoseCalls, serverVars
<1>1. PlaceInv' /\ UNCHANGED <<offered, delivered, pc, Executed, Executing, Behind, Stored>>
  BY <1>0, PlaceStep
     DEF DeliveryInv, vars, senderVars, receiverVars, dbusVars, Executed, Executing, Behind, Listed,
         InHand, Waiting, Stored
<1>2. Contents(bus') = {} /\ Made' \subseteq Made
  BY <1>0 DEF Contents, Made
<1>3. Sorted(offered', bus') /\ Precede(offered', called', Contents(bus'))
  BY <1>0, <1>2 DEF Sorted, Precede
<1>4. /\ Precede(offered', Made', Behind') /\ (~ waiting' => Precede(offered', Made', Executing'))
      /\ Made' \subseteq Executed' \cup Executing'
  BY <1>0, <1>1, <1>2 DEF DeliveryInv, Precede
<1>5. CallsType'
  <2>1. bus' \in Seq(Entries)
    BY <1>0
  <2> QED BY <1>0, <2>1, Zenon DEF DeliveryInv, CallsType
<1> QED BY <1>0, <1>1, <1>3, <1>4, <1>5 DEF DeliveryInv

\* The file only gains entries, and an Apache entry is answered when it is there.
LEMMA KeptByServer == ASSUME DeliveryInv, ServerStep PROVE DeliveryInv'
<1>0. UNCHANGED <<vars, bus, waiting, called>>
  BY DEF ServerStep, Server!StoreAndClaim, Server!Count, Server!Answer
<1>1. /\ PlaceInv'
      /\ UNCHANGED <<offered, delivered, pc, Executed, Executing, Behind, Made>>
  BY <1>0, PlaceStep
     DEF DeliveryInv, vars, senderVars, receiverVars, dbusVars, Executed, Executing, Behind, Listed,
         InHand, Waiting, Made
<1>2. /\ ledger \in [Entries -> Server!States] /\ answered \subseteq called
      /\ answered \cap ApacheEntries \subseteq Stored
  BY DEF DeliveryInv, CallsType
<1>3. /\ ledger' \in [Entries -> Server!States] /\ Stored \subseteq Stored'
      /\ answered' \subseteq called' /\ answered \subseteq answered'
      /\ answered' \cap ApacheEntries \subseteq Stored'
  <2>1. CASE \E S \in SUBSET Entries, C \in SUBSET ApacheEntries : Server!StoreAndClaim(S, C)
    <3>1. PICK S \in SUBSET Entries, C \in SUBSET ApacheEntries : Server!StoreAndClaim(S, C)
      BY <2>1
    <3>2. /\ ledger' = [l \in Entries |-> IF l \in C THEN "claimed"
                                          ELSE IF l \in S THEN "stored" ELSE ledger[l]]
          /\ UNCHANGED <<called, answered>>
      BY <3>1, ServerEntries DEF Server!StoreAndClaim
    <3>3. ledger' \in [Entries -> Server!States]
      BY <1>2, <3>2 DEF Server!States
    <3>4. Stored \subseteq Stored'
      BY <1>2, <3>2 DEF Stored
    <3> QED BY <1>2, <3>2, <3>3, <3>4
  <2>2. CASE \E S \in SUBSET ApacheEntries, T \in SUBSET BashEntries : Server!Count(S, T)
    <3>1. PICK S \in SUBSET ApacheEntries, T \in SUBSET BashEntries : Server!Count(S, T)
      BY <2>2
    <3>2. /\ ledger' = [l \in Entries |-> IF l \in S THEN "counted"
                                          ELSE IF l \in T THEN "stored" ELSE ledger[l]]
          /\ UNCHANGED <<called, answered>>
      BY <3>1, ServerEntries DEF Server!Count
    <3>3. ledger' \in [Entries -> Server!States]
      BY <1>2, <3>2 DEF Server!States
    <3>4. Stored \subseteq Stored'
      BY <1>2, <3>2 DEF Stored
    <3> QED BY <1>2, <3>2, <3>3, <3>4
  <2>3. CASE \E e \in Entries : Server!Answer(e)
    <3>1. PICK e \in Entries : Server!Answer(e)
      BY <2>3
    <3>2. /\ e \in called /\ (e \in ApacheEntries => ledger[e] # "absent")
          /\ answered' = answered \cup {e} /\ UNCHANGED <<ledger, called>>
      BY <3>1 DEF Server!Answer
    <3> QED BY <1>2, <3>2 DEF Stored
  <2> QED BY <2>1, <2>2, <2>3 DEF ServerStep
<1>4. CallsType'
  BY <1>0, <1>3, Zenon DEF DeliveryInv, CallsType
<1>5. /\ waiting' => pc'["dbus"] = "execute"
      /\ Made' \subseteq Executed' \cup Executing'
      /\ Sorted(offered', bus') /\ Precede(offered', called', Contents(bus'))
      /\ Precede(offered', Made', Behind') /\ (~ waiting' => Precede(offered', Made', Executing'))
  BY <1>0, <1>1 DEF DeliveryInv
<1>6. Contents(delivered') \subseteq answered'
  BY <1>1, <1>3 DEF DeliveryInv
<1> QED BY <1>0, <1>1, <1>3, <1>4, <1>5, <1>6 DEF DeliveryInv

LEMMA KeptByReturn == ASSUME DeliveryInv, Return PROVE DeliveryInv'
<1>0. /\ waiting' = FALSE /\ CallReturns /\ PlaceInv' /\ TypeOK /\ TypeOK'
      /\ UNCHANGED <<bus, ledger, called, answered>>
  BY PlaceStep, AgentMoves DEF Return, ReplyReceived, NoReply, serverVars, DeliveryInv, DeliveryNext, PlaceInv
<1>1. /\ command \in Entries /\ command # NoEntry /\ delivered \in Seq(Entries)
      /\ command' = NoEntry /\ Executing = {command} /\ Executing' = {}
      /\ UNCHANGED <<offered, backlog, hand, commands>>
  BY <1>0, AgentAssumption DEF CallReturns, At, DbusStep, senderVars, receiverVars, TypeOK, Executing
<1>2. UNCHANGED <<Made, Behind, Stored>>
  BY <1>0, <1>1 DEF Made, Behind, Listed, InHand, Waiting, Stored
<1>3. Executed' = Executed \cup {command} /\ Contents(delivered') \subseteq answered'
  <2>1. CASE command \in answered /\ ReplyReceived
    <3>1. delivered' = Append(delivered, command) /\ UNCHANGED failed
      BY <2>1 DEF ReplyReceived
    <3>2. Contents(delivered') = Contents(delivered) \cup {command}
      BY <1>1, <3>1, ContentsAppend
    <3> QED BY <1>0, <2>1, <3>1, <3>2 DEF Executed, DeliveryInv
  <2>2. CASE NoReply
    BY <1>0, <2>2 DEF NoReply, Executed, DeliveryInv
  <2> QED BY <2>1, <2>2 DEF Return
<1>4. Precede(offered', Made', Executing') /\ Precede(offered', Made', Behind')
  BY <1>1, <1>2 DEF DeliveryInv, Precede
<1>5. Made' \subseteq Executed' \cup Executing'
  BY <1>1, <1>2, <1>3 DEF DeliveryInv
<1>6. CallsType'
  BY <1>0, Zenon DEF DeliveryInv, CallsType
<1> QED BY <1>0, <1>1, <1>2, <1>3, <1>4, <1>5, <1>6 DEF DeliveryInv

LEMMA DeliveryStep == DeliveryInv /\ [DeliveryNext]_deliveryVars => DeliveryInv'
<1> SUFFICES ASSUME DeliveryInv, [DeliveryNext]_deliveryVars PROVE DeliveryInv'
  OBVIOUS
<1>1. CASE SendThrows
  <2>1. /\ UNCHANGED <<bus, waiting, serverVars>> /\ ~ waiting /\ PlaceInv'
        /\ UNCHANGED <<offered, command, delivered, failed, Behind>>
    BY <1>1, PlaceStep, AgentMoves DEF SendThrows, ExecuteThrows, senderVars, receiverVars, dbusVars,
       Behind, Listed, InHand, Waiting, DeliveryInv, DeliveryNext
  <2> QED BY <2>1, KeptByAgent
<1>2. CASE UNCHANGED deliveryVars
  <2>1. /\ UNCHANGED <<bus, waiting, serverVars, offered, command, delivered, failed, Behind, pc>>
        /\ PlaceInv'
    BY <1>2, PlaceStep DEF deliveryVars, vars, senderVars, receiverVars, dbusVars,
       Behind, Listed, InHand, Waiting, DeliveryInv
  <2> QED BY <2>1, KeptByAgent DEF DeliveryInv
<1> QED BY <1>1, <1>2, KeptByAgentStep, KeptBySendMessage, KeptByTakeCall, KeptByLoss, KeptByServer,
       KeptByReturn DEF DeliveryNext

\* DeliveryInv is an inductive invariant, for any number of entries and signals.
THEOREM DeliveryInvariance == DeliverySpec => []DeliveryInv
BY DeliveryStart, DeliveryStep, PTL DEF DeliverySpec

\* The server is called at most once for an entry, although a call that failed may still
\* be under way: what LogLedger and ServerDatabase assume of their callers.
THEOREM CalledAtMostOnce == DeliverySpec => []CalledOnce
<1>1. ASSUME DeliveryInv PROVE CalledOnce
  <2>1. \A e : ~ Before(offered, e, e)
    BY <1>1, MadeFacts, NotBeforeItself
  <2>2. ASSUME NEW i \in DOMAIN bus, NEW j \in DOMAIN bus, bus[i] = bus[j], i # j PROVE FALSE
    <3>1. i < j \/ j < i
      BY <1>1, <2>2, MadeFacts
    <3> QED BY <1>1, <2>1, <2>2, <3>1 DEF DeliveryInv, Sorted
  <2>3. Contents(bus) \cap called = {}
    BY <1>1, <2>1 DEF DeliveryInv, Precede
  <2> QED BY <2>2, <2>3 DEF CalledOnce
<1> QED BY <1>1, DeliveryInvariance, PTL

\* The server takes the calls of a source in the order the entries were sent.
THEOREM CallsAlwaysInOrder == DeliverySpec => CallsInOrder
<1> DEFINE Ordered ==
        \A e \in called' \ called, f \in called :
           SourceOf[e] = SourceOf[f] =>
              \E k, m \in DOMAIN offered : k < m /\ offered[k] = f /\ offered[m] = e
<1>1. ASSUME DeliveryInv, [DeliveryNext]_deliveryVars PROVE Ordered
  <2>1. CASE TakeCall
    <3>1. /\ called' \ called \subseteq {Head(bus)}
          /\ Head(bus) \in Contents(bus)
      BY <1>1, <2>1, MadeFacts, ContentsTail DEF TakeCall, Server!Call
    <3>2. Precede(offered, called, {Head(bus)})
      BY <1>1, <3>1 DEF DeliveryInv, Precede
    <3> QED BY <3>1, <3>2 DEF Precede, Before
  <2>2. CASE ~ TakeCall
    <3>1. called' = called
      BY <1>1, <2>2 DEF DeliveryNext, deliveryVars, AgentStep, SendMessage, SendThrows, Return, ServerStep,
         LoseCalls, serverVars, Server!StoreAndClaim, Server!Count, Server!Answer
    <3> QED BY <3>1
  <2> QED BY <2>1, <2>2
<1>2. DeliveryInv /\ [DeliveryNext]_deliveryVars => [Ordered]_deliveryVars
  BY <1>1
<1> QED BY <1>2, DeliveryInvariance, PTL DEF DeliverySpec, CallsInOrder

\* Every entry sent is in the file, on its way in the agent, or a loss the agent has seen;
\* or it is a shell entry the server answered and may have lost.
THEOREM LossesAlwaysKnown == DeliverySpec => []LossesKnown
<1>1. ASSUME DeliveryInv PROVE LossesKnown
  <2> SUFFICES ASSUME NEW e \in Contents(offered)
               PROVE  \/ e \in Stored \cup failed \cup dropped \cup Held
                              \cup Contents(backlog["apache"]) \cup Contents(backlog["bash"])
                              \cup Contents(commands)
                      \/ e \in answered \cap BashEntries
    BY DEF LossesKnown
  <2>1. e \in Entries
    BY <1>1, MadeFacts, ContentsType
  <2>2. e \in Arrived \cup Executing \cup Listed \cup InHand \cup Waiting \cup failed \cup dropped
    BY <1>1 DEF DeliveryInv, PlaceInv, Places
  <2>3. e \in Executing \cup InHand => e \in Held
    BY DEF Executing, InHand, Held
  <2>4. e \in Waiting => e \in Contents(backlog["apache"]) \cup Contents(backlog["bash"])
    BY DEF Waiting, Receivers
  <2>5. e \in Arrived => e \in Stored \/ e \in answered \cap BashEntries
    BY <1>1, <2>1, ServerEntries DEF DeliveryInv, Arrived, Server!AllEntries
  <2> QED BY <2>2, <2>3, <2>4, <2>5 DEF Listed
<1> QED BY <1>1, DeliveryInvariance, PTL

\* Whatever the agent and the bus do, the server does what LogLedger promises.
THEOREM DeliveryImplementsLedger == DeliverySpec => Server!LedgerSpec
<1>1. DeliveryInit => Server!LedgerInit
  BY DEF DeliveryInit
<1>2. DeliveryInv /\ [DeliveryNext]_deliveryVars => [Server!LedgerNext]_(Server!ledgerVars)
  <2> SUFFICES ASSUME DeliveryInv, [DeliveryNext]_deliveryVars
               PROVE  [Server!LedgerNext]_(Server!ledgerVars)
    OBVIOUS
  <2>1. CASE TakeCall
    <3>1. Head(bus) \in Entries
      BY <2>1, MadeFacts DEF TakeCall
    <3> QED BY <2>1, <3>1, ServerEntries DEF TakeCall, Server!LedgerNext
  <2>2. CASE ServerStep
    <3>1. CASE \E S \in SUBSET Entries, C \in SUBSET ApacheEntries : Server!StoreAndClaim(S, C)
      BY <3>1, ServerEntries DEF Server!LedgerNext
    <3>2. CASE \E S \in SUBSET ApacheEntries, T \in SUBSET BashEntries : Server!Count(S, T)
      BY <3>2 DEF Server!LedgerNext
    <3>3. CASE \E e \in Entries : Server!Answer(e)
      BY <3>3, ServerEntries DEF Server!LedgerNext
    <3> QED BY <2>2, <3>1, <3>2, <3>3 DEF ServerStep
  <2>3. CASE AgentStep \/ SendMessage \/ SendThrows \/ Return \/ LoseCalls \/ UNCHANGED deliveryVars
    BY <2>3 DEF AgentStep, SendMessage, SendThrows, Return, LoseCalls, deliveryVars, serverVars,
       Server!ledgerVars
  <2> QED BY <2>1, <2>2, <2>3 DEF DeliveryNext
<1> QED BY <1>1, <1>2, DeliveryInvariance, PTL DEF DeliverySpec, Server!LedgerSpec

\* A call taken from the bus finds the guard of LogLedger's Call true: nothing the server
\* promises rests on a caller that holds back.
THEOREM CallsFindTheGuard == DeliverySpec => [](bus # <<>> => Head(bus) \notin called)
<1>1. CalledOnce /\ DeliveryInv => (bus # <<>> => Head(bus) \notin called)
  BY MadeFacts, ContentsTail DEF CalledOnce
<1> QED BY <1>1, CalledAtMostOnce, DeliveryInvariance, PTL
=============================================================================
