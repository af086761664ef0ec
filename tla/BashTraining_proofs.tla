------------------------ MODULE BashTraining_proofs ------------------------
(***************************************************************************)
(* Proofs about BashTraining, for any configurations, statistics, users,   *)
(* commands and part size: the variables have their types, a configuration *)
(* not marked as changed has a network trained on its learning set as it   *)
(* is, unless one of the named changes was missed (see NetworkUpToDate),   *)
(* and a network taken from the file for a configuration not marked is     *)
(* there and has an output for every user, unless one of those changes was *)
(* made to its own learning set or selection.                              *)
(*                                                                         *)
(* Progress is the heart: what the trainer has gathered so far, said in    *)
(* terms of the tables as they are now, for as long as no statement        *)
(* changed what the network depends on.  That each statement which does is *)
(* marked or named is StatementMisses, from the shape of the commands.     *)
(***************************************************************************)
EXTENDS BashTraining, FiniteSetTheorems, WellFoundedInduction, TLAPS

-----------------------------------------------------------------------------
(* The invariant.                                                          *)

\* A row of the learning set file, as the tables have it now.
Row(i, s) == [statistic |-> s, class |-> class[s], inputs |-> Inputs(selected[i], s)]
RowsOf(i, W) == {Row(i, s) : s \in W}
KnownBy(i, u) == {s \in Known(i) : UserOf[s] = u}
\* The statistics of users the trainer has finished with.
KnownBut(i, users) == {s \in Known(i) : UserOf[s] \notin users}

\* The file of a configuration has the network its data call for.
UpToDate(i) ==
    /\ network[i].usable /\ network[i].trained
    /\ network[i].outputs = Cardinality(UsersOf(i))
    /\ network[i].rows = RowsOf(i, Known(i))

\* It is there and has an output for each user.
HasUsers(i) == network[i].usable /\ network[i].outputs = Cardinality(UsersOf(i))

\* Of the missed changes these are none to the learning set.
Harmless(i) == missed[i] \subseteq {"another", "classified"}

\* What the network of a configuration not marked as changed is worth.
Sound(i) ==
    /\ missed[i] = {} => UpToDate(i)
    /\ Harmless(i) => HasUsers(i)

Gathering == {"user", "part"}
Learning == {"header", "selected"} \cup Gathering \cup {"save"}
Training == {"train", "mark"} \cup Learning
Answering == {"count", "rows"}
Phases == {"idle", "classify"} \cup Training \cup Answering

Statements ==
    [do : {"insert"}, id : Ids, agent : Agents]
    \cup [do : {"no commands", "no statistics", "delete", "mark"}, id : Ids]
    \cup [do : {"commands"}, id : Ids, set : SUBSET Commands]
    \cup [do : {"statistics"}, id : Ids, set : SUBSET Statistics]
    \cup [do : {"class"}, id : Ids, set : SUBSET Statistics, class : Classes]

\* A configuration is inserted first, with the id its agent already has.
WebOK ==
    /\ web \in Seq(Statements)
    /\ \A k \in 2..Len(web) : web[k].do # "insert"
    /\ web # <<>> /\ Head(web).do = "insert" =>
          \A j \in Existing : agent[j] = Head(web).agent => j = Head(web).id

\* A statement that changes the data is of SaveConfiguration, or one that
\* marks or deletes the configuration comes after it.
Changing == {"no statistics", "statistics", "no commands", "commands", "class"}
Marking == {"mark", "delete"}
WebMarks ==
    \A k \in 1..Len(web) : web[k].do \in Changing =>
        \/ \E j \in k..Len(web) : web[j].do = "statistics"
        \/ \E j \in (k + 1)..Len(web) : web[j].do \in Marking /\ web[j].id = web[k].id

\* A change is unmarked only until then.
Unmarked ==
    \A i \in Ids : "unmarked" \in missed[i] =>
        \E k \in 1..Len(web) : web[k].do \in Marking /\ web[k].id = i

\* What the analyzer holds in each phase.
WorkOK ==
    /\ work.at \in Phases
    /\ work.at # "idle" => work.left \subseteq Ids
    /\ work.at \in Learning \cup Answering \cup {"mark"} => work.id \in Ids
    /\ work.at \in Gathering =>
          /\ work = [at |-> work.at, left |-> work.left, id |-> work.id, users |-> work.users,
                     outputs |-> work.outputs, size |-> work.size, selected |-> work.selected,
                     user |-> work.user, toRead |-> work.toRead, offset |-> work.offset,
                     part |-> work.part, lines |-> work.lines, rows |-> work.rows]
          /\ work.toRead \in Nat /\ work.offset \in Nat
          /\ IsFiniteSet(work.part) /\ Cardinality(work.part) <= MaxRows
          /\ work.at = "user" => work.part = {}
    /\ work.at = "save" => work.made.outputs \in 0..Cardinality(Statistics)
    /\ work.at = "rows" =>
          /\ work = [at |-> work.at, left |-> work.left, agents |-> work.agents,
                     network |-> work.network, users |-> work.users, clean |-> work.clean,
                     id |-> work.id, part |-> work.part, toRead |-> work.toRead]
          /\ work.toRead \in Nat
          /\ work.part \subseteq Statistics /\ Cardinality(work.part) <= MaxRows

\* The configurations a training has still to mark are marked as changed.
StillChanged ==
    /\ work.at \in Learning \cup {"mark"} => work.id \notin work.left
    /\ work.at \in Training => \A i \in work.left \cap Existing : changed[i]
    /\ work.at \in Learning \cup {"mark"} /\ work.id \in Existing => changed[work.id]

\* The one it has just saved has its network.
Trained == work.at = "mark" => Sound(work.id)

\* The rows of W are in the file, one line for each.
Wrote(W) ==
    work.rows = RowsOf(work.id, W) /\ work.lines = Cardinality(W)

Gathered ==
    /\ work.users \subseteq UsersOf(work.id)
    /\ work.outputs = Cardinality(UsersOf(work.id))
    /\ work.size = Cardinality(Known(work.id))
    /\ work.selected = selected[work.id]

\* In the middle of a user: the rows up to offset were read, and those of
\* them that are no longer in the part were written.
InUser ==
    LET K == KnownBy(work.id, work.user)
        Held == {r.statistic : r \in work.part}
    IN /\ work.user \notin work.users
       /\ work.offset + work.toRead = Cardinality(K)
       /\ \A r \in work.part :
             /\ r.statistic \in FirstRows(K, work.offset)
             /\ r = [statistic |-> r.statistic, class |-> class[r.statistic]]
       /\ Wrote(KnownBut(work.id, work.users \cup {work.user})
                \cup (FirstRows(K, work.offset) \ Held))

Progress ==
    work.at \in Learning /\ missed[work.id] = {} =>
       /\ work.at \in {"header", "selected"} =>
             /\ work.users = UsersOf(work.id)
             /\ work.outputs = Cardinality(UsersOf(work.id))
       /\ work.at = "selected" => work.size = Cardinality(Known(work.id))
       /\ work.at \in Gathering => Gathered
       /\ work.at = "user" => Wrote(KnownBut(work.id, work.users))
       /\ work.at = "part" => InUser
       /\ work.at = "save" =>
             /\ work.made.usable /\ work.made.trained
             /\ work.made.outputs = Cardinality(UsersOf(work.id))
             /\ work.made.rows = RowsOf(work.id, Known(work.id))

\* Whatever the rows, the network made has an output for each user.
Made ==
    work.at = "save" /\ Harmless(work.id) =>
       work.made.usable /\ work.made.outputs = Cardinality(UsersOf(work.id))

\* A network taken for a clean configuration has what its run needs.
TakenWhole ==
    work.at \in Answering /\ work.clean =>
       work.network.usable /\ work.users <= work.network.outputs

UnchangedUpToDate ==
    \A i \in Existing : ~ changed[i] => Sound(i)

TrainingInv ==
    /\ TypeOK /\ DOMAIN network = Ids
    /\ WebOK /\ WebMarks /\ Unmarked /\ WorkOK
    /\ StillChanged /\ Trained /\ Progress /\ Made /\ TakenWhole /\ UnchangedUpToDate

-----------------------------------------------------------------------------
(* Numbers and finite sets.                                                *)

\* A set of numbers that has a member has a least one.
LEMMA LeastNatural ==
    ASSUME NEW S \in SUBSET Nat, S # {}
    PROVE  \E x \in S : \A y \in S : x <= y
<1> DEFINE Less == {ss \in Nat \X Nat : ss[1] < ss[2]}
<1>1. IsWellFoundedOn(Less, Nat)
  BY NatLessThanWellFounded DEF OpToRel
<1>2. \A x, y \in Nat : y < x => <<y, x>> \in Less
  OBVIOUS
<1> HIDE DEF Less
<1>3. PICK x \in S : \A y \in S : ~ (<<y, x>> \in Less)
  BY <1>1, WFMin
<1>4. \A y \in S : ~ (y < x)
  BY <1>2, <1>3
<1> QED BY <1>4

\* Lowest takes a member.
LEMMA LowestIsIn ==
    ASSUME NEW S \in SUBSET Nat, S # {}
    PROVE  Lowest(S) \in S
<1>1. \E s \in S : \A t \in S : s <= t
  BY LeastNatural
<1> QED BY <1>1 DEF Lowest

LEMMA IdsAreNumbers == Ids \subseteq Nat
<1>1. Cardinality(Ids) \in Nat
  BY TrainingAssumption, FS_CardinalityType
<1>2. 1..Cardinality(Ids) \subseteq Nat
  BY <1>1
<1> QED BY <1>2, TrainingAssumption

LEMMA StatisticsAreFinite ==
    ASSUME NEW S \in SUBSET Statistics
    PROVE  /\ IsFiniteSet(S) /\ S \in SUBSET Nat
           /\ Cardinality(S) \in 0..Cardinality(Statistics)
<1>1. IsFiniteSet(S) /\ Cardinality(S) <= Cardinality(Statistics)
  BY TrainingAssumption, FS_Subset
<1>2. Cardinality(S) \in Nat /\ Cardinality(Statistics) \in Nat
  BY <1>1, TrainingAssumption, FS_CardinalityType
<1> QED BY <1>1, <1>2, TrainingAssumption

\* There are no more users than statistics.
LEMMA UsersAreFew ==
    ASSUME NEW S \in SUBSET Statistics
    PROVE  Cardinality({UserOf[s] : s \in S}) \in 0..Cardinality(Statistics)
<1> DEFINE U == {UserOf[s] : s \in S}
           f == [s \in S |-> UserOf[s]]
<1>1. IsFiniteSet(S) /\ Cardinality(S) \in 0..Cardinality(Statistics)
  BY StatisticsAreFinite
<1>2. f \in Surjection(S, U)
  <2>1. f \in [S -> U]
    OBVIOUS
  <2>2. \A u \in U : \E s \in S : f[s] = u
    OBVIOUS
  <2> HIDE DEF f, U
  <2> QED BY <2>1, <2>2 DEF Surjection
<1>3. IsFiniteSet(U) /\ Cardinality(U) <= Cardinality(S)
  BY <1>1, <1>2, FS_Surjection
<1>4. Cardinality(U) \in Nat /\ Cardinality(Statistics) \in Nat
  BY <1>3, TrainingAssumption, FS_CardinalityType
<1> HIDE DEF U
<1>5. Cardinality(U) \in 0..Cardinality(Statistics)
  BY <1>1, <1>3, <1>4
<1> QED BY <1>5 DEF U

LEMMA LimitBounds ==
    ASSUME NEW n \in Nat
    PROVE  Limit(n) \in 0..n /\ Limit(n) <= MaxRows
BY TrainingAssumption DEF Limit

\* The number of lower rows tells the rows of a set apart.
LEMMA RanksDiffer ==
    ASSUME NEW S \in SUBSET Nat, IsFiniteSet(S), NEW s \in S, NEW t \in S, s < t
    PROVE  Cardinality({x \in S : x < s}) < Cardinality({x \in S : x < t})
<1> DEFINE A == {x \in S : x < s}
           B == {x \in S : x < t}
<1>1. A \in SUBSET B /\ B \in SUBSET S /\ s \in B /\ s \notin A
  <2>1. s \in Nat /\ t \in Nat /\ \A x \in S : x \in Nat
    OBVIOUS
  <2>2. \A x \in S : x < s => x < t
    BY <2>1
  <2>3. ~ (s < s)
    BY <2>1
  <2> QED BY <2>2, <2>3, Zenon
<1> HIDE DEF A, B
<1>2. IsFiniteSet(B)
  BY <1>1, FS_Subset
<1>3. IsFiniteSet(A) /\ Cardinality(A) <= Cardinality(B) /\ Cardinality(A) # Cardinality(B)
  BY <1>1, <1>2, FS_Subset
<1>4. Cardinality(A) \in Nat /\ Cardinality(B) \in Nat
  BY <1>2, <1>3, FS_CardinalityType
<1>5. Cardinality(A) < Cardinality(B)
  BY <1>3, <1>4
<1> QED BY <1>5 DEF A, B

LEMMA RankIsNat ==
    ASSUME NEW S \in SUBSET Nat, IsFiniteSet(S), NEW s \in S
    PROVE  Cardinality({x \in S : x < s}) \in Nat
<1>1. {x \in S : x < s} \in SUBSET S
  OBVIOUS
<1> QED BY <1>1, FS_Subset, FS_CardinalityType

\* "limit n" gives at most n rows.
LEMMA PartsAreSmall ==
    ASSUME NEW S \in SUBSET Nat, IsFiniteSet(S), NEW m \in Nat, NEW n \in Nat
    PROVE  IsFiniteSet(RowsAt(S, m, n)) /\ Cardinality(RowsAt(S, m, n)) <= n
<1> DEFINE R == RowsAt(S, m, n)
           rank == [s \in R |-> Cardinality({x \in S : x < s})]
           I == m..(m + n - 1)
<1>1. R \in SUBSET S
  BY DEF RowsAt, FirstRows
<1>2. \A s \in R : rank[s] \in Nat /\ rank[s] < m + n /\ ~ (rank[s] < m)
  BY <1>1, RankIsNat DEF RowsAt, FirstRows
<1>3. \A s \in R : rank[s] \in I
  BY <1>2
<1>4. \A s, t \in R : s < t => rank[s] < rank[t]
  BY <1>1, RanksDiffer
<1>6. rank = [s \in R |-> rank[s]]
  OBVIOUS
<1> HIDE DEF R, rank, I
<1>7. \A s, t \in R : rank[s] = rank[t] => s = t
  <2> SUFFICES ASSUME NEW s \in R, NEW t \in R, rank[s] = rank[t], s # t PROVE FALSE
    OBVIOUS
  <2>1. s \in Nat /\ t \in Nat
    BY <1>1
  <2>2. rank[s] \in Nat /\ rank[t] \in Nat
    BY <1>2
  <2>3. CASE s < t
    BY <1>4, <2>2, <2>3
  <2>4. CASE t < s
    BY <1>4, <2>2, <2>4
  <2> QED BY <2>1, <2>3, <2>4
<1>8. rank \in [R -> I]
  BY <1>3, <1>6
<1>9. rank \in Injection(R, I)
  BY <1>7, <1>8 DEF Injection, IsInjective
<1>10. IsFiniteSet(I) /\ Cardinality(I) = n
  <2>1. m \in Int /\ m + n - 1 \in Int
    OBVIOUS
  <2>2. IsFiniteSet(I) /\ Cardinality(I) = IF m > m + n - 1 THEN 0 ELSE (m + n - 1) - m + 1
    BY <2>1, FS_Interval DEF I
  <2> QED BY <2>2
<1>11. IsFiniteSet(R) /\ Cardinality(R) <= Cardinality(I)
  BY <1>9, <1>10, FS_Injection
<1> QED BY <1>10, <1>11 DEF R

LEMMA NoRows ==
    ASSUME NEW S \in SUBSET Nat, IsFiniteSet(S)
    PROVE  FirstRows(S, 0) = {}
<1>1. \A s \in S : ~ (Cardinality({x \in S : x < s}) < 0)
  <2> SUFFICES ASSUME NEW s \in S PROVE ~ (Cardinality({x \in S : x < s}) < 0)
    OBVIOUS
  <2>1. Cardinality({x \in S : x < s}) \in Nat
    BY RankIsNat
  <2> QED BY <2>1
<1> QED BY <1>1 DEF FirstRows

LEMMA FirstRowsGrow ==
    ASSUME NEW S \in SUBSET Nat, IsFiniteSet(S), NEW m \in Nat, NEW n \in Nat
    PROVE  FirstRows(S, m) \subseteq FirstRows(S, m + n)
<1>1. \A s \in S : Cardinality({x \in S : x < s}) < m => Cardinality({x \in S : x < s}) < m + n
  <2> SUFFICES ASSUME NEW s \in S, Cardinality({x \in S : x < s}) < m
               PROVE  Cardinality({x \in S : x < s}) < m + n
    OBVIOUS
  <2>1. Cardinality({x \in S : x < s}) \in Nat
    BY RankIsNat
  <2> QED BY <2>1
<1> QED BY <1>1 DEF FirstRows

\* The part the classifier reads.
LEMMA FirstRowsAreFew ==
    ASSUME NEW S \in SUBSET Nat, IsFiniteSet(S), NEW n \in Nat
    PROVE  Cardinality(FirstRows(S, n)) <= n
<1>1. Cardinality(RowsAt(S, 0, n)) <= n
  BY PartsAreSmall
<1>2. RowsAt(S, 0, n) = FirstRows(S, n)
  BY NoRows DEF RowsAt
<1> QED BY <1>1, <1>2

\* As many rows as the set has are all of them.
LEMMA AllRows ==
    ASSUME NEW S \in SUBSET Nat, IsFiniteSet(S)
    PROVE  FirstRows(S, Cardinality(S)) = S
<1>1. \A s \in S : Cardinality({x \in S : x < s}) < Cardinality(S)
  <2> SUFFICES ASSUME NEW s \in S PROVE Cardinality({x \in S : x < s}) < Cardinality(S)
    OBVIOUS
  <2> DEFINE A == {x \in S : x < s}
  <2>1. A \in SUBSET S /\ s \notin A
    OBVIOUS
  <2>2. Cardinality(A) \in Nat
    BY RankIsNat
  <2> HIDE DEF A
  <2>3. Cardinality(A) <= Cardinality(S) /\ Cardinality(A) # Cardinality(S)
    BY <2>1, FS_Subset
  <2>4. Cardinality(S) \in Nat
    BY FS_CardinalityType
  <2>5. Cardinality(A) < Cardinality(S)
    BY <2>2, <2>3, <2>4
  <2> QED BY <2>5 DEF A
<1> QED BY <1>1 DEF FirstRows

-----------------------------------------------------------------------------
(* What a step leaves as it was.                                           *)

\* Every operator on the tables keeps its value with the tables.
LEMMA SameTables ==
    ASSUME UNCHANGED <<agent, learning, selected, class>>
    PROVE  /\ Existing' = Existing
           /\ \A i : UsersOf(i)' = UsersOf(i) /\ Known(i)' = Known(i)
           /\ \A i, x : KnownBy(i, x)' = KnownBy(i, x) /\ KnownBut(i, x)' = KnownBut(i, x)
           /\ \A i, W : RowsOf(i, W)' = RowsOf(i, W)
<1>1. Existing' = Existing
  BY DEF Existing
<1>2. \A i : UsersOf(i)' = UsersOf(i)
  BY DEF UsersOf
<1>3. \A i : Known(i)' = Known(i)
  BY DEF Known
<1>4. \A i, x : KnownBy(i, x)' = KnownBy(i, x)
  BY DEF KnownBy, Known
<1>5. \A i, x : KnownBut(i, x)' = KnownBut(i, x)
  BY DEF KnownBut, Known
<1>6. \A i, W : RowsOf(i, W)' = RowsOf(i, W)
  BY DEF RowsOf, Row, Inputs, Stops
<1> QED BY <1>1, <1>2, <1>3, <1>4, <1>5, <1>6

LEMMA SameSound ==
    ASSUME UNCHANGED <<agent, learning, selected, class, missed>>, NEW i, network'[i] = network[i]
    PROVE  Sound(i)' <=> Sound(i)
<1>1. UpToDate(i)' <=> UpToDate(i)
  BY SameTables DEF UpToDate
<1>2. HasUsers(i)' <=> HasUsers(i)
  BY SameTables DEF HasUsers
<1> QED BY <1>1, <1>2 DEF Sound, Harmless

\* What the network of a configuration depends on, part by part.
LEMMA SameData ==
    ASSUME NEW i, Data(i)' = Data(i)
    PROVE  /\ UsersOf(i)' = UsersOf(i) /\ Known(i)' = Known(i) /\ selected'[i] = selected[i]
           /\ \A s \in Known(i) : Row(i, s)' = Row(i, s) /\ class'[s] = class[s]
           /\ \A x : KnownBy(i, x)' = KnownBy(i, x) /\ KnownBut(i, x)' = KnownBut(i, x)
           /\ \A W \in SUBSET Known(i) : RowsOf(i, W)' = RowsOf(i, W)
<1>1. /\ UsersOf(i)' = UsersOf(i) /\ selected'[i] = selected[i]
      /\ {Row(i, s)' : s \in Known(i)'} = {Row(i, s) : s \in Known(i)}
  <2>1. Data(i) = [users |-> UsersOf(i), selected |-> selected[i],
                   rows |-> {Row(i, s) : s \in Known(i)}]
    BY DEF Data, Row
  <2>2. Data(i)' = [users |-> UsersOf(i)', selected |-> selected'[i],
                    rows |-> {Row(i, s)' : s \in Known(i)'}]
    BY DEF Data, Row
  <2>3. /\ Data(i).users = UsersOf(i) /\ Data(i).selected = selected[i]
        /\ Data(i).rows = {Row(i, s) : s \in Known(i)}
    BY <2>1
  <2>4. /\ Data(i)'.users = UsersOf(i)' /\ Data(i)'.selected = selected'[i]
        /\ Data(i)'.rows = {Row(i, s)' : s \in Known(i)'}
    BY <2>2
  <2> QED BY <2>3, <2>4
<1>2. \A s : Row(i, s).statistic = s /\ Row(i, s).class = class[s]
  BY DEF Row
<1>3. \A s : Row(i, s)'.statistic = s /\ Row(i, s)'.class = class'[s]
  BY DEF Row
<1>4. \A s \in Known(i) : s \in Known(i)' /\ Row(i, s)' = Row(i, s)
  <2> SUFFICES ASSUME NEW s \in Known(i) PROVE s \in Known(i)' /\ Row(i, s)' = Row(i, s)
    OBVIOUS
  <2>1. PICK t \in Known(i)' : Row(i, t)' = Row(i, s)
    BY <1>1
  <2>2. t = s
    BY <2>1, <1>2, <1>3
  <2> QED BY <2>1, <2>2
<1>5. \A s \in Known(i)' : s \in Known(i)
  <2> SUFFICES ASSUME NEW s \in Known(i)' PROVE s \in Known(i)
    OBVIOUS
  <2>1. PICK t \in Known(i) : Row(i, t) = Row(i, s)'
    BY <1>1
  <2>2. t = s
    BY <2>1, <1>2, <1>3
  <2> QED BY <2>1, <2>2
<1>6. Known(i)' = Known(i)
  BY <1>4, <1>5
<1>7. \A s \in Known(i) : Row(i, s)' = Row(i, s) /\ class'[s] = class[s]
  BY <1>2, <1>3, <1>4
<1>8. \A x : KnownBy(i, x)' = KnownBy(i, x) /\ KnownBut(i, x)' = KnownBut(i, x)
  BY <1>6 DEF KnownBy, KnownBut
<1>9. \A W \in SUBSET Known(i) : RowsOf(i, W)' = RowsOf(i, W)
  BY <1>7 DEF RowsOf
<1> QED BY <1>1, <1>6, <1>7, <1>8, <1>9

\* The sets of a configuration are sets of statistics.
LEMMA KnownAreStatistics ==
    ASSUME TypeOK, NEW i \in Ids
    PROVE  /\ Known(i) \in SUBSET Statistics
           /\ \A x : /\ KnownBy(i, x) \in SUBSET Known(i)
                     /\ KnownBut(i, x) \in SUBSET Known(i)
BY DEF TypeOK, Known, KnownBy, KnownBut

LEMMA UsersBound ==
    ASSUME TypeOK, NEW i \in Ids
    PROVE  Cardinality(UsersOf(i)) \in 0..Cardinality(Statistics)
<1>1. learning[i] \in SUBSET Statistics
  BY DEF TypeOK
<1> QED BY <1>1, UsersAreFew DEF UsersOf

LEMMA InvInit == Init => TrainingInv
<1> SUFFICES ASSUME Init PROVE TrainingInv
  OBVIOUS
<1>1. TypeOK
  <2>1. Cardinality(Statistics) \in Nat
    BY TrainingAssumption, FS_CardinalityType
  <2>2. \A i \in Ids : network[i].outputs \in 0..Cardinality(Statistics)
    BY <2>1 DEF Init, NoNetwork
  <2>3. work.at = "idle"
    BY DEF Init, NoWork
  <2>4. Existing = {}
    BY DEF Init, Existing
  <2> QED BY <2>2, <2>3, <2>4 DEF TypeOK, Init, Classes
<1>2. Existing = {}
  BY DEF Init, Existing
<1>3. work.at = "idle"
  BY DEF Init, NoWork
<1>4. DOMAIN network = Ids
  BY DEF Init
<1>5. WebOK /\ WebMarks /\ Unmarked
  <2>1. Len(web) = 0 /\ \A i \in Ids : missed[i] = {}
    BY DEF Init
  <2> QED BY <2>1 DEF Init, WebOK, WebMarks, Unmarked
<1>6. WorkOK
  BY <1>3 DEF WorkOK, Phases, Learning, Answering, Gathering
<1>7. StillChanged /\ Trained /\ Progress /\ Made /\ TakenWhole /\ UnchangedUpToDate
  BY <1>2, <1>3 DEF StillChanged, Trained, Progress, Made, TakenWhole, UnchangedUpToDate, Training,
                    Learning, Gathering, Answering
<1> QED BY <1>1, <1>4, <1>5, <1>6, <1>7 DEF TrainingInv

-----------------------------------------------------------------------------
(* Commands of the web user, and ends of the process.                      *)

\* A step that changes no more than the statements to come.
LEMMA CommandFrame ==
    ASSUME TrainingInv, UNCHANGED <<tables, network, work, missed>>, WebOK', WebMarks',
           web = <<>> \/ web' = web
    PROVE  TrainingInv'
<1>1. UNCHANGED <<agent, changed, learning, selected, class>>
  BY DEF tables
<1>2. TypeOK'
  BY <1>1 DEF TrainingInv, TypeOK, Existing
<1>3. (DOMAIN network = Ids)' /\ WorkOK'
  BY DEF TrainingInv, WorkOK
<1>4. StillChanged' /\ TakenWhole'
  BY <1>1 DEF TrainingInv, StillChanged, TakenWhole, Existing
<1>5. \A i : Sound(i)' <=> Sound(i)
  BY <1>1, SameSound
<1>6. Trained' /\ Made' /\ UnchangedUpToDate'
  BY <1>1, <1>5, SameTables DEF TrainingInv, Trained, Made, Harmless, UnchangedUpToDate
<1>8. Unmarked'
  <2>1. CASE web = <<>>
    BY <2>1 DEF TrainingInv, Unmarked
  <2>2. CASE web' = web
    BY <2>2 DEF TrainingInv, Unmarked
  <2> QED BY <2>1, <2>2
<1>7. Progress'
  <2>1. /\ UsersOf(work.id)' = UsersOf(work.id) /\ Known(work.id)' = Known(work.id)
        /\ KnownBy(work.id, work.user)' = KnownBy(work.id, work.user)
        /\ KnownBut(work.id, work.users)' = KnownBut(work.id, work.users)
        /\ KnownBut(work.id, work.users \cup {work.user})'
              = KnownBut(work.id, work.users \cup {work.user})
        /\ RowsOf(work.id, Known(work.id))' = RowsOf(work.id, Known(work.id))
    BY <1>1, SameTables
  <2>2. \A W : Wrote(W)' <=> Wrote(W)
    BY <1>1, SameTables DEF Wrote
  <2>3. Gathered' <=> Gathered
    BY <1>1, <2>1 DEF Gathered
  <2>4. Wrote(KnownBut(work.id, work.users))' <=> Wrote(KnownBut(work.id, work.users))
    BY <1>1, <2>1, SameTables DEF Wrote
  <2>5. InUser' <=> InUser
    <3> DEFINE K == KnownBy(work.id, work.user)
               Held == {r.statistic : r \in work.part}
               W == KnownBut(work.id, work.users \cup {work.user})
                      \cup (FirstRows(K, work.offset) \ Held)
               Read(k) == \A r \in work.part :
                             /\ r.statistic \in FirstRows(k, work.offset)
                             /\ r = [statistic |-> r.statistic, class |-> class[r.statistic]]
    <3>1. InUser <=> /\ work.user \notin work.users
                     /\ work.offset + work.toRead = Cardinality(K)
                     /\ Read(K) /\ Wrote(W)
      BY DEF InUser
    <3>2. InUser' <=> /\ work.user \notin work.users
                      /\ work.offset + work.toRead = Cardinality(K')
                      /\ Read(K') /\ Wrote(W)'
      BY <1>1 DEF InUser
    <3>3. K' = K /\ W' = W
      BY <2>1 DEF FirstRows
    <3>4. Wrote(W)' <=> Wrote(W)
      <4>1. PICK V : V = W
        OBVIOUS
      <4> HIDE DEF W
      <4>2. V = W'
        BY <3>3, <4>1
      <4>3. Wrote(W) <=> Wrote(V)
        BY <4>1 DEF Wrote
      <4>4. Wrote(W)' <=> Wrote(V)'
        BY <4>2 DEF Wrote
      <4> QED BY <2>2, <4>3, <4>4
    <3> HIDE DEF K, W, Read
    <3> QED BY <3>1, <3>2, <3>3, <3>4
  <2>6. Progress
    BY DEF TrainingInv
  <2> QED BY <2>1, <2>3, <2>4, <2>5, <2>6 DEF Progress
<1> QED BY <1>2, <1>3, <1>4, <1>6, <1>7, <1>8 DEF TrainingInv

LEMMA SaveConfigurationStep ==
    ASSUME TrainingInv, SaveConfiguration PROVE TrainingInv'
<1>1. PICK a \in Agents, range \in Ranges, defaults \in SUBSET Commands :
        /\ IdFor(a) \in Ids
        /\ Command(<<[do |-> "insert", id |-> IdFor(a), agent |-> a],
                     [do |-> "no commands", id |-> IdFor(a)],
                     [do |-> "commands", id |-> IdFor(a), set |-> defaults],
                     [do |-> "statistics", id |-> IdFor(a), set |-> range]>>)
  BY DEF SaveConfiguration
<1>2. UNCHANGED <<tables, network, work, missed>>
  BY <1>1 DEF Command
<1>3. range \in SUBSET Statistics
  BY TrainingAssumption
<1>4. \A j \in Existing : agent[j] = a => j = IdFor(a)
  BY DEF TrainingInv, TypeOK, IdFor
<1>5. \A j \in Existing' : agent'[j] = a => j = IdFor(a)
  BY <1>2, <1>4 DEF tables, Existing
<1> DEFINE i == IdFor(a)
           w1 == [do |-> "insert", id |-> i, agent |-> a]
           w2 == [do |-> "no commands", id |-> i]
           w3 == [do |-> "commands", id |-> i, set |-> defaults]
           w4 == [do |-> "statistics", id |-> i, set |-> range]
<1>6. web = <<>> /\ web' = <<w1, w2, w3, w4>>
  BY <1>1 DEF Command
<1>7. i \in Ids /\ \A j \in Existing' : agent'[j] = a => j = i
  BY <1>1, <1>5
<1> HIDE DEF i
<1>8. w1 \in Statements /\ w2 \in Statements /\ w3 \in Statements /\ w4 \in Statements
  BY <1>3, <1>7 DEF Statements
<1>9. /\ w1.do = "insert" /\ w1.id = i /\ w1.agent = a
      /\ w2.do # "insert" /\ w3.do # "insert" /\ w4.do # "insert" /\ w4.do = "statistics"
  OBVIOUS
<1> HIDE DEF w1, w2, w3, w4
<1>10. WebOK'
  BY <1>6, <1>7, <1>8, <1>9 DEF WebOK
<1>11. WebMarks'
  BY <1>6, <1>9 DEF WebMarks
<1> QED BY <1>2, <1>6, <1>10, <1>11, CommandFrame

LEMMA RemoveConfigurationStep ==
    ASSUME TrainingInv, RemoveConfiguration PROVE TrainingInv'
<1>1. PICK i \in Existing :
        Command(<<[do |-> "no statistics", id |-> i], [do |-> "no commands", id |-> i],
                  [do |-> "delete", id |-> i]>>)
  BY DEF RemoveConfiguration
<1>2. i \in Ids /\ UNCHANGED <<tables, network, work, missed>>
  BY <1>1 DEF Command, Existing
<1> DEFINE w1 == [do |-> "no statistics", id |-> i]
           w2 == [do |-> "no commands", id |-> i]
           w3 == [do |-> "delete", id |-> i]
<1>3. web = <<>> /\ web' = <<w1, w2, w3>>
  BY <1>1 DEF Command
<1>4. w1 \in Statements /\ w2 \in Statements /\ w3 \in Statements
  BY <1>2 DEF Statements
<1>5. /\ w1.do # "insert" /\ w2.do # "insert" /\ w3.do # "insert"
      /\ w3.do \in Marking /\ w1.id = i /\ w2.id = i /\ w3.id = i
  BY DEF Marking
<1> HIDE DEF w1, w2, w3
<1>6. WebOK'
  BY <1>3, <1>4, <1>5 DEF WebOK
<1>7. WebMarks'
  <2>1. /\ Len(web') = 3 /\ web'[1] = w1 /\ web'[2] = w2 /\ web'[3] = w3
    BY <1>3
  <2>2. web'[3].do \notin Changing
    BY <1>5, <2>1 DEF Changing, Marking
  <2>3. \A k \in 1..Len(web') : web'[k].id = i
    BY <1>5, <2>1
  <2>4. ASSUME NEW k \in 1..Len(web'), web'[k].do \in Changing
        PROVE  \E j \in (k + 1)..Len(web') : web'[j].do \in Marking /\ web'[j].id = web'[k].id
    <3>1. k # 3
      BY <2>2, <2>4
    <3>2. 3 \in (k + 1)..Len(web') /\ 3 \in 1..Len(web')
      BY <2>1, <3>1
    <3>3. web'[3].do \in Marking
      BY <1>5, <2>1
    <3> QED BY <2>3, <3>2, <3>3
  <2> QED BY <2>4 DEF WebMarks
<1> QED BY <1>2, <1>3, <1>6, <1>7, CommandFrame

LEMMA UpdateClassificationStep ==
    ASSUME TrainingInv, UpdateClassification PROVE TrainingInv'
<1>1. PICK i \in Existing, anomalies \in SUBSET Statistics :
        Command(<<[do |-> "class", id |-> i, set |-> learning[i], class |-> "NORMAL"],
                  [do |-> "class", id |-> i, set |-> anomalies, class |-> "ANOMALY"],
                  [do |-> "mark", id |-> i]>>)
  BY DEF UpdateClassification
<1>2. i \in Ids /\ UNCHANGED <<tables, network, work, missed>>
  BY <1>1 DEF Command, Existing
<1>3. learning[i] \in SUBSET Statistics
  BY <1>2 DEF TrainingInv, TypeOK
<1> DEFINE w1 == [do |-> "class", id |-> i, set |-> learning[i], class |-> "NORMAL"]
           w2 == [do |-> "class", id |-> i, set |-> anomalies, class |-> "ANOMALY"]
           w3 == [do |-> "mark", id |-> i]
<1>4. web = <<>> /\ web' = <<w1, w2, w3>>
  BY <1>1 DEF Command
<1>5. w1 \in Statements /\ w2 \in Statements /\ w3 \in Statements
  BY <1>2, <1>3 DEF Statements, Classes
<1>6. /\ w1.do # "insert" /\ w2.do # "insert" /\ w3.do # "insert"
      /\ w3.do \in Marking /\ w1.id = i /\ w2.id = i /\ w3.id = i
  BY DEF Marking
<1> HIDE DEF w1, w2, w3
<1>7. WebOK'
  BY <1>4, <1>5, <1>6 DEF WebOK
<1>8. WebMarks'
  <2>1. /\ Len(web') = 3 /\ web'[1] = w1 /\ web'[2] = w2 /\ web'[3] = w3
    BY <1>4
  <2>2. web'[3].do \notin Changing
    BY <1>6, <2>1 DEF Changing, Marking
  <2>3. \A k \in 1..Len(web') : web'[k].id = i
    BY <1>6, <2>1
  <2>4. ASSUME NEW k \in 1..Len(web'), web'[k].do \in Changing
        PROVE  \E j \in (k + 1)..Len(web') : web'[j].do \in Marking /\ web'[j].id = web'[k].id
    <3>1. k # 3
      BY <2>2, <2>4
    <3>2. 3 \in (k + 1)..Len(web') /\ 3 \in 1..Len(web')
      BY <2>1, <3>1
    <3>3. web'[3].do \in Marking
      BY <1>6, <2>1
    <3> QED BY <2>3, <3>2, <3>3
  <2> QED BY <2>4 DEF WebMarks
<1> QED BY <1>2, <1>4, <1>7, <1>8, CommandFrame

LEMMA SelectCommandsStep ==
    ASSUME TrainingInv, SelectCommands PROVE TrainingInv'
<1>1. PICK i \in Existing, chosen \in SUBSET Commands :
        Command(<<[do |-> "no commands", id |-> i], [do |-> "commands", id |-> i, set |-> chosen],
                  [do |-> "mark", id |-> i]>>)
  BY DEF SelectCommands
<1>2. i \in Ids /\ UNCHANGED <<tables, network, work, missed>>
  BY <1>1 DEF Command, Existing
<1> DEFINE w1 == [do |-> "no commands", id |-> i]
           w2 == [do |-> "commands", id |-> i, set |-> chosen]
           w3 == [do |-> "mark", id |-> i]
<1>3. web = <<>> /\ web' = <<w1, w2, w3>>
  BY <1>1 DEF Command
<1>4. w1 \in Statements /\ w2 \in Statements /\ w3 \in Statements
  BY <1>2 DEF Statements
<1>5. /\ w1.do # "insert" /\ w2.do # "insert" /\ w3.do # "insert"
      /\ w3.do \in Marking /\ w1.id = i /\ w2.id = i /\ w3.id = i
  BY DEF Marking
<1> HIDE DEF w1, w2, w3
<1>6. WebOK'
  BY <1>3, <1>4, <1>5 DEF WebOK
<1>7. WebMarks'
  <2>1. /\ Len(web') = 3 /\ web'[1] = w1 /\ web'[2] = w2 /\ web'[3] = w3
    BY <1>3
  <2>2. web'[3].do \notin Changing
    BY <1>5, <2>1 DEF Changing, Marking
  <2>3. \A k \in 1..Len(web') : web'[k].id = i
    BY <1>5, <2>1
  <2>4. ASSUME NEW k \in 1..Len(web'), web'[k].do \in Changing
        PROVE  \E j \in (k + 1)..Len(web') : web'[j].do \in Marking /\ web'[j].id = web'[k].id
    <3>1. k # 3
      BY <2>2, <2>4
    <3>2. 3 \in (k + 1)..Len(web') /\ 3 \in 1..Len(web')
      BY <2>1, <3>1
    <3>3. web'[3].do \in Marking
      BY <1>5, <2>1
    <3> QED BY <2>3, <3>2, <3>3
  <2> QED BY <2>4 DEF WebMarks
<1> QED BY <1>2, <1>3, <1>6, <1>7, CommandFrame

\* Whatever ends the process ends the command and the analysis; the tables
\* and the files stay.
LEMMA RestartStep ==
    ASSUME TrainingInv, Restart PROVE TrainingInv'
<1>1. UNCHANGED <<agent, changed, learning, selected, class, network>>
  BY DEF Restart, tables
<1>2. work'.at = "idle" /\ web' = <<>> /\ Len(web') = 0
  BY DEF Restart, NoWork
<1>3. \A i \in Ids : missed'[i] =
         IF "unmarked" \in missed[i] THEN (missed[i] \ {"unmarked"}) \cup {"cut"} ELSE missed[i]
  BY DEF Restart
<1>4. /\ missed' \in [Ids -> SUBSET Misses]
      /\ \A i \in Ids : missed[i] \in SUBSET Misses /\ "unmarked" \notin missed'[i]
  BY <1>3 DEF Restart, TrainingInv, TypeOK, Misses
<1>5. TypeOK'
  BY <1>1, <1>2, <1>4 DEF TrainingInv, TypeOK, Existing
<1>6. (DOMAIN network = Ids)' /\ WebOK' /\ WebMarks' /\ Unmarked'
  BY <1>1, <1>2, <1>4 DEF TrainingInv, WebOK, WebMarks, Unmarked
<1>7. WorkOK'
  BY <1>2 DEF WorkOK, Phases, Learning, Answering, Gathering
<1>8. \A i \in Ids : Sound(i) => Sound(i)'
  <2> SUFFICES ASSUME NEW i \in Ids, Sound(i) PROVE Sound(i)'
    OBVIOUS
  <2>1. UpToDate(i)' <=> UpToDate(i)
    BY <1>1, SameTables DEF UpToDate
  <2>2. HasUsers(i)' <=> HasUsers(i)
    BY <1>1, SameTables DEF HasUsers
  <2>3. missed'[i] = {} => missed[i] = {}
    BY <1>3
  <2>4. missed'[i] \subseteq {"another", "classified"} => missed[i] \subseteq {"another", "classified"}
    <3>1. CASE "unmarked" \in missed[i]
      <4>1. "cut" \in missed'[i]
        BY <1>3, <3>1
      <4> QED BY <4>1
    <3>2. CASE "unmarked" \notin missed[i]
      BY <1>3, <3>2
    <3> QED BY <3>1, <3>2
  <2> QED BY <2>1, <2>2, <2>3, <2>4 DEF Sound, Harmless
<1>9. UnchangedUpToDate'
  BY <1>1, <1>8, SameTables DEF TrainingInv, UnchangedUpToDate, Existing
<1>10. StillChanged' /\ Trained' /\ Progress' /\ Made' /\ TakenWhole'
  BY <1>2 DEF StillChanged, Trained, Progress, Made, TakenWhole, Training, Learning, Gathering, Answering
<1> QED BY <1>5, <1>6, <1>7, <1>9, <1>10 DEF TrainingInv

-----------------------------------------------------------------------------
(* A statement of the web command.                                         *)

\* A statement leaves well-typed tables, and marks a new configuration.
TablesOK ==
    /\ agent \in [Ids -> Agents \cup {NoAgent}] /\ changed \in [Ids -> BOOLEAN]
    /\ \A i, j \in Existing : agent[i] = agent[j] => i = j
    /\ \A i \in Ids : changed[i] => i \in Existing
    /\ learning \in [Ids -> SUBSET Statistics] /\ selected \in [Ids -> SUBSET Commands]
    /\ class \in [Statistics -> Classes]

MarksKept ==
    \A i \in Existing' : changed[i] \/ i \notin Existing => changed'[i]

LEMMA SetTypes ==
    /\ \A st \in Statements : st.do \in {"insert", "delete", "mark", "no statistics", "statistics",
                                         "no commands", "commands", "class"} /\ st.id \in Ids
    /\ \A st \in Statements : st.do = "insert" => st.agent \in Agents
    /\ \A st \in Statements : st.do = "statistics" => st.set \in SUBSET Statistics
    /\ \A st \in Statements : st.do = "commands" => st.set \in SUBSET Commands
    /\ \A st \in Statements : st.do = "class" => st.class \in Classes
BY DEF Statements

LEMMA InsertTables ==
    ASSUME TablesOK, NEW st \in Statements, st.do = "insert", Insert(st),
           \A j \in Existing : agent[j] = st.agent => j = st.id
    PROVE  TablesOK' /\ MarksKept
<1>1. st.id \in Ids /\ st.agent \in Agents /\ st.agent # NoAgent
  BY SetTypes, TrainingAssumption
<1>2. /\ agent' = [agent EXCEPT ![st.id] = st.agent]
      /\ changed' = [changed EXCEPT ![st.id] = TRUE]
      /\ UNCHANGED <<learning, selected, class>>
  BY DEF Insert
<1>3. agent' \in [Ids -> Agents \cup {NoAgent}] /\ changed' \in [Ids -> BOOLEAN]
  BY <1>1, <1>2 DEF TablesOK
<1>4. /\ agent'[st.id] = st.agent /\ changed'[st.id]
      /\ \A i \in Ids \ {st.id} : agent'[i] = agent[i] /\ changed'[i] = changed[i]
  BY <1>1, <1>2 DEF TablesOK
<1>5. Existing' = Existing \cup {st.id}
  BY <1>1, <1>4 DEF Existing
<1>6. Existing \subseteq Ids
  BY DEF Existing
<1>7. \A i, j \in Existing' : agent'[i] = agent'[j] => i = j
  BY <1>1, <1>4, <1>5, <1>6 DEF TablesOK
<1>8. \A i \in Ids : changed'[i] => i \in Existing'
  BY <1>4, <1>5 DEF TablesOK
<1>9. MarksKept
  BY <1>4, <1>5, <1>6 DEF MarksKept
<1> QED BY <1>2, <1>3, <1>7, <1>8, <1>9 DEF TablesOK

LEMMA DeleteTables ==
    ASSUME TablesOK, NEW st \in Statements, Delete(st)
    PROVE  TablesOK' /\ MarksKept
<1>1. st.id \in Ids
  BY SetTypes
<1>2. /\ agent' = [agent EXCEPT ![st.id] = NoAgent]
      /\ changed' = [changed EXCEPT ![st.id] = FALSE]
      /\ UNCHANGED <<learning, selected, class>>
  BY DEF Delete
<1>3. agent' \in [Ids -> Agents \cup {NoAgent}] /\ changed' \in [Ids -> BOOLEAN]
  BY <1>1, <1>2 DEF TablesOK
<1>4. /\ agent'[st.id] = NoAgent /\ ~ changed'[st.id]
      /\ \A i \in Ids \ {st.id} : agent'[i] = agent[i] /\ changed'[i] = changed[i]
  BY <1>1, <1>2 DEF TablesOK
<1>5. Existing' = Existing \ {st.id}
  BY <1>1, <1>4 DEF Existing
<1>6. Existing \subseteq Ids
  BY DEF Existing
<1>7. \A i, j \in Existing' : agent'[i] = agent'[j] => i = j
  BY <1>4, <1>5, <1>6 DEF TablesOK
<1>8. \A i \in Ids : changed'[i] => i \in Existing'
  BY <1>4, <1>5 DEF TablesOK
<1>9. MarksKept
  BY <1>4, <1>5, <1>6 DEF MarksKept
<1> QED BY <1>2, <1>3, <1>7, <1>8, <1>9 DEF TablesOK

LEMMA MarkTables ==
    ASSUME TablesOK, NEW st \in Statements, MarkAsChanged(st)
    PROVE  TablesOK' /\ MarksKept
<1>1. st.id \in Ids
  BY SetTypes
<1>2. /\ changed' = [changed EXCEPT ![st.id] = agent[st.id] # NoAgent]
      /\ UNCHANGED <<agent, learning, selected, class>>
  BY DEF MarkAsChanged
<1>3. changed' \in [Ids -> BOOLEAN]
  BY <1>1, <1>2 DEF TablesOK
<1>4. Existing' = Existing
  BY <1>2 DEF Existing
<1>5. /\ changed'[st.id] = (agent[st.id] # NoAgent)
      /\ \A i \in Ids \ {st.id} : changed'[i] = changed[i]
  BY <1>1, <1>2 DEF TablesOK
<1>6. \A i \in Ids : changed'[i] => i \in Existing'
  BY <1>4, <1>5 DEF TablesOK, Existing
<1>7. ASSUME NEW i \in Existing', changed[i] PROVE changed'[i]
  <2>1. i \in Ids /\ agent[i] # NoAgent
    BY <1>4 DEF Existing
  <2> QED BY <1>5, <1>7, <2>1
<1>8. MarksKept
  BY <1>4, <1>7 DEF MarksKept
<1> QED BY <1>2, <1>3, <1>4, <1>6, <1>8 DEF TablesOK

LEMMA SetTables ==
    ASSUME TablesOK, UNCHANGED <<agent, changed>>,
           learning' \in [Ids -> SUBSET Statistics], selected' \in [Ids -> SUBSET Commands],
           class' \in [Statistics -> Classes]
    PROVE  TablesOK' /\ MarksKept
<1>1. Existing' = Existing
  BY DEF Existing
<1> QED BY <1>1 DEF TablesOK, MarksKept

\* What a statement does to the tables, whichever it is.
LEMMA StatementTables ==
    ASSUME TrainingInv, WebStep
    PROVE  TablesOK' /\ MarksKept
<1> DEFINE st == Head(web)
<1>1. TablesOK
  BY DEF TrainingInv, TypeOK, TablesOK
<1>2. st \in Statements
  <2>1. web \in Seq(Statements) /\ web # <<>>
    BY DEF TrainingInv, WebOK, WebStep
  <2> QED BY <2>1
<1>3. st.do = "insert" => \A j \in Existing : agent[j] = st.agent => j = st.id
  BY DEF TrainingInv, WebOK, WebStep
<1>4. \/ st.do = "insert" /\ Insert(st)
      \/ st.do = "delete" /\ Delete(st)
      \/ st.do = "mark" /\ MarkAsChanged(st)
      \/ st.do = "no statistics" /\ SetLearning(st, {})
      \/ st.do = "statistics" /\ SetLearning(st, learning[st.id] \cup st.set)
      \/ st.do = "no commands" /\ SetSelected(st, {})
      \/ st.do = "commands" /\ SetSelected(st, selected[st.id] \cup st.set)
      \/ st.do = "class" /\ SetClass(st.set, st.class)
  BY DEF WebStep
<1> HIDE DEF st
<1>5. CASE st.do = "insert" /\ Insert(st)
  BY <1>1, <1>2, <1>3, <1>5, InsertTables
<1>6. CASE st.do = "delete" /\ Delete(st)
  BY <1>1, <1>2, <1>6, DeleteTables
<1>7. CASE st.do = "mark" /\ MarkAsChanged(st)
  BY <1>1, <1>2, <1>7, MarkTables
<1>8. ASSUME NEW S \in SUBSET Statistics, SetLearning(st, S) PROVE TablesOK' /\ MarksKept
  <2>1. learning' \in [Ids -> SUBSET Statistics]
    BY <1>1, <1>8 DEF TablesOK, SetLearning
  <2> QED BY <1>1, <1>8, <2>1, SetTables DEF SetLearning, TablesOK
<1>9. ASSUME NEW S \in SUBSET Commands, SetSelected(st, S) PROVE TablesOK' /\ MarksKept
  <2>1. selected' \in [Ids -> SUBSET Commands]
    BY <1>1, <1>9 DEF TablesOK, SetSelected
  <2> QED BY <1>1, <1>9, <2>1, SetTables DEF SetSelected, TablesOK
<1>10. CASE st.do = "statistics" /\ SetLearning(st, learning[st.id] \cup st.set)
  <2>1. learning[st.id] \cup st.set \in SUBSET Statistics
    BY <1>1, <1>2, <1>10, SetTypes DEF TablesOK
  <2> QED BY <1>8, <1>10, <2>1
<1>11. CASE st.do = "no statistics" /\ SetLearning(st, {})
  BY <1>8, <1>11
<1>12. CASE st.do = "no commands" /\ SetSelected(st, {})
  BY <1>9, <1>12
<1>13. CASE st.do = "commands" /\ SetSelected(st, selected[st.id] \cup st.set)
  <2>1. selected[st.id] \cup st.set \in SUBSET Commands
    BY <1>1, <1>2, <1>13, SetTypes DEF TablesOK
  <2> QED BY <1>9, <1>13, <2>1
<1>14. CASE st.do = "class" /\ SetClass(st.set, st.class)
  <2>1. class' \in [Statistics -> Classes]
    BY <1>1, <1>2, <1>14, SetTypes DEF TablesOK, SetClass
  <2> QED BY <1>1, <1>14, <2>1, SetTables DEF SetClass, TablesOK
<1> QED BY <1>4, <1>5, <1>6, <1>7, <1>10, <1>11, <1>12, <1>13, <1>14

\* The statement, and the rest of the command.
LEMMA HeadAndTail ==
    ASSUME TrainingInv, WebStep
    PROVE  /\ web \in Seq(Statements) /\ Len(web) \in Nat /\ 1 \in 1..Len(web)
           /\ Head(web) = web[1] /\ Head(web) \in Statements
           /\ Len(web') = Len(web) - 1 /\ web' \in Seq(Statements)
           /\ \A k \in 1..Len(web') : k + 1 \in 2..Len(web) /\ web'[k] = web[k + 1]
           /\ \A k \in 2..Len(web) : k - 1 \in 1..Len(web') /\ web'[k - 1] = web[k]
<1>1. web \in Seq(Statements) /\ web # <<>> /\ web' = Tail(web)
  BY DEF TrainingInv, WebOK, WebStep
<1>2. /\ Len(web) \in Nat /\ Len(web) > 0 /\ Head(web) = web[1] /\ Head(web) \in Statements
      /\ Len(web') = Len(web) - 1 /\ web' \in Seq(Statements)
  BY <1>1
<1>3. \A k \in 1..Len(web') : k + 1 \in 2..Len(web) /\ web'[k] = web[k + 1]
  BY <1>1, <1>2
<1>4. \A k \in 2..Len(web) : k - 1 \in 1..Len(web') /\ web'[k - 1] = web[k]
  <2> SUFFICES ASSUME NEW k \in 2..Len(web)
               PROVE  k - 1 \in 1..Len(web') /\ web'[k - 1] = web[k]
    OBVIOUS
  <2>1. k - 1 \in 1..Len(web') /\ (k - 1) + 1 = k
    BY <1>2
  <2> QED BY <1>3, <2>1
<1> QED BY <1>1, <1>2, <1>3, <1>4

\* Which statements change the data, and whose users.
LEMMA StatementData ==
    ASSUME TrainingInv, WebStep, NEW i \in Ids
    PROVE  /\ Data(i)' # Data(i) => Head(web).do \in Changing
           /\ Head(web).id # i => UsersOf(i)' = UsersOf(i)
<1> DEFINE st == Head(web)
<1>1. \/ st.do = "insert" /\ Insert(st)
      \/ st.do = "delete" /\ Delete(st)
      \/ st.do = "mark" /\ MarkAsChanged(st)
      \/ st.do = "no statistics" /\ SetLearning(st, {})
      \/ st.do = "statistics" /\ SetLearning(st, learning[st.id] \cup st.set)
      \/ st.do = "no commands" /\ SetSelected(st, {})
      \/ st.do = "commands" /\ SetSelected(st, selected[st.id] \cup st.set)
      \/ st.do = "class" /\ SetClass(st.set, st.class)
  BY DEF WebStep
<1>2. st.id \in Ids /\ learning \in [Ids -> SUBSET Statistics]
  BY HeadAndTail, SetTypes DEF TrainingInv, TypeOK
<1> HIDE DEF st
<1>3. CASE Insert(st) \/ Delete(st) \/ MarkAsChanged(st)
  <2>1. UNCHANGED <<learning, selected, class>>
    BY <1>3 DEF Insert, Delete, MarkAsChanged
  <2>2. Data(i)' = Data(i)
    BY <2>1 DEF Data, UsersOf, Known, Inputs, Stops
  <2>3. UsersOf(i)' = UsersOf(i)
    BY <2>1 DEF UsersOf
  <2> QED BY <2>2, <2>3
<1>4. CASE st.do \in Changing /\ \E S : SetLearning(st, S)
  <2>1. st.id # i => learning'[i] = learning[i]
    BY <1>2, <1>4 DEF SetLearning
  <2>2. st.id # i => UsersOf(i)' = UsersOf(i)
    BY <2>1 DEF UsersOf
  <2> QED BY <1>4, <2>2 DEF st
<1>5. CASE st.do \in Changing /\ UNCHANGED learning
  <2>1. UsersOf(i)' = UsersOf(i)
    BY <1>5 DEF UsersOf
  <2> QED BY <1>5, <2>1 DEF st
<1> QED BY <1>1, <1>3, <1>4, <1>5 DEF Changing, SetSelected, SetClass

\* A statement that changes the data of a configuration is followed by a mark
\* or noted; and what it notes is no longer unmarked once the mark is made.
LEMMA StatementMisses ==
    ASSUME TrainingInv, WebStep, NEW i \in Ids
    PROVE  /\ missed'[i] \in SUBSET Misses
           /\ (i \in Existing' /\ ~ changed'[i]) \/ TrainerHas(i) =>
                 /\ missed'[i] = {} => missed[i] = {} /\ Data(i)' = Data(i)
                 /\ Harmless(i)' => Harmless(i) /\ UsersOf(i)' = UsersOf(i)
           /\ "unmarked" \in missed'[i] =>
                 \E k \in 1..Len(web') : web'[k].do \in Marking /\ web'[k].id = i
<1> DEFINE st == Head(web)
           Settles == st.do \in Marking /\ st.id = i /\ "unmarked" \in missed[i]
           Harm(M) == ~ (M \subseteq {"another", "classified"})
<1>1. missed'[i] = IF Data(i)' # Data(i) THEN missed[i] \cup WhyMissed(i)
                   ELSE IF Settles THEN Marked(i) ELSE missed[i]
  BY DEF WebStep, MissesOfWeb, Marking
<1>2. missed[i] \in SUBSET Misses
  BY DEF TrainingInv, TypeOK
<1>3. /\ "another" \in WhyMissed(i) <=> st.id # i
      /\ "filled" \in WhyMissed(i) <=> st.id = i /\ IsSaving
      /\ "unmarked" \in WhyMissed(i) <=> st.id = i /\ MarkFollows(i)
      /\ WhyMissed(i) \in SUBSET Misses
  BY DEF WhyMissed, Misses
<1>4. /\ "unmarked" \notin Marked(i) /\ Marked(i) \subseteq missed[i] \cup {"training"}
      /\ TrainerHas(i) => "training" \in Marked(i)
  BY DEF Marked
<1>5. /\ Data(i)' # Data(i) => st.do \in Changing
      /\ st.id # i => UsersOf(i)' = UsersOf(i)
      /\ Data(i)' = Data(i) => UsersOf(i)' = UsersOf(i)
  BY StatementData, SameData
<1>6. missed'[i] \in SUBSET Misses
  BY <1>1, <1>2, <1>3, <1>4 DEF Misses
<1>a. (Harmless(i) <=> ~ Harm(missed[i])) /\ (Harmless(i)' <=> ~ Harm(missed'[i]))
  BY DEF Harmless
<1> DEFINE Ready == (i \in Existing' /\ ~ changed'[i]) \/ TrainerHas(i)
           Kept == /\ missed'[i] = {} => missed[i] = {} /\ Data(i)' = Data(i)
                   /\ ~ Harm(missed'[i]) => ~ Harm(missed[i]) /\ UsersOf(i)' = UsersOf(i)
<1>7. ASSUME Data(i)' # Data(i) PROVE Kept
  <2>1. missed'[i] = missed[i] \cup WhyMissed(i) /\ st.do \in Changing
    BY <1>1, <1>5, <1>7
  <2>2. CASE st.id = i
    <3>1. IsSaving \/ MarkFollows(i)
      <4>1. web[1].do \in Changing /\ web[1].id = i /\ 1 \in 1..Len(web) /\ Len(web) \in Nat
        BY <2>1, <2>2, HeadAndTail
      <4>2. \/ \E j \in 1..Len(web) : web[j].do = "statistics"
            \/ \E j \in (1 + 1)..Len(web) : web[j].do \in Marking /\ web[j].id = web[1].id
        BY <4>1 DEF TrainingInv, WebMarks
      <4> QED BY <4>1, <4>2 DEF IsSaving, MarkFollows, Marking
    <3>2. "filled" \in missed'[i] \/ "unmarked" \in missed'[i]
      BY <1>3, <2>1, <2>2, <3>1
    <3> QED BY <3>2
  <2>3. CASE st.id # i
    <3>1. missed'[i] # {} /\ missed[i] \subseteq missed'[i] /\ UsersOf(i)' = UsersOf(i)
      BY <1>3, <1>5, <2>1, <2>3
    <3> QED BY <3>1
  <2> QED BY <2>2, <2>3
<1>8. ASSUME Data(i)' = Data(i), ~ Settles PROVE Kept
  <2>1. missed'[i] = missed[i] /\ UsersOf(i)' = UsersOf(i)
    BY <1>1, <1>5, <1>8
  <2> QED BY <1>8, <2>1
<1>9. ASSUME Data(i)' = Data(i), Settles, Ready PROVE Kept
  <2>1. missed'[i] = Marked(i)
    BY <1>1, <1>9
  <2>2. ~ (i \in Existing' /\ ~ changed'[i])
    <3>1. CASE st.do = "mark"
      <4>1. changed' = [changed EXCEPT ![st.id] = agent[st.id] # NoAgent] /\ agent' = agent
        BY <3>1 DEF WebStep, MarkAsChanged
      <4>2. changed'[i] = (agent[i] # NoAgent)
        BY <1>9, <4>1 DEF TrainingInv, TypeOK
      <4> QED BY <4>1, <4>2 DEF Existing
    <3>2. CASE st.do = "delete"
      <4>1. agent' = [agent EXCEPT ![st.id] = NoAgent]
        BY <3>2 DEF WebStep, Delete
      <4>2. agent'[i] = NoAgent
        BY <1>9, <4>1 DEF TrainingInv, TypeOK
      <4> QED BY <4>2 DEF Existing
    <3> QED BY <1>9, <3>1, <3>2 DEF Marking
  <2>3. "training" \in missed'[i]
    BY <1>4, <1>9, <2>1, <2>2
  <2> QED BY <2>3
<1>10. ASSUME "unmarked" \in missed'[i]
       PROVE  \E k \in 1..Len(web') : web'[k].do \in Marking /\ web'[k].id = i
  <2>1. ~ Settles \/ Data(i)' # Data(i)
    BY <1>1, <1>4, <1>10
  <2>2. \E k \in 2..Len(web) : web[k].do \in Marking /\ web[k].id = i
    <3>1. CASE "unmarked" \in missed[i]
      <4>1. PICK k \in 1..Len(web) : web[k].do \in Marking /\ web[k].id = i
        BY <3>1 DEF TrainingInv, Unmarked
      <4>2. k # 1
        BY <1>5, <2>1, <3>1, <4>1, HeadAndTail DEF Changing, Marking
      <4>3. k \in 2..Len(web)
        BY <4>2, HeadAndTail
      <4> QED BY <4>1, <4>3
    <3>2. CASE "unmarked" \notin missed[i]
      <4>1. "unmarked" \in WhyMissed(i)
        BY <1>1, <1>4, <1>10, <3>2
      <4> QED BY <1>3, <4>1 DEF MarkFollows, Marking
    <3> QED BY <3>1, <3>2
  <2> QED BY <2>2, HeadAndTail
<1>11. Ready => Kept
  BY <1>7, <1>8, <1>9
<1> HIDE DEF Harm
<1> QED BY <1>6, <1>10, <1>11, <1>a

\* What was gathered stays right while the data stay.
LEMMA ProgressStays ==
    ASSUME TypeOK, Progress, work' = work, NEW i \in Ids, i = work.id,
           missed[i] = {}, Data(i)' = Data(i)
    PROVE  Progress'
<1> DEFINE K == KnownBy(i, work.user)
           F == FirstRows(K, work.offset)
           Held == {r.statistic : r \in work.part}
           B == KnownBut(i, work.users)
           P == KnownBut(i, work.users \cup {work.user}) \cup (F \ Held)
<1>1. /\ UsersOf(i)' = UsersOf(i) /\ Known(i)' = Known(i) /\ selected'[i] = selected[i]
      /\ \A s \in Known(i) : class'[s] = class[s]
      /\ \A x : KnownBy(i, x)' = KnownBy(i, x) /\ KnownBut(i, x)' = KnownBut(i, x)
      /\ \A W \in SUBSET Known(i) : RowsOf(i, W)' = RowsOf(i, W)
  BY SameData
<1>2. F \in SUBSET Known(i)
  BY KnownAreStatistics DEF FirstRows
<1>3. B \in SUBSET Known(i) /\ P \in SUBSET Known(i) /\ Known(i) \in SUBSET Known(i)
  BY <1>2, KnownAreStatistics
<1>4. /\ K' = K /\ B' = B /\ Held' = Held
      /\ KnownBut(i, work.users \cup {work.user})' = KnownBut(i, work.users \cup {work.user})
  BY <1>1
<1>5. F' = F
  BY <1>4
<1>6. P' = P
  BY <1>4, <1>5
<1>7. /\ RowsOf(i, B)' = RowsOf(i, B) /\ RowsOf(i, P)' = RowsOf(i, P)
      /\ RowsOf(i, Known(i))' = RowsOf(i, Known(i))
  BY <1>1, <1>3, <1>4, <1>6
<1>8. work.at \in Learning => /\ Wrote(B) => Wrote(B)'
                              /\ Wrote(P) => Wrote(P)'
  BY <1>4, <1>6, <1>7 DEF Wrote
<1>9. Gathered => Gathered'
  BY <1>1 DEF Gathered
<1>10. InUser <=> /\ work.user \notin work.users
                  /\ work.offset + work.toRead = Cardinality(K)
                  /\ \A r \in work.part :
                        /\ r.statistic \in F
                        /\ r = [statistic |-> r.statistic, class |-> class[r.statistic]]
                  /\ Wrote(P)
  BY DEF InUser
<1>11. InUser' <=> /\ work.user \notin work.users
                   /\ work.offset + work.toRead = Cardinality(K')
                   /\ \A r \in work.part :
                         /\ r.statistic \in F'
                         /\ r = [statistic |-> r.statistic, class |-> class'[r.statistic]]
                   /\ Wrote(P)'
  BY DEF InUser
<1>12. work.at \in Learning /\ InUser => InUser'
  <2> SUFFICES ASSUME work.at \in Learning, InUser PROVE InUser'
    OBVIOUS
  <2>1. \A r \in work.part :
           /\ r.statistic \in F'
           /\ r = [statistic |-> r.statistic, class |-> class'[r.statistic]]
    <3>1. \A r \in work.part :
             /\ r.statistic \in F
             /\ r = [statistic |-> r.statistic, class |-> class[r.statistic]]
      BY <1>10
    <3> HIDE DEF F
    <3> QED BY <3>1, <1>1, <1>2, <1>5
  <2> HIDE DEF F, K, P
  <2> QED BY <1>4, <1>8, <1>10, <1>11, <2>1
<1>13. work.at = "user" => work.at \in Learning
  BY DEF Learning, Gathering
<1> QED
  <2> SUFFICES ASSUME work.at \in Learning, missed'[work.id] = {}
               PROVE  /\ work.at \in {"header", "selected"} =>
                            /\ work.users = UsersOf(work.id)'
                            /\ work.outputs = Cardinality(UsersOf(work.id)')
                      /\ work.at = "selected" => work.size = Cardinality(Known(work.id)')
                      /\ work.at \in Gathering => Gathered'
                      /\ work.at = "user" => Wrote(B)'
                      /\ work.at = "part" => InUser'
                      /\ work.at = "save" =>
                           /\ work.made.usable /\ work.made.trained
                           /\ work.made.outputs = Cardinality(UsersOf(work.id)')
                           /\ work.made.rows = RowsOf(work.id, Known(work.id))'
    BY DEF Progress
  <2> HIDE DEF P, F, K, Held
  <2> QED BY <1>1, <1>7, <1>8, <1>9, <1>12 DEF Progress

LEMMA WebStepStep ==
    ASSUME TrainingInv, WebStep PROVE TrainingInv'
<1>1. TablesOK' /\ MarksKept
  BY StatementTables
<1>2. web # <<>> /\ web' = Tail(web) /\ UNCHANGED <<network, work>>
  BY DEF WebStep
<1>3. \A i \in Ids : (i \in Existing' /\ ~ changed'[i]) \/ TrainerHas(i) =>
         /\ missed'[i] = {} => missed[i] = {} /\ Data(i)' = Data(i)
         /\ Harmless(i)' => Harmless(i) /\ UsersOf(i)' = UsersOf(i)
  BY StatementMisses
<1>4. Existing' \subseteq Ids /\ Existing \subseteq Ids
  BY DEF Existing
<1>5. TypeOK'
  <2>1. missed' \in [Ids -> SUBSET Misses]
    <3>1. missed' = [i \in Ids |-> missed'[i]]
      BY DEF WebStep, MissesOfWeb
    <3>2. \A i \in Ids : missed'[i] \in SUBSET Misses
      BY StatementMisses
    <3> QED BY <3>1, <3>2
  <2> QED BY <1>1, <1>2, <2>1 DEF TablesOK, TrainingInv, TypeOK
<1>6. WebOK'
  <2>1. \A k \in 1..Len(web') : web'[k].do # "insert"
    BY HeadAndTail DEF TrainingInv, WebOK
  <2>2. web' # <<>> => Head(web').do # "insert"
    <3>1. web' # <<>> => 1 \in 1..Len(web') /\ Head(web') = web'[1]
      BY HeadAndTail
    <3> QED BY <2>1, <3>1
  <2>3. \A k \in 2..Len(web') : web'[k].do # "insert"
    BY <2>1, HeadAndTail
  <2> QED BY <2>2, <2>3, HeadAndTail DEF WebOK
<1>7. WebMarks' /\ Unmarked'
  <2>1. Unmarked'
    BY StatementMisses DEF Unmarked
  <2>2. ASSUME NEW k \in 1..Len(web'), web'[k].do \in Changing
        PROVE  \/ \E j \in k..Len(web') : web'[j].do = "statistics"
               \/ \E j \in (k + 1)..Len(web') : web'[j].do \in Marking /\ web'[j].id = web'[k].id
    <3>1. /\ k + 1 \in 1..Len(web) /\ web'[k] = web[k + 1]
          /\ Len(web) \in Nat /\ Len(web') = Len(web) - 1
      BY HeadAndTail
    <3>2. \/ \E j \in (k + 1)..Len(web) : web[j].do = "statistics"
          \/ \E j \in ((k + 1) + 1)..Len(web) :
                web[j].do \in Marking /\ web[j].id = web[k + 1].id
      BY <2>2, <3>1 DEF TrainingInv, WebMarks
    <3>3. \A j \in (k + 1)..Len(web) : j - 1 \in k..Len(web') /\ web'[j - 1] = web[j]
      BY <3>1, HeadAndTail
    <3>4. \A j \in ((k + 1) + 1)..Len(web) :
             j - 1 \in (k + 1)..Len(web') /\ web'[j - 1] = web[j]
      BY <3>1, HeadAndTail
    <3> QED BY <3>1, <3>2, <3>3, <3>4
  <2> QED BY <2>1, <2>2 DEF WebMarks
<1>8. (DOMAIN network = Ids)' /\ WorkOK' /\ TakenWhole'
  BY <1>2 DEF TrainingInv, WorkOK, TakenWhole
<1>9. StillChanged'
  BY <1>1, <1>2 DEF TrainingInv, StillChanged, MarksKept
<1>10. ASSUME work.at \in Learning \cup {"mark"}
       PROVE  work.id \in Ids /\ TrainerHas(work.id)
  BY <1>10 DEF TrainingInv, WorkOK, TrainerHas, Learning, Gathering
<1>11. ASSUME NEW i \in Ids, (i \in Existing' /\ ~ changed'[i]) \/ TrainerHas(i), Sound(i)
       PROVE  Sound(i)'
  <2>1. missed'[i] = {} => UpToDate(i)'
    <3> SUFFICES ASSUME missed'[i] = {} PROVE UpToDate(i)'
      OBVIOUS
    <3>1. Data(i)' = Data(i) /\ UpToDate(i)
      BY <1>3, <1>11 DEF Sound
    <3>2. UsersOf(i)' = UsersOf(i) /\ RowsOf(i, Known(i))' = RowsOf(i, Known(i))
      <4>1. Known(i) \in SUBSET Known(i)
        OBVIOUS
      <4> QED BY <3>1, <4>1, SameData
    <3> QED BY <1>2, <3>1, <3>2 DEF UpToDate
  <2>2. Harmless(i)' => HasUsers(i)'
    BY <1>2, <1>3, <1>11 DEF Sound, HasUsers
  <2> QED BY <2>1, <2>2 DEF Sound
<1>12. Trained'
  <2> SUFFICES ASSUME work.at = "mark" PROVE Sound(work.id)'
    BY <1>2 DEF Trained
  <2>1. PICK i \in Ids : i = work.id /\ TrainerHas(i)
    BY <1>10
  <2>2. Sound(i)'
    BY <1>11, <2>1 DEF TrainingInv, Trained
  <2> QED BY <1>2, <2>1, <2>2 DEF Sound, UpToDate, HasUsers, Harmless
<1>13. Progress'
  <2>1. CASE work.at \in Learning /\ missed'[work.id] = {}
    <3>1. PICK i \in Ids : i = work.id /\ TrainerHas(i)
      BY <1>10, <2>1
    <3>2. missed[i] = {} /\ Data(i)' = Data(i)
      BY <1>3, <2>1, <3>1
    <3> QED BY <1>2, <3>1, <3>2, ProgressStays DEF TrainingInv
  <2>2. CASE ~ (work.at \in Learning /\ missed'[work.id] = {})
    BY <1>2, <2>2 DEF Progress
  <2> QED BY <2>1, <2>2
<1>14. Made'
  <2> SUFFICES ASSUME work.at = "save", Harmless(work.id)'
               PROVE  work.made.usable /\ work.made.outputs = Cardinality(UsersOf(work.id)')
    BY <1>2 DEF Made
  <2>1. PICK i \in Ids : i = work.id /\ TrainerHas(i)
    BY <1>10 DEF Learning
  <2>2. Harmless(i)'
    BY <1>2, <2>1 DEF Harmless
  <2>3. Harmless(i) /\ UsersOf(i)' = UsersOf(i)
    BY <1>3, <2>1, <2>2
  <2> QED BY <1>2, <2>1, <2>3 DEF TrainingInv, Made, UsersOf
<1>15. UnchangedUpToDate'
  <2> SUFFICES ASSUME NEW i \in Existing', ~ changed'[i] PROVE Sound(i)'
    BY DEF UnchangedUpToDate
  <2>1. i \in Ids /\ i \in Existing /\ ~ changed[i]
    BY <1>1, <1>4 DEF MarksKept
  <2> QED BY <1>11, <2>1 DEF TrainingInv, UnchangedUpToDate
<1> QED BY <1>5, <1>6, <1>7, <1>8, <1>9, <1>12, <1>13, <1>14, <1>15 DEF TrainingInv

-----------------------------------------------------------------------------
(* The training.                                                           *)

\* A step of the analyzer that only reads.
LEMMA ReadsFrame ==
    ASSUME TrainingInv, UNCHANGED <<tables, network, web, missed>>,
           WorkOK', StillChanged', Trained', Progress', Made', TakenWhole'
    PROVE  TrainingInv'
<1>1. UNCHANGED <<agent, changed, learning, selected, class>>
  BY DEF tables
<1>2. Existing' = Existing /\ \A i : Sound(i)' <=> Sound(i)
  BY <1>1, SameTables, SameSound
<1>3. TypeOK'
  BY <1>1, <1>2 DEF TrainingInv, TypeOK, WorkOK, Gathering
<1>4. WebOK' /\ WebMarks' /\ Unmarked' /\ UnchangedUpToDate'
  BY <1>1, <1>2 DEF TrainingInv, WebOK, WebMarks, Unmarked, UnchangedUpToDate
<1> QED BY <1>3, <1>4 DEF TrainingInv

\* A step inside the training of one configuration.
LEMMA WithinFrame ==
    ASSUME TrainingInv, Reads, work.at \in Learning, work'.at \in Learning,
           work'.at # "save", work'.left = work.left, work'.id = work.id, WorkOK', Progress'
    PROVE  TrainingInv'
<1>1. UNCHANGED <<tables, network, web, missed>>
  BY DEF Reads, Analyzer
<1>2. UNCHANGED <<agent, changed, learning, selected, class>>
  BY <1>1 DEF tables
<1>3. Existing' = Existing
  BY <1>2, SameTables
<1>4. /\ work.at \in Training /\ work'.at \in Training /\ work.at # "train" /\ work'.at # "train"
      /\ work'.at # "mark" /\ work'.at # "classify" /\ work'.at \notin Answering
  BY DEF Training, Learning, Gathering, Answering
<1>5. StillChanged' /\ Trained' /\ Made' /\ TakenWhole'
  BY <1>1, <1>2, <1>3, <1>4 DEF TrainingInv, StillChanged, Trained, Made, TakenWhole
<1> QED BY <1>1, <1>5, ReadsFrame

LEMMA TrainStep ==
    ASSUME TrainingInv, Train PROVE TrainingInv'
<1>1. UNCHANGED <<tables, network, web, missed>>
  BY DEF Train, Analyzer
<1>2. UNCHANGED <<agent, changed, learning, selected, class>>
  BY <1>1 DEF tables
<1>3. Existing' = Existing
  BY <1>2, SameTables
<1>4. work'.at = "train" /\ work'.left = {i \in Existing : changed[i]}
  BY DEF Train
<1>5. WorkOK'
  BY <1>4 DEF WorkOK, Phases, Training, Learning, Gathering, Answering, Existing
<1>6. StillChanged' /\ Trained' /\ Progress' /\ Made' /\ TakenWhole'
  BY <1>2, <1>3, <1>4 DEF StillChanged, Trained, Progress, Made, TakenWhole, Learning, Gathering,
       Answering
<1> QED BY <1>1, <1>5, <1>6, ReadsFrame

LEMMA CreateLearningSetFileStep ==
    ASSUME TrainingInv, CreateLearningSetFile PROVE TrainingInv'
<1>1. UNCHANGED <<agent, changed, learning, selected, class, network, web>>
  BY DEF CreateLearningSetFile, Analyzer, tables
<1>2. Existing' = Existing /\ \A i : UsersOf(i)' = UsersOf(i)
  BY <1>1, SameTables
<1>3. work.at = "train" /\ work.left # {} /\ work.left \subseteq Ids
  BY DEF CreateLearningSetFile, TrainingInv, WorkOK
<1>4. PICK i \in work.left : i = Lowest(work.left)
  BY <1>3, IdsAreNumbers, LowestIsIn
<1>5. i \in Ids
  BY <1>3, <1>4
<1>6. /\ work' = [at |-> "header", left |-> work.left \ {i}, id |-> i,
                  users |-> UsersOf(i), outputs |-> Cardinality(UsersOf(i))]
      /\ missed' = [missed EXCEPT ![i] = {}]
  BY <1>4 DEF CreateLearningSetFile
<1>7. /\ work'.at = "header" /\ work'.left = work.left \ {i} /\ work'.id = i
      /\ work'.users = UsersOf(i) /\ work'.outputs = Cardinality(UsersOf(i))
  BY <1>6
<1>8. /\ missed' \in [Ids -> SUBSET Misses] /\ missed'[i] = {}
      /\ \A j \in Ids : j # i => missed'[j] = missed[j]
  BY <1>5, <1>6 DEF TrainingInv, TypeOK
<1>9. Existing \subseteq Ids /\ (i \in Existing => changed[i])
  BY <1>3, <1>4 DEF TrainingInv, StillChanged, Training, Existing
<1>10. TypeOK'
  BY <1>1, <1>2, <1>7, <1>8 DEF TrainingInv, TypeOK
<1>11. WorkOK'
  BY <1>3, <1>5, <1>7 DEF WorkOK, Phases, Training, Learning, Gathering, Answering
<1>12. StillChanged'
  BY <1>1, <1>2, <1>3, <1>7, <1>9 DEF TrainingInv, StillChanged, Training
<1>13. Trained' /\ Made' /\ TakenWhole'
  BY <1>7 DEF Trained, Made, TakenWhole, Answering
<1>14. Progress'
  BY <1>2, <1>7 DEF Progress, Gathering
<1>15. WebOK' /\ WebMarks' /\ Unmarked'
  BY <1>1, <1>2, <1>8 DEF TrainingInv, WebOK, WebMarks, Unmarked
<1>16. UnchangedUpToDate'
  <2> SUFFICES ASSUME NEW j \in Existing', ~ changed'[j] PROVE Sound(j)'
    BY DEF UnchangedUpToDate
  <2>1. j \in Ids /\ j \in Existing /\ ~ changed[j] /\ j # i /\ Sound(j)
    BY <1>1, <1>2, <1>9 DEF TrainingInv, UnchangedUpToDate
  <2>2. missed'[j] = missed[j] /\ (UpToDate(j)' <=> UpToDate(j)) /\ (HasUsers(j)' <=> HasUsers(j))
    BY <1>1, <1>8, <2>1, SameTables DEF UpToDate, HasUsers
  <2> QED BY <2>1, <2>2 DEF Sound, Harmless
<1> QED BY <1>1, <1>10, <1>11, <1>12, <1>13, <1>14, <1>15, <1>16 DEF TrainingInv

LEMMA WriteHeaderStep ==
    ASSUME TrainingInv, WriteHeader PROVE TrainingInv'
<1>1. Reads /\ work.at = "header"
  BY DEF WriteHeader
<1>2. UNCHANGED <<agent, learning, selected, class, missed>>
  BY <1>1 DEF Reads, Analyzer, tables
<1>3. /\ work'.at = "selected" /\ work'.left = work.left /\ work'.id = work.id
      /\ work'.users = work.users /\ work'.outputs = work.outputs
      /\ work'.size = Cardinality(Known(work.id))
  BY DEF WriteHeader
<1>4. WorkOK'
  BY <1>1, <1>3 DEF TrainingInv, WorkOK, Phases, Training, Learning, Gathering, Answering
<1>5. Progress'
  BY <1>1, <1>2, <1>3, SameTables DEF TrainingInv, Progress, Learning, Gathering
<1>6. work.at \in Learning /\ work'.at \in Learning
  BY <1>1, <1>3 DEF Learning
<1> QED BY <1>1, <1>3, <1>4, <1>5, <1>6, WithinFrame

LEMMA GetMarkedCommandsIdsStep ==
    ASSUME TrainingInv, GetMarkedCommandsIds PROVE TrainingInv'
<1>1. Reads /\ work.at = "selected"
  BY DEF GetMarkedCommandsIds
<1>2. UNCHANGED <<agent, learning, selected, class, missed>>
  BY <1>1 DEF Reads, Analyzer, tables
<1>3. work' = [at |-> "user", left |-> work.left, id |-> work.id, users |-> work.users,
               outputs |-> work.outputs, size |-> work.size, selected |-> selected[work.id],
               user |-> 0, toRead |-> 0, offset |-> 0, part |-> {}, lines |-> 0, rows |-> {}]
  BY DEF GetMarkedCommandsIds
<1>4. /\ work'.at = "user" /\ work'.left = work.left /\ work'.id = work.id
      /\ work'.users = work.users /\ work'.outputs = work.outputs /\ work'.size = work.size
      /\ work'.selected = selected[work.id]
      /\ work'.user = 0 /\ work'.toRead = 0 /\ work'.offset = 0 /\ work'.part = {}
      /\ work'.lines = 0 /\ work'.rows = {}
  BY <1>3
<1>5. work' = [at |-> work'.at, left |-> work'.left, id |-> work'.id, users |-> work'.users,
               outputs |-> work'.outputs, size |-> work'.size, selected |-> work'.selected,
               user |-> work'.user, toRead |-> work'.toRead, offset |-> work'.offset,
               part |-> work'.part, lines |-> work'.lines, rows |-> work'.rows]
  BY <1>3, <1>4
<1>6. WorkOK'
  <2>1. IsFiniteSet({}) /\ Cardinality({}) <= MaxRows
    BY FS_EmptySet, TrainingAssumption
  <2> QED BY <1>1, <1>4, <1>5, <2>1
          DEF TrainingInv, WorkOK, Phases, Training, Learning, Gathering, Answering
<1>7. work.at \in Learning /\ work'.at \in Learning
  BY <1>1, <1>4 DEF Learning, Gathering
<1>8. Progress'
  <2> SUFFICES ASSUME missed[work.id] = {} PROVE Gathered' /\ Wrote(KnownBut(work.id, work.users))'
    BY <1>2, <1>4 DEF Progress, Gathering
  <2>1. /\ work.users = UsersOf(work.id) /\ work.outputs = Cardinality(UsersOf(work.id))
        /\ work.size = Cardinality(Known(work.id))
    BY <1>1, <1>7 DEF TrainingInv, Progress
  <2>2. KnownBut(work.id, work.users) = {}
    BY <2>1 DEF KnownBut, Known, UsersOf
  <2>3. KnownBut(work.id, work.users)' = {}
    BY <1>2, <1>4, <2>2, SameTables
  <2>4. Wrote(KnownBut(work.id, work.users))'
    BY <1>4, <2>3, FS_EmptySet DEF Wrote, RowsOf
  <2>5. Gathered'
    BY <1>2, <1>4, <2>1, SameTables DEF Gathered
  <2> QED BY <2>4, <2>5
<1> QED BY <1>1, <1>4, <1>6, <1>7, <1>8, WithinFrame

\* The fields of what the trainer holds while it gathers.
GatheringShape ==
    work = [at |-> work.at, left |-> work.left, id |-> work.id, users |-> work.users,
            outputs |-> work.outputs, size |-> work.size, selected |-> work.selected,
            user |-> work.user, toRead |-> work.toRead, offset |-> work.offset,
            part |-> work.part, lines |-> work.lines, rows |-> work.rows]

LEMMA GatheringOK ==
    ASSUME TrainingInv, work.at \in Gathering
    PROVE  /\ GatheringShape /\ work.id \in Ids /\ work.left \subseteq Ids
           /\ work.toRead \in Nat /\ work.offset \in Nat
           /\ work.at \in Learning
           /\ IsFiniteSet(work.part) /\ Cardinality(work.part) <= MaxRows
           /\ work.at = "user" => work.part = {}
           /\ missed[work.id] = {} => /\ Gathered
                                      /\ work.at = "user" => Wrote(KnownBut(work.id, work.users))
                                      /\ work.at = "part" => InUser
<1>1. work.at \in Learning /\ work.at # "idle"
  BY DEF Learning, Gathering
<1> QED BY <1>1 DEF TrainingInv, WorkOK, GatheringShape, Progress

\* A gathering step that keeps the shape keeps the invariant if it keeps
\* the progress.
LEMMA GatheringFrame ==
    ASSUME TrainingInv, Reads, work.at \in Gathering, work'.at \in Gathering, GatheringShape',
           work'.left = work.left, work'.id = work.id,
           work'.toRead \in Nat, work'.offset \in Nat,
           IsFiniteSet(work'.part), Cardinality(work'.part) <= MaxRows,
           work'.at = "user" => work'.part = {},
           missed[work.id] = {} => /\ Gathered'
                                   /\ work'.at = "user" => Wrote(KnownBut(work.id, work.users))'
                                   /\ work'.at = "part" => InUser'
    PROVE  TrainingInv'
<1>1. work.id \in Ids /\ work.left \subseteq Ids
  BY GatheringOK
<1>2. work.at \in Learning /\ work'.at \in Learning
  BY DEF Learning
<1>3. /\ work'.at \in Phases /\ work'.at # "save" /\ work'.at # "rows" /\ work'.at # "idle"
      /\ work'.at # "header" /\ work'.at # "selected"
  BY DEF Gathering, Learning, Training, Phases
<1>4. WorkOK'
  BY <1>1, <1>3 DEF WorkOK, GatheringShape
<1>5. missed' = missed
  BY DEF Reads
<1>6. Progress'
  BY <1>3, <1>5 DEF Progress
<1> QED BY <1>2, <1>3, <1>4, <1>6, WithinFrame

\* What a gathering step has to show of the tables, which it only reads.
LEMMA GatheredStays ==
    ASSUME UNCHANGED <<agent, learning, selected, class>>, Gathered,
           work'.users \subseteq work.users, work'.id = work.id,
           work'.outputs = work.outputs, work'.size = work.size, work'.selected = work.selected
    PROVE  Gathered'
BY SameTables DEF Gathered

LEMMA WroteNext ==
    ASSUME UNCHANGED <<agent, learning, selected, class>>, NEW i, work'.id = i,
           work'.rows = RowsOf(i, KnownBut(i, work'.users)),
           work'.lines = Cardinality(KnownBut(i, work'.users))
    PROVE  Wrote(KnownBut(work.id, work.users))'
BY SameTables DEF Wrote

LEMMA InUserNext ==
    ASSUME UNCHANGED <<agent, learning, selected, class>>, NEW i, NEW u, NEW H,
           work'.id = i, work'.user = u, u \notin work'.users,
           work'.offset + work'.toRead = Cardinality(KnownBy(i, u)),
           \A r \in work'.part :
              /\ r.statistic \in FirstRows(KnownBy(i, u), work'.offset)
              /\ r = [statistic |-> r.statistic, class |-> class[r.statistic]],
           H = {r.statistic : r \in work'.part},
           work'.rows = RowsOf(i, KnownBut(i, work'.users \cup {u})
                                  \cup (FirstRows(KnownBy(i, u), work'.offset) \ H)),
           work'.lines = Cardinality(KnownBut(i, work'.users \cup {u})
                                     \cup (FirstRows(KnownBy(i, u), work'.offset) \ H))
    PROVE  InUser'
<1>1. KnownBy(work.id, work.user)' = KnownBy(i, u)
  BY SameTables
<1>2. KnownBut(work.id, work.users \cup {work.user})' = KnownBut(i, work'.users \cup {u})
  BY SameTables
<1>3. class' = class
  OBVIOUS
<1>4. \A W : RowsOf(i, W)' = RowsOf(i, W)
  BY SameTables
<1> QED BY <1>1, <1>2, <1>3, <1>4 DEF InUser, Wrote

LEMMA NextUserStep ==
    ASSUME TrainingInv, NextUser PROVE TrainingInv'
<1>1. Reads /\ work.at = "user" /\ work.at \in Gathering /\ work.users # {}
  BY DEF NextUser, Gathering
<1>2. UNCHANGED <<agent, learning, selected, class, missed>>
  BY <1>1 DEF Reads, Analyzer, tables
<1>3. PICK u \in work.users : u = CHOOSE x \in work.users : TRUE
  BY <1>1
<1>4. work' = [work EXCEPT !.at = "part", !.users = @ \ {u}, !.user = u, !.offset = 0,
                           !.toRead = Cardinality(KnownBy(work.id, u))]
  BY <1>3 DEF NextUser, KnownOf, KnownBy
<1>5. GatheringShape /\ work.id \in Ids
  BY <1>1, GatheringOK
<1>6. /\ work'.at = "part" /\ work'.left = work.left /\ work'.id = work.id
      /\ work'.users = work.users \ {u} /\ work'.outputs = work.outputs
      /\ work'.size = work.size /\ work'.selected = work.selected /\ work'.user = u
      /\ work'.toRead = Cardinality(KnownBy(work.id, u)) /\ work'.offset = 0
      /\ work'.part = work.part /\ work'.lines = work.lines /\ work'.rows = work.rows
      /\ GatheringShape'
  BY <1>4, <1>5 DEF GatheringShape

<1>7. work.part = {} /\ IsFiniteSet(work.part) /\ Cardinality(work.part) <= MaxRows
  BY <1>1, GatheringOK
<1>8. PICK i \in Ids : i = work.id
  BY <1>5
<1> DEFINE K == KnownBy(i, u)
<1>9. IsFiniteSet(K) /\ K \in SUBSET Nat /\ Cardinality(K) \in Nat
  <2>1. K \in SUBSET Statistics
    BY <1>8, KnownAreStatistics DEF TrainingInv
  <2> QED BY <2>1, StatisticsAreFinite, FS_CardinalityType
<1>10. missed[i] = {} => Gathered' /\ InUser'
  <2> SUFFICES ASSUME missed[i] = {} PROVE Gathered' /\ InUser'
    OBVIOUS
  <2>1. Gathered /\ Wrote(KnownBut(i, work.users))
    BY <1>1, <1>8, GatheringOK
  <2>2. Gathered'
    BY <1>2, <1>6, <2>1, GatheredStays
  <2>3. KnownBut(i, work'.users \cup {u}) \cup (FirstRows(K, 0) \ {}) = KnownBut(i, work.users)
    BY <1>3, <1>6, <1>9, NoRows DEF KnownBut
  <2>4. /\ work'.rows = RowsOf(i, KnownBut(i, work'.users \cup {u}) \cup (FirstRows(K, 0) \ {}))
        /\ work'.lines = Cardinality(KnownBut(i, work'.users \cup {u}) \cup (FirstRows(K, 0) \ {}))
    BY <1>6, <1>8, <2>1, <2>3 DEF Wrote
  <2>5. {r.statistic : r \in work'.part} = {} /\ u \notin work'.users
    BY <1>6, <1>7
  <2>6. work'.offset + work'.toRead = Cardinality(K)
    BY <1>6, <1>8, <1>9
  <2> HIDE DEF K
  <2>7. InUser'
    BY <1>2, <1>6, <1>7, <1>8, <2>4, <2>5, <2>6, InUserNext DEF K
  <2> QED BY <2>2, <2>7
<1> QED BY <1>1, <1>5, <1>6, <1>7, <1>8, <1>9, <1>10, GatheringFrame DEF Gathering

\* A part has as many entries as the rows it was read from.
LEMMA EntriesAreFew ==
    ASSUME NEW R, IsFiniteSet(R), NEW n \in Nat, Cardinality(R) <= n
    PROVE  LET entries == {[statistic |-> s, class |-> class[s]] : s \in R}
           IN IsFiniteSet(entries) /\ Cardinality(entries) <= n
<1> DEFINE E == {[statistic |-> s, class |-> class[s]] : s \in R}
           f == [s \in R |-> [statistic |-> s, class |-> class[s]]]
<1>1. f \in [R -> E]
  OBVIOUS
<1>2. \A e \in E : \E s \in R : f[s] = e
  OBVIOUS
<1> HIDE DEF f, E
<1>3. f \in Surjection(R, E)
  BY <1>1, <1>2 DEF Surjection
<1>4. IsFiniteSet(E) /\ Cardinality(E) <= Cardinality(R)
  BY <1>3, FS_Surjection
<1>5. Cardinality(E) \in Nat /\ Cardinality(R) \in Nat
  BY <1>4, FS_CardinalityType
<1>6. IsFiniteSet(E) /\ Cardinality(E) <= n
  BY <1>4, <1>5
<1> QED BY <1>6 DEF E

LEMMA ReadPartStep ==
    ASSUME TrainingInv, ReadPart PROVE TrainingInv'
<1>1. Reads /\ work.at = "part" /\ work.at \in Gathering /\ work.part = {}
  BY DEF ReadPart, Gathering
<1>2. UNCHANGED <<agent, learning, selected, class, missed>>
  BY <1>1 DEF Reads, Analyzer, tables
<1>3. GatheringShape /\ work.id \in Ids /\ work.toRead \in Nat /\ work.offset \in Nat
  BY <1>1, GatheringOK
<1>a. PICK i \in Ids : i = work.id
  BY <1>3
<1>b. PICK u : u = work.user
  OBVIOUS
<1>c. PICK m \in Nat : m = work.offset
  BY <1>3
<1>d. PICK left \in Nat : left = work.toRead
  BY <1>3
<1>4. i = work.id /\ u = work.user /\ m = work.offset /\ left = work.toRead
  BY <1>a, <1>b, <1>c, <1>d
<1>5. PICK n \in Nat : n = Limit(left) /\ n <= left /\ n <= MaxRows
  BY LimitBounds
<1> DEFINE K == KnownBy(i, u)
           R == RowsAt(K, m, n)
           E == {[statistic |-> s, class |-> class[s]] : s \in R}
<1>6. work' = [work EXCEPT !.toRead = @ - n, !.offset = @ + n, !.part = E]
  BY <1>4, <1>5 DEF ReadPart, KnownOf, KnownBy
<1>7. IsFiniteSet(K) /\ K \in SUBSET Nat /\ Cardinality(K) \in Nat
  <2>1. K \in SUBSET Statistics
    BY KnownAreStatistics DEF TrainingInv
  <2> QED BY <2>1, StatisticsAreFinite, FS_CardinalityType
<1> HIDE DEF K
<1>8. IsFiniteSet(R) /\ Cardinality(R) <= n
  BY <1>7, PartsAreSmall
<1>9. FirstRows(K, m + n) \ R = FirstRows(K, m) /\ R \subseteq FirstRows(K, m + n)
  BY <1>7, FirstRowsGrow DEF RowsAt
<1> HIDE DEF R, E
<1>10. /\ work'.at = "part" /\ work'.left = work.left /\ work'.id = i
       /\ work'.users = work.users /\ work'.outputs = work.outputs
       /\ work'.size = work.size /\ work'.selected = work.selected /\ work'.user = u
       /\ work'.toRead = left - n /\ work'.offset = m + n
       /\ work'.part = E
       /\ work'.lines = work.lines /\ work'.rows = work.rows
       /\ GatheringShape'
  BY <1>1, <1>3, <1>4, <1>6 DEF GatheringShape
<1>11. work'.toRead \in Nat /\ work'.offset \in Nat
  BY <1>5, <1>10
<1>12. IsFiniteSet(work'.part) /\ Cardinality(work'.part) <= MaxRows
  <2>1. n <= MaxRows /\ MaxRows \in Nat
    BY <1>5, TrainingAssumption
  <2>2. IsFiniteSet(work'.part) /\ Cardinality(work'.part) <= n
    BY <1>8, <1>10, EntriesAreFew DEF E
  <2>3. Cardinality(work'.part) \in Nat
    BY <2>2, FS_CardinalityType
  <2> QED BY <2>1, <2>2, <2>3
<1>13. missed[i] = {} => Gathered' /\ InUser'
  <2> SUFFICES ASSUME missed[i] = {} PROVE Gathered' /\ InUser'
    OBVIOUS
  <2>1. Gathered /\ InUser
    BY <1>1, <1>4, GatheringOK
  <2>2. Gathered'
    BY <1>2, <1>4, <1>10, <2>1, GatheredStays
  <2>3. /\ u \notin work.users /\ m + left = Cardinality(K)
        /\ work.rows = RowsOf(i, KnownBut(i, work.users \cup {u}) \cup FirstRows(K, m))
        /\ work.lines = Cardinality(KnownBut(i, work.users \cup {u}) \cup FirstRows(K, m))
    <3>1. {r.statistic : r \in work.part} = {}
      BY <1>1
    <3>2. \A S : S \ {} = S
      OBVIOUS
    <3> QED BY <1>4, <2>1, <3>1, <3>2 DEF InUser, Wrote, K
  <2>4. R = {r.statistic : r \in work'.part}
    <3>1. \A s \in R : \E r \in E : r.statistic = s
      <4>1. \A s \in R : [statistic |-> s, class |-> class[s]] \in E
        BY DEF E
      <4>2. \A s : [statistic |-> s, class |-> class[s]].statistic = s
        OBVIOUS
      <4> QED BY <4>1, <4>2
    <3>2. \A r \in E : r.statistic \in R
      BY DEF E
    <3> QED BY <1>10, <3>1, <3>2
  <2>5. \A r \in work'.part :
           /\ r.statistic \in FirstRows(K, work'.offset)
           /\ r = [statistic |-> r.statistic, class |-> class[r.statistic]]
    BY <1>9, <1>10 DEF E
  <2>6. work'.offset + work'.toRead = Cardinality(K)
    BY <1>5, <1>7, <1>10, <2>3
  <2>7. /\ work'.rows = RowsOf(i, KnownBut(i, work'.users \cup {u})
                                  \cup (FirstRows(K, work'.offset) \ R))
        /\ work'.lines = Cardinality(KnownBut(i, work'.users \cup {u})
                                     \cup (FirstRows(K, work'.offset) \ R))
    BY <1>9, <1>10, <2>3
  <2>8. InUser'
    <3>1. UNCHANGED <<agent, learning, selected, class>>
      BY <1>2
    <3>2. work'.id = i /\ work'.user = u /\ u \notin work'.users
      BY <1>10, <2>3
    <3> QED BY <2>4, <2>5, <2>6, <2>7, <3>1, <3>2, InUserNext DEF K
  <2> QED BY <2>2, <2>8
<1> QED BY <1>1, <1>4, <1>10, <1>11, <1>12, <1>13, GatheringFrame DEF Gathering

LEMMA WriteRowStep ==
    ASSUME TrainingInv, WriteRow PROVE TrainingInv'
<1>1. Reads /\ work.at = "part" /\ work.at \in Gathering /\ work.part # {}
  BY DEF WriteRow, Gathering
<1>2. UNCHANGED <<agent, learning, selected, class, missed>>
  BY <1>1 DEF Reads, Analyzer, tables
<1>3. /\ GatheringShape /\ work.id \in Ids /\ work.toRead \in Nat /\ work.offset \in Nat
      /\ IsFiniteSet(work.part) /\ Cardinality(work.part) <= MaxRows
  BY <1>1, GatheringOK
<1>a. PICK i \in Ids : i = work.id
  BY <1>3
<1>b. PICK u : u = work.user
  OBVIOUS
<1>c. PICK m \in Nat : m = work.offset
  BY <1>3
<1>4. PICK r \in work.part : r = CHOOSE x \in work.part : TRUE
  BY <1>1
<1> DEFINE K == KnownBy(i, u)
           F == FirstRows(K, m)
           Held == {x.statistic : x \in work.part}
           W == KnownBut(i, work.users \cup {u}) \cup (F \ Held)
           s == r.statistic
           row == [statistic |-> r.statistic, class |-> r.class,
                   inputs |-> Inputs(work.selected, r.statistic)]
<1>5. work' = [work EXCEPT !.part = @ \ {r}, !.rows = @ \cup {row}, !.lines = @ + 1]
  BY <1>4 DEF WriteRow
<1> HIDE DEF row
<1>6. /\ work'.at = "part" /\ work'.left = work.left /\ work'.id = i
      /\ work'.users = work.users /\ work'.outputs = work.outputs
      /\ work'.size = work.size /\ work'.selected = work.selected /\ work'.user = u
      /\ work'.toRead = work.toRead /\ work'.offset = m
      /\ work'.part = work.part \ {r}
      /\ work'.lines = work.lines + 1 /\ work'.rows = work.rows \cup {row}
      /\ GatheringShape'
  BY <1>1, <1>3, <1>a, <1>b, <1>c, <1>5 DEF GatheringShape
<1>7. IsFiniteSet(work'.part) /\ Cardinality(work'.part) <= MaxRows
  <2>1. work'.part \in SUBSET work.part
    BY <1>6
  <2>2. IsFiniteSet(work'.part) /\ Cardinality(work'.part) <= Cardinality(work.part)
    BY <1>3, <2>1, FS_Subset
  <2>3. Cardinality(work'.part) \in Nat /\ Cardinality(work.part) \in Nat /\ MaxRows \in Nat
    BY <1>3, <2>2, FS_CardinalityType, TrainingAssumption
  <2> QED BY <1>3, <2>2, <2>3
<1>8. missed[i] = {} => Gathered' /\ InUser'
  <2> SUFFICES ASSUME missed[i] = {} PROVE Gathered' /\ InUser'
    OBVIOUS
  <2>1. Gathered /\ InUser
    BY <1>1, <1>a, GatheringOK
  <2>2. Gathered'
    BY <1>2, <1>a, <1>6, <2>1, GatheredStays
  <2>3. /\ u \notin work.users /\ m + work.toRead = Cardinality(K)
        /\ work.rows = RowsOf(i, W) /\ work.lines = Cardinality(W)
        /\ \A x \in work.part :
              /\ x.statistic \in F
              /\ x = [statistic |-> x.statistic, class |-> class[x.statistic]]
    BY <1>a, <1>b, <1>c, <2>1 DEF InUser, Wrote
  <2>4. F \in SUBSET K /\ K \in SUBSET Known(i) /\ \A x \in K : UserOf[x] = u
    BY KnownAreStatistics DEF TrainingInv, FirstRows, KnownBy
  <2>5. s \in F /\ s \in Held /\ r = [statistic |-> s, class |-> class[s]]
    BY <2>3
  <2>6. {x.statistic : x \in work'.part} = Held \ {s}
    <3>1. \A x \in work.part : x.statistic = s => x = r
      BY <2>3, <2>5
    <3> HIDE DEF s
    <3>2. \A x \in work.part \ {r} : x.statistic \in Held \ {s}
      BY <3>1
    <3>3. \A y \in Held \ {s} : \E x \in work.part \ {r} : x.statistic = y
      BY DEF s
    <3> HIDE DEF Held
    <3> QED BY <1>6, <3>2, <3>3
  <2> HIDE DEF Held, F, K, s
  <2>7. row = Row(i, s)
    <3>1. row = [statistic |-> s, class |-> r.class, inputs |-> Inputs(work.selected, s)]
      BY DEF row, s
    <3>2. r.class = class[s] /\ work.selected = selected[i]
      BY <1>a, <2>1, <2>5 DEF Gathered
    <3> QED BY <3>1, <3>2 DEF Row
  <2> DEFINE V == KnownBut(i, work.users \cup {u}) \cup (F \ (Held \ {s}))
  <2>8. V = W \cup {s} /\ s \notin W
    <3>1. s \notin KnownBut(i, work.users \cup {u})
      BY <2>4, <2>5 DEF KnownBut
    <3> QED BY <2>5, <3>1
  <2>9. IsFiniteSet(W) /\ Cardinality(W) \in Nat
    <3>1. W \in SUBSET Statistics
      BY <2>4, KnownAreStatistics DEF TrainingInv
    <3> HIDE DEF W
    <3> QED BY <3>1, StatisticsAreFinite, FS_CardinalityType
  <2>10. Cardinality(V) = Cardinality(W) + 1
    <3> HIDE DEF V, W
    <3> QED BY <2>8, <2>9, FS_AddElement
  <2>11. RowsOf(i, V) = RowsOf(i, W) \cup {Row(i, s)}
    <3> HIDE DEF V, W
    <3> QED BY <2>8 DEF RowsOf
  <2>12. work'.rows = RowsOf(i, V) /\ work'.lines = Cardinality(V)
    <3> HIDE DEF V, W
    <3> QED BY <1>6, <2>3, <2>7, <2>10, <2>11
  <2>13. \A x \in work'.part :
            /\ x.statistic \in FirstRows(K, work'.offset)
            /\ x = [statistic |-> x.statistic, class |-> class[x.statistic]]
    BY <1>6, <2>3 DEF F
  <2>14. /\ work'.rows = RowsOf(i, KnownBut(i, work'.users \cup {u})
                                   \cup (FirstRows(K, work'.offset) \ (Held \ {s})))
         /\ work'.lines = Cardinality(KnownBut(i, work'.users \cup {u})
                                      \cup (FirstRows(K, work'.offset) \ (Held \ {s})))
    BY <1>6, <2>12 DEF F
  <2>15. work'.offset + work'.toRead = Cardinality(K) /\ u \notin work'.users
    BY <1>6, <2>3
  <2> HIDE DEF V, W
  <2>16. InUser'
    BY <1>2, <1>6, <2>6, <2>13, <2>14, <2>15, InUserNext DEF K
  <2> QED BY <2>2, <2>16
<1> QED BY <1>1, <1>3, <1>a, <1>c, <1>6, <1>7, <1>8, GatheringFrame DEF Gathering

LEMMA UserDoneStep ==
    ASSUME TrainingInv, UserDone PROVE TrainingInv'
<1>1. Reads /\ work.at = "part" /\ work.at \in Gathering /\ work.part = {} /\ work.toRead = 0
  BY DEF UserDone, Gathering
<1>2. UNCHANGED <<agent, learning, selected, class, missed>>
  BY <1>1 DEF Reads, Analyzer, tables
<1>3. /\ GatheringShape /\ work.id \in Ids /\ work.toRead \in Nat /\ work.offset \in Nat
      /\ IsFiniteSet(work.part) /\ Cardinality(work.part) <= MaxRows
  BY <1>1, GatheringOK
<1>4. PICK i \in Ids : i = work.id
  BY <1>3
<1>5. work' = [work EXCEPT !.at = "user"]
  BY DEF UserDone
<1>6. /\ work'.at = "user" /\ work'.left = work.left /\ work'.id = i
      /\ work'.users = work.users /\ work'.outputs = work.outputs
      /\ work'.size = work.size /\ work'.selected = work.selected
      /\ work'.toRead = work.toRead /\ work'.offset = work.offset
      /\ work'.part = work.part /\ work'.lines = work.lines /\ work'.rows = work.rows
      /\ GatheringShape'
  BY <1>3, <1>4, <1>5 DEF GatheringShape
<1> DEFINE u == work.user
           K == KnownBy(i, u)
<1>7. missed[i] = {} => Gathered' /\ Wrote(KnownBut(work.id, work.users))'
  <2> SUFFICES ASSUME missed[i] = {} PROVE Gathered' /\ Wrote(KnownBut(work.id, work.users))'
    OBVIOUS
  <2>1. Gathered /\ InUser
    BY <1>1, <1>4, GatheringOK
  <2>2. Gathered'
    BY <1>2, <1>4, <1>6, <2>1, GatheredStays
  <2>3. IsFiniteSet(K) /\ K \in SUBSET Nat /\ K \in SUBSET Known(i)
    <3>1. K \in SUBSET Statistics /\ K \in SUBSET Known(i)
      BY KnownAreStatistics DEF TrainingInv
    <3> QED BY <3>1, StatisticsAreFinite
  <2>4. FirstRows(K, work.offset) = K
    <3>1. work.offset + work.toRead = Cardinality(K)
      BY <1>4, <2>1 DEF InUser
    <3>2. work.offset = Cardinality(K)
      BY <1>1, <1>3, <3>1
    <3> QED BY <2>3, <3>2, AllRows
  <2>5. KnownBut(i, work.users) = KnownBut(i, work.users \cup {u}) \cup (K \ {})
    <3>1. u \notin work.users
      BY <2>1 DEF InUser
    <3> QED BY <3>1 DEF KnownBut, KnownBy
  <2>6. {r.statistic : r \in work.part} = {}
    BY <1>1
  <2>7. /\ work.rows = RowsOf(i, KnownBut(i, work.users \cup {u}) \cup (K \ {}))
        /\ work.lines = Cardinality(KnownBut(i, work.users \cup {u}) \cup (K \ {}))
    BY <1>4, <2>1, <2>4, <2>6 DEF InUser, Wrote
  <2>8. /\ work'.rows = RowsOf(i, KnownBut(i, work'.users))
        /\ work'.lines = Cardinality(KnownBut(i, work'.users))
    BY <1>6, <2>5, <2>7
  <2>9. Wrote(KnownBut(work.id, work.users))'
    BY <1>2, <1>6, <2>8, WroteNext
  <2> QED BY <2>2, <2>9
<1> QED BY <1>1, <1>3, <1>4, <1>6, <1>7, GatheringFrame DEF Gathering

\* A step that writes the file of the configuration it trains.
LEMMA FileFrame ==
    ASSUME TrainingInv, UNCHANGED <<tables, web, missed>>, work.at \in Learning,
           NEW i \in Ids, work.id = i, NEW net, net.outputs \in 0..Cardinality(Statistics),
           network' = [network EXCEPT ![i] = net],
           work'.id = i, work'.left = work.left, work'.at \in {"save", "mark"},
           work'.at = "save" => work'.made.outputs \in 0..Cardinality(Statistics),
           work'.at = "mark" => Sound(i)',
           Progress', Made'
    PROVE  TrainingInv'
<1>1. UNCHANGED <<agent, changed, learning, selected, class>>
  BY DEF tables
<1>2. DOMAIN network = Ids /\ work.left \subseteq Ids
  BY DEF TrainingInv, WorkOK, Learning, Gathering
<1>3. /\ DOMAIN network' = Ids /\ network'[i] = net
      /\ \A j \in Ids : j # i => network'[j] = network[j]
  BY <1>2
<1>4. Existing' = Existing /\ Existing \subseteq Ids
  BY <1>1, SameTables DEF Existing
<1>5. \A j \in Ids : j # i => (Sound(j)' <=> Sound(j))
  BY <1>1, <1>3, SameSound
<1>6. /\ work.at \in Training /\ work'.at \in Training /\ work.at # "train" /\ work'.at # "train"
      /\ work'.at # "classify" /\ work'.at \notin Answering /\ work'.at \notin Gathering
      /\ work'.at # "idle" /\ work'.at \in Phases
  BY DEF Training, Learning, Gathering, Answering, Phases
<1>7. i \in Existing => changed[i]
  BY DEF TrainingInv, StillChanged
<1>8. TypeOK'
  <2>1. \A j \in Ids : network'[j].outputs \in 0..Cardinality(Statistics)
    BY <1>3 DEF TrainingInv, TypeOK
  <2>2. work'.at \notin {"part", "rows"}
    OBVIOUS
  <2> QED BY <1>1, <1>4, <2>1, <2>2 DEF TrainingInv, TypeOK
<1>9. WebOK' /\ WebMarks' /\ Unmarked' /\ WorkOK'
  <2>1. WebOK' /\ WebMarks' /\ Unmarked'
    BY <1>1, <1>4 DEF TrainingInv, WebOK, WebMarks, Unmarked
  <2>2. work'.at # "part" /\ work'.at # "rows"
    OBVIOUS
  <2>3. WorkOK'
    BY <1>2, <1>6, <2>2 DEF WorkOK
  <2> QED BY <2>1, <2>3
<1>10. StillChanged'
  BY <1>1, <1>4, <1>6, <1>7 DEF TrainingInv, StillChanged
<1>11. Trained' /\ TakenWhole'
  <2>1. TakenWhole'
    BY <1>6 DEF TakenWhole
  <2>2. Trained'
    BY DEF Trained, Sound, UpToDate, HasUsers, Harmless
  <2> QED BY <2>1, <2>2
<1>12. UnchangedUpToDate'
  BY <1>1, <1>4, <1>5, <1>7 DEF TrainingInv, UnchangedUpToDate
<1> QED BY <1>3, <1>8, <1>9, <1>10, <1>11, <1>12 DEF TrainingInv

LEMMA CreateNetworkStep ==
    ASSUME TrainingInv, CreateNetwork PROVE TrainingInv'
<1>1. /\ work.at = "user" /\ work.users = {} /\ UNCHANGED <<tables, web, missed>>
      /\ work.at \in Gathering /\ work.at \in Learning
  BY DEF CreateNetwork, Analyzer, Gathering, Learning
<1>2. UNCHANGED <<agent, learning, selected, class, missed>>
  BY <1>1 DEF tables
<1>3. PICK i \in Ids : i = work.id
  BY <1>1, GatheringOK
<1> DEFINE n == Cardinality(UsersOf(i))
           good == work.lines >= work.size /\ work.outputs = n
           made == [usable |-> TRUE, trained |-> good, outputs |-> n,
                    rows |-> IF good THEN work.rows ELSE {}]
<1>4. work' = [at |-> "save", left |-> work.left, id |-> i, made |-> made]
  BY <1>3 DEF CreateNetwork
<1>5. network' = [network EXCEPT ![i] = NoNetwork]
  BY <1>3 DEF CreateNetwork
<1>6. n \in 0..Cardinality(Statistics) /\ NoNetwork.outputs \in 0..Cardinality(Statistics)
  <2>1. Cardinality(Statistics) \in Nat
    BY TrainingAssumption, FS_CardinalityType
  <2> QED BY <2>1, UsersBound DEF TrainingInv, NoNetwork
<1>7. made.usable /\ made.trained = good /\ made.outputs = n
      /\ made.rows = (IF good THEN work.rows ELSE {})
  OBVIOUS
<1> HIDE DEF made
<1>8. work'.at = "save" /\ work'.left = work.left /\ work'.id = i /\ work'.made = made
  BY <1>4
<1>9. missed[i] = {} => good /\ work.rows = RowsOf(i, Known(i))
  <2> SUFFICES ASSUME missed[i] = {} PROVE good /\ work.rows = RowsOf(i, Known(i))
    OBVIOUS
  <2>1. Gathered /\ Wrote(KnownBut(i, work.users))
    BY <1>1, <1>3, GatheringOK
  <2>2. KnownBut(i, work.users) = Known(i)
    BY <1>1 DEF KnownBut, Known
  <2>3. Cardinality(Known(i)) \in Nat
    <3>1. Known(i) \in SUBSET Statistics
      BY KnownAreStatistics DEF TrainingInv
    <3> QED BY <3>1, StatisticsAreFinite
  <2>4. /\ work.rows = RowsOf(i, Known(i)) /\ work.lines = Cardinality(Known(i))
        /\ work.size = Cardinality(Known(i)) /\ work.outputs = n
    BY <1>3, <2>1, <2>2 DEF Gathered, Wrote
  <2> QED BY <2>3, <2>4
<1> HIDE DEF good
<1>10. Progress'
  <2>1. UsersOf(work.id)' = UsersOf(i)
    BY <1>2, <1>8, SameTables
  <2>2. RowsOf(work.id, Known(work.id))' = RowsOf(i, Known(i))
    BY <1>2, <1>8, SameTables
  <2> QED BY <1>2, <1>7, <1>8, <1>9, <2>1, <2>2 DEF Progress, Gathering
<1>11. work'.made.outputs \in 0..Cardinality(Statistics)
  BY <1>6, <1>7, <1>8
<1>12. Made'
  BY <1>2, <1>7, <1>8, SameTables DEF Made
<1> QED BY <1>1, <1>3, <1>5, <1>6, <1>8, <1>10, <1>11, <1>12, FileFrame

LEMMA SaveStep ==
    ASSUME TrainingInv, Save PROVE TrainingInv'
<1>1. /\ work.at = "save" /\ UNCHANGED <<tables, web, missed>> /\ work.at \in Learning
  BY DEF Save, Analyzer, Learning
<1>2. UNCHANGED <<agent, learning, selected, class, missed>>
  BY <1>1 DEF tables
<1>3. PICK i \in Ids : i = work.id
  BY <1>1 DEF TrainingInv, WorkOK
<1>4. PICK net : net = work.made
  OBVIOUS
<1>5. network' = [network EXCEPT ![i] = net]
  BY <1>3, <1>4 DEF Save
<1>6. work'.at = "mark" /\ work'.left = work.left /\ work'.id = i
  BY <1>3 DEF Save
<1>7. net.outputs \in 0..Cardinality(Statistics)
  BY <1>1, <1>4 DEF TrainingInv, WorkOK
<1>8. Sound(i)'
  <2>1. network'[i] = net
    BY <1>5 DEF TrainingInv
  <2>2. missed[i] = {} => /\ net.usable /\ net.trained /\ net.outputs = Cardinality(UsersOf(i))
                          /\ net.rows = RowsOf(i, Known(i))
    BY <1>1, <1>3, <1>4 DEF TrainingInv, Progress
  <2>3. Harmless(i) => net.usable /\ net.outputs = Cardinality(UsersOf(i))
    BY <1>1, <1>3, <1>4 DEF TrainingInv, Made
  <2>4. missed[i] = {} => UpToDate(i)'
    BY <1>2, <2>1, <2>2, SameTables DEF UpToDate
  <2>5. Harmless(i) => HasUsers(i)'
    BY <1>2, <2>1, <2>3, SameTables DEF HasUsers
  <2> QED BY <1>2, <2>4, <2>5 DEF Sound, Harmless
<1>9. Progress' /\ Made'
  BY <1>6 DEF Progress, Made, Learning, Gathering
<1> QED BY <1>1, <1>3, <1>5, <1>6, <1>7, <1>8, <1>9, FileFrame

LEMMA MarkConfigurationAsUnchangedStep ==
    ASSUME TrainingInv, MarkConfigurationAsUnchanged PROVE TrainingInv'
<1>1. /\ work.at = "mark" /\ UNCHANGED <<agent, learning, selected, class, network, web, missed>>
  BY DEF MarkConfigurationAsUnchanged
<1>2. PICK i \in Ids : i = work.id
  BY <1>1 DEF TrainingInv, WorkOK
<1>3. changed' = [changed EXCEPT ![i] = FALSE]
  BY <1>2 DEF MarkConfigurationAsUnchanged
<1>4. work'.at = "train" /\ work'.left = work.left
  BY DEF MarkConfigurationAsUnchanged
<1>5. Existing' = Existing /\ Existing \subseteq Ids /\ \A j : Sound(j)' <=> Sound(j)
  BY <1>1, SameTables, SameSound DEF Existing
<1>6. /\ changed' \in [Ids -> BOOLEAN] /\ ~ changed'[i]
      /\ \A j \in Ids : j # i => changed'[j] = changed[j]
  BY <1>3 DEF TrainingInv, TypeOK
<1>7. TypeOK'
  <2>1. \A j \in Ids : changed'[j] => j \in Existing'
    BY <1>5, <1>6 DEF TrainingInv, TypeOK
  <2> QED BY <1>1, <1>4, <1>5, <1>6, <2>1 DEF TrainingInv, TypeOK
<1>8. WebOK' /\ WebMarks' /\ Unmarked' /\ (DOMAIN network = Ids)'
  BY <1>1, <1>5 DEF TrainingInv, WebOK, WebMarks, Unmarked
<1>9. WorkOK'
  BY <1>1, <1>4 DEF TrainingInv, WorkOK, Phases, Training, Learning, Gathering, Answering
<1>10. StillChanged' /\ Progress' /\ TakenWhole'
  BY <1>1, <1>2, <1>4, <1>5, <1>6 DEF TrainingInv, StillChanged, Progress, TakenWhole, Training,
     Learning, Gathering, Answering
<1>11. Sound(i)
  BY <1>1, <1>2 DEF TrainingInv, Trained
<1>12. Trained' /\ Made'
  BY <1>4 DEF Trained, Made
<1>13. UnchangedUpToDate'
  BY <1>1, <1>5, <1>6, <1>11 DEF TrainingInv, UnchangedUpToDate
<1> QED BY <1>7, <1>8, <1>9, <1>10, <1>12, <1>13 DEF TrainingInv

-----------------------------------------------------------------------------
(* The classification.                                                     *)

\* Nothing of the training is left when the classifier works.
LEMMA AnsweringFrame ==
    ASSUME TrainingInv, Reads, work'.at \in {"idle", "classify"} \cup Answering,
           WorkOK', TakenWhole'
    PROVE  TrainingInv'
<1>1. UNCHANGED <<tables, network, web, missed>>
  BY DEF Reads, Analyzer
<1>2. UNCHANGED <<agent, changed, learning, selected, class>>
  BY <1>1 DEF tables
<1>3. work'.at \notin Training /\ work'.at \notin Learning /\ work'.at # "mark" /\ work'.at # "save"
  BY DEF Training, Learning, Gathering, Answering
<1>4. StillChanged' /\ Progress' /\ Trained' /\ Made'
  BY <1>3 DEF StillChanged, Progress, Trained, Made
<1> QED BY <1>1, <1>4, ReadsFrame

LEMMA ClassifyStep ==
    ASSUME TrainingInv, Classify PROVE TrainingInv'
<1>1. work.at = "train" /\ work.left = {} /\ Reads
  BY DEF Classify
<1>2. work'.at = "classify" /\ work'.left = Existing
  BY DEF Classify
<1>3. WorkOK' /\ TakenWhole'
  BY <1>2 DEF WorkOK, TakenWhole, Phases, Training, Learning, Gathering, Answering, Existing
<1> QED BY <1>1, <1>2, <1>3, AnsweringFrame

LEMMA CreateFromFileStep ==
    ASSUME TrainingInv, CreateFromFile PROVE TrainingInv'
<1>1. work.at = "classify" /\ work.left # {} /\ Reads /\ work.left \subseteq Ids
  BY DEF CreateFromFile, TrainingInv, WorkOK
<1>2. PICK i \in work.left : i = Lowest(work.left)
  BY <1>1, IdsAreNumbers, LowestIsIn
<1> DEFINE clean == i \in Existing /\ ~ changed[i] /\ missed[i] \subseteq {"another", "classified"}
<1>3. work' = [at |-> "count", left |-> work.left \ {i}, agents |-> work.agents, id |-> i,
               network |-> network[i], users |-> Cardinality(UsersOf(i)),
               clean |-> clean]
  BY <1>2 DEF CreateFromFile
<1> HIDE DEF clean
<1>4. /\ work'.at = "count" /\ work'.left = work.left \ {i} /\ work'.id = i
      /\ work'.network = network[i] /\ work'.users = Cardinality(UsersOf(i))
      /\ work'.clean = clean
  BY <1>3
<1>5. WorkOK'
  BY <1>1, <1>2, <1>4 DEF WorkOK, Phases, Training, Learning, Gathering, Answering
<1>6. TakenWhole'
  <2>1. i \in Ids
    BY <1>1, <1>2
  <2>2. Cardinality(UsersOf(i)) \in Nat
    BY <2>1, UsersBound DEF TrainingInv
  <2>3. clean => HasUsers(i)
    BY DEF clean, TrainingInv, UnchangedUpToDate, Sound, Harmless
  <2>4. HasUsers(i) => work'.network.usable /\ work'.users <= work'.network.outputs
    BY <1>4, <2>2 DEF HasUsers
  <2>5. work'.clean => clean
    BY <1>4, Zenon
  <2> QED BY <2>3, <2>4, <2>5 DEF TakenWhole
<1> QED BY <1>1, <1>4, <1>5, <1>6, AnsweringFrame DEF Answering

LEMMA CountUnknownStep ==
    ASSUME TrainingInv, CountUnknown PROVE TrainingInv'
<1>1. work.at = "count" /\ Reads /\ work.at \in Answering
  BY DEF CountUnknown, Answering
<1>2. work' = [at |-> "rows", left |-> work.left, agents |-> work.agents, network |-> work.network,
               users |-> work.users, clean |-> work.clean, id |-> work.id, part |-> {},
               toRead |-> Cardinality(Unknown(work.agents[work.id]))]
  BY DEF CountUnknown
<1>3. Cardinality(Unknown(work.agents[work.id])) \in Nat
  <2>1. Unknown(work.agents[work.id]) \in SUBSET Statistics
    BY DEF Unknown
  <2> QED BY <2>1, StatisticsAreFinite
<1>4. /\ work'.at = "rows" /\ work'.left = work.left /\ work'.id = work.id
      /\ work'.agents = work.agents /\ work'.network = work.network /\ work'.users = work.users
      /\ work'.clean = work.clean /\ work'.part = {} /\ work'.toRead \in Nat
  BY <1>2, <1>3
<1>5. work' = [at |-> work'.at, left |-> work'.left, agents |-> work'.agents,
               network |-> work'.network, users |-> work'.users, clean |-> work'.clean,
               id |-> work'.id, part |-> work'.part, toRead |-> work'.toRead]
  BY <1>2, <1>4
<1>6. work.left \subseteq Ids /\ work.id \in Ids
  BY <1>1 DEF TrainingInv, WorkOK
<1>7. WorkOK'
  <2>1. Cardinality({}) <= MaxRows
    BY FS_EmptySet, TrainingAssumption
  <2> QED BY <1>4, <1>5, <1>6, <2>1 DEF WorkOK, Phases, Training, Learning, Gathering, Answering
<1>8. TakenWhole'
  BY <1>1, <1>4 DEF TrainingInv, TakenWhole
<1> QED BY <1>1, <1>4, <1>7, <1>8, AnsweringFrame DEF Answering

\* The fields of what the classifier holds while it answers.
LEMMA RowsOK ==
    ASSUME TrainingInv, work.at = "rows"
    PROVE  /\ work = [at |-> work.at, left |-> work.left, agents |-> work.agents,
                      network |-> work.network, users |-> work.users, clean |-> work.clean,
                      id |-> work.id, part |-> work.part, toRead |-> work.toRead]
           /\ work.toRead \in Nat /\ work.id \in Ids /\ work.left \subseteq Ids
           /\ work.part \in SUBSET Statistics /\ Cardinality(work.part) <= MaxRows
           /\ work.at \in Answering
<1>1. work.at \in Answering /\ work.at # "idle"
  BY DEF Answering
<1> QED BY <1>1 DEF TrainingInv, WorkOK

LEMMA RowsFrame ==
    ASSUME NEW left, NEW part, work.at = "rows", TrainingInv,
           work' = [work EXCEPT !.toRead = left, !.part = part],
           left \in Nat, part \in SUBSET Statistics, Cardinality(part) <= MaxRows
    PROVE  /\ work'.at = "rows" /\ work'.left = work.left /\ work'.id = work.id
           /\ work'.part = part /\ work'.toRead = left
           /\ WorkOK' /\ TakenWhole'
<1>1. /\ work = [at |-> work.at, left |-> work.left, agents |-> work.agents,
                 network |-> work.network, users |-> work.users, clean |-> work.clean,
                 id |-> work.id, part |-> work.part, toRead |-> work.toRead]
      /\ work.id \in Ids /\ work.left \subseteq Ids
  BY RowsOK
<1>2. /\ work'.at = "rows" /\ work'.left = work.left /\ work'.id = work.id
      /\ work'.network = work.network /\ work'.users = work.users /\ work'.clean = work.clean
      /\ work'.part = part /\ work'.toRead = left
      /\ work' = [at |-> work'.at, left |-> work'.left, agents |-> work'.agents,
                  network |-> work'.network, users |-> work'.users, clean |-> work'.clean,
                  id |-> work'.id, part |-> work'.part, toRead |-> work'.toRead]
  BY <1>1
<1>3. WorkOK'
  BY <1>1, <1>2 DEF WorkOK, Phases, Training, Learning, Gathering, Answering
<1>4. TakenWhole'
  BY <1>2 DEF TrainingInv, TakenWhole, Answering
<1> QED BY <1>2, <1>3, <1>4

LEMMA ReadUnknownStep ==
    ASSUME TrainingInv, ReadUnknown PROVE TrainingInv'
<1>1. work.at = "rows" /\ Reads /\ work.toRead \in Nat
  BY RowsOK DEF ReadUnknown
<1>2. PICK n \in Nat : n = work.toRead
  BY <1>1
<1>3. Limit(n) \in 0..n /\ Limit(n) <= MaxRows
  BY LimitBounds
<1> DEFINE U == Unknown(work.agents[work.id])
           left == n - Limit(n)
           part == FirstRows(U, Limit(n))
<1>4. work' = [work EXCEPT !.toRead = left, !.part = part]
  BY <1>2 DEF ReadUnknown
<1>5. left \in Nat
  BY <1>3
<1>6. U \in SUBSET Statistics
  BY DEF Unknown
<1>7. part \in SUBSET Statistics /\ Cardinality(part) <= MaxRows
  <2>1. IsFiniteSet(U) /\ U \in SUBSET Nat
    BY <1>6, StatisticsAreFinite
  <2>2. PICK k \in Nat : k = Limit(n) /\ k <= MaxRows
    BY <1>3
  <2>3. Cardinality(FirstRows(U, k)) <= k
    <3> HIDE DEF U
    <3> QED BY <2>1, FirstRowsAreFew
  <2>4. part \in SUBSET Statistics
    BY <1>6 DEF FirstRows
  <2>5. Cardinality(part) \in Nat /\ MaxRows \in Nat
    <3> HIDE DEF part
    <3> QED BY <2>4, StatisticsAreFinite, TrainingAssumption
  <2>6. Cardinality(part) <= k
    BY <2>2, <2>3
  <2> HIDE DEF part
  <2> QED BY <2>2, <2>4, <2>5, <2>6
<1> HIDE DEF left, part
<1>8. PICK l, p : l = left /\ p = part
  OBVIOUS
<1>9. /\ work'.at = "rows" /\ work'.left = work.left /\ WorkOK' /\ TakenWhole'
  BY <1>1, <1>4, <1>5, <1>7, <1>8, RowsFrame
<1> QED BY <1>1, <1>9, AnsweringFrame DEF Answering

LEMMA ConfigurationDoneStep ==
    ASSUME TrainingInv, ConfigurationDone PROVE TrainingInv'
<1>1. work.at = "rows" /\ Reads
  BY DEF ConfigurationDone
<1>2. work'.at = "classify" /\ work'.left = work.left
  BY DEF ConfigurationDone
<1>3. work.left \subseteq Ids
  BY <1>1, RowsOK
<1>4. WorkOK' /\ TakenWhole'
  BY <1>2, <1>3 DEF WorkOK, TakenWhole, Phases, Training, Learning, Gathering, Answering
<1> QED BY <1>1, <1>2, <1>4, AnsweringFrame

LEMMA AnalyzeEndsStep ==
    ASSUME TrainingInv, AnalyzeEnds PROVE TrainingInv'
<1>1. Reads /\ work'.at = "idle"
  BY DEF AnalyzeEnds, NoWork
<1>2. WorkOK' /\ TakenWhole'
  BY <1>1 DEF WorkOK, TakenWhole, Phases, Training, Learning, Gathering, Answering
<1> QED BY <1>1, <1>2, AnsweringFrame

\* The classifier changes a class, and with it the data of any configuration.
LEMMA RunStep ==
    ASSUME TrainingInv, Run PROVE TrainingInv'
<1>1. work.at = "rows" /\ work.part # {} /\ UNCHANGED <<network, web>>
      /\ missed' = [i \in Ids |->
                      missed[i] \cup IF Data(i)' # Data(i) THEN {"classified"} ELSE {}]
  BY DEF Run
<1>2. work.part \in SUBSET Statistics /\ Cardinality(work.part) <= MaxRows /\ work.toRead \in Nat
  BY <1>1, RowsOK
<1>3. PICK s \in work.part : s = Lowest(work.part)
  BY <1>1, <1>2, StatisticsAreFinite, LowestIsIn
<1>4. PICK c \in {"NORMAL", "ANOMALY"} : SetClass({s}, c)
  BY <1>3 DEF Run
<1>5. TablesOK' /\ MarksKept
  <2>1. class' \in [Statistics -> Classes]
    BY <1>4 DEF TrainingInv, TypeOK, SetClass, Classes
  <2> QED BY <1>4, <2>1, SetTables DEF SetClass, TrainingInv, TypeOK, TablesOK
<1>6. work' = [work EXCEPT !.part = @ \ {s}]
  BY <1>3 DEF Run
<1>7. PICK l, p : l = work.toRead /\ p = work.part \ {s}
  OBVIOUS
<1>8. p \in SUBSET Statistics /\ Cardinality(p) <= MaxRows
  <2>1. IsFiniteSet(work.part) /\ Cardinality(work.part) \in Nat /\ p \in SUBSET work.part
    BY <1>2, <1>7, StatisticsAreFinite
  <2>2. IsFiniteSet(p) /\ Cardinality(p) <= Cardinality(work.part)
    BY <2>1, FS_Subset
  <2>3. Cardinality(p) \in Nat /\ MaxRows \in Nat
    BY <2>2, FS_CardinalityType, TrainingAssumption
  <2> QED BY <1>2, <2>1, <2>2, <2>3
<1>9. work' = [work EXCEPT !.toRead = l, !.part = p]
  BY <1>1, <1>6, <1>7, RowsOK
<1>10. /\ work'.at = "rows" /\ work'.left = work.left /\ work'.part = p
       /\ WorkOK' /\ TakenWhole'
  BY <1>1, <1>2, <1>7, <1>8, <1>9, RowsFrame
<1>11. agent' = agent /\ changed' = changed /\ Existing' = Existing /\ Existing \subseteq Ids
       /\ learning' = learning
  BY <1>4 DEF SetClass, Existing
<1>12. TypeOK'
  <2>1. missed' \in [Ids -> SUBSET Misses]
    BY <1>1 DEF TrainingInv, TypeOK, Misses
  <2> QED BY <1>1, <1>5, <1>8, <1>10, <2>1 DEF TablesOK, TrainingInv, TypeOK
<1>13. WebOK' /\ WebMarks' /\ (DOMAIN network = Ids)'
  BY <1>1, <1>11 DEF TrainingInv, WebOK, WebMarks
<1>14. Unmarked'
  <2>1. \A i \in Ids : "unmarked" \in missed'[i] => "unmarked" \in missed[i]
    BY <1>1
  <2> QED BY <1>1, <2>1 DEF TrainingInv, Unmarked
<1>15. StillChanged' /\ Progress' /\ Trained' /\ Made'
  BY <1>10 DEF StillChanged, Progress, Trained, Made, Training, Learning, Gathering
<1>16. ASSUME NEW i \in Ids, Sound(i) PROVE Sound(i)'
  <2>1. missed'[i] = {} => missed[i] = {} /\ Data(i)' = Data(i)
    BY <1>1
  <2>2. Harmless(i)' => Harmless(i)
    BY <1>1 DEF Harmless
  <2>3. HasUsers(i)' <=> HasUsers(i)
    BY <1>1, <1>11 DEF HasUsers, UsersOf
  <2>4. Data(i)' = Data(i) => (UpToDate(i) => UpToDate(i)')
    <3> SUFFICES ASSUME Data(i)' = Data(i), UpToDate(i) PROVE UpToDate(i)'
      OBVIOUS
    <3>1. Known(i) \in SUBSET Known(i)
      OBVIOUS
    <3>2. UsersOf(i)' = UsersOf(i) /\ RowsOf(i, Known(i))' = RowsOf(i, Known(i))
      BY <3>1, SameData
    <3> QED BY <1>1, <3>2 DEF UpToDate
  <2> QED BY <1>16, <2>1, <2>2, <2>3, <2>4 DEF Sound
<1>17. UnchangedUpToDate'
  BY <1>11, <1>16 DEF TrainingInv, UnchangedUpToDate
<1> QED BY <1>10, <1>12, <1>13, <1>14, <1>15, <1>17 DEF TrainingInv

-----------------------------------------------------------------------------
(* The theorems.                                                           *)

\* A step that changes nothing.
LEMMA NoStep ==
    ASSUME TrainingInv, UNCHANGED vars PROVE TrainingInv'
<1>1. UNCHANGED <<tables, network, work, missed>> /\ UNCHANGED web /\ UNCHANGED <<agent>>
  BY DEF vars, tables
<1>2. WebOK' /\ WebMarks'
  BY <1>1 DEF TrainingInv, WebOK, WebMarks, Existing
<1> QED BY <1>1, <1>2, CommandFrame

LEMMA InvNext == TrainingInv /\ [Next]_vars => TrainingInv'
<1> SUFFICES ASSUME TrainingInv, [Next]_vars PROVE TrainingInv'
  OBVIOUS
<1>1. CASE WebThread
  BY <1>1, SaveConfigurationStep, RemoveConfigurationStep, UpdateClassificationStep,
     SelectCommandsStep, WebStepStep DEF WebThread
<1>2. CASE Trainer
  BY <1>2, TrainStep, CreateLearningSetFileStep, WriteHeaderStep, GetMarkedCommandsIdsStep,
     NextUserStep, ReadPartStep, WriteRowStep, UserDoneStep, CreateNetworkStep, SaveStep,
     MarkConfigurationAsUnchangedStep DEF Trainer
<1>3. CASE Classifier
  BY <1>3, ClassifyStep, CreateFromFileStep, CountUnknownStep, ReadUnknownStep, RunStep,
     ConfigurationDoneStep, AnalyzeEndsStep DEF Classifier
<1>4. CASE RunWithoutNetwork \/ Crash
  BY <1>4, RestartStep DEF RunWithoutNetwork, Crash
<1>5. CASE UNCHANGED vars
  BY <1>5, NoStep
<1> QED BY <1>1, <1>2, <1>3, <1>4, <1>5 DEF Next

\* What the trainer and the classifier hold agrees with the tables, between any two
\* statements of the web thread and after every end of the process.
THEOREM TrainingInvariance == Spec => []TrainingInv
<1> QED BY InvInit, InvNext, PTL DEF Spec

\* The variables have their types in every behaviour: an agent has at most
\* one configuration, whatever configurations are removed and saved again,
\* and the analyzer never holds more rows than MAX_ROWS_IN_MEMORY.
THEOREM TypeCorrect == Spec => []TypeOK
<1>1. TrainingInv => TypeOK
  BY DEF TrainingInv
<1> QED BY <1>1, TrainingInvariance, PTL

\* A configuration that is not marked as changed has a network trained on
\* all of its learning set as it is, however the statements of the web
\* thread fall between those of NetworkTrainer::Train and wherever the
\* process ends; unless one of the six changes was missed that
\* NetworkUpToDate names, and the one whose mark is still to come is missed
\* no longer than that.
THEOREM NetworksAreUpToDate == Spec => []NetworkUpToDate
<1>1. TrainingInv => NetworkUpToDate
  <2>1. \A i : Data(i).users = UsersOf(i) /\ Data(i).rows = RowsOf(i, Known(i))
    BY DEF Data, RowsOf, Row
  <2>2. Existing \subseteq Ids
    BY DEF Existing
  <2> QED BY <2>1, <2>2 DEF TrainingInv, UnchangedUpToDate, Sound, UpToDate, Unmarked, Marking,
                            NetworkUpToDate
<1> QED BY <1>1, TrainingInvariance, PTL

\* Classificator runs no missing network and reads no output past the last
\* for a configuration not marked as changed when it took the network, even
\* if the file, the users or the classes change while it runs; unless it was
\* removed, or a change of its learning set or selection was missed.
THEOREM NoRunIsBlind == Spec => []NoBlindRun
<1>1. TrainingInv => NoBlindRun
  BY DEF TrainingInv, TakenWhole, NoBlindRun, Answering
<1> QED BY <1>1, TrainingInvariance, PTL
=============================================================================
