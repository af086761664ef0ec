---------------------- MODULE BashConfiguration_proofs ----------------------
(***************************************************************************)
(* Proofs about BashConfiguration for any pages, ranges, commands and      *)
(* days, any size of the buffer and any limit of the selection.  What the  *)
(* fold of the daily statistics computes is left open: it is the same for  *)
(* the same counts.                                                        *)
(***************************************************************************)
EXTENDS BashConfiguration, FiniteSetTheorems, TLAPS

Preview == {"dates", "names", "count", "full", "read"}
Counting == {"count", "full"}
Saving == {"insert", "clear", "defaults"}
Removing == {"remove commands", "remove"}

\* Both ends of a range have their rows in DATE_TABLE.
Dated(r) == r.begin \in dates /\ r.end \in dates

\* What a page showed of a range is in the table of the summaries.
Covered(r, usage) ==
    \A c \in Commands : usage[c] > 0 =>
        \E s \in summaries : s.range = r /\ s.command = c /\ s.summary = usage[c]

\* The rows the calculation has not written: of commands it has visited, one of each.
BufferOK ==
    /\ IsFiniteSet(web.buffer)
    /\ \A s \in web.buffer :
         s.range = web.range /\ s.command \in names \ web.toVisit /\ ~ Exists(web.range, s.command)
    /\ \A s, t \in web.buffer : s.command = t.command => s = t

WebOK ==
    /\ web.at \in {"idle"} \cup Preview \cup Saving \cup Removing
    /\ web.at \in Preview => web.page \in Pages /\ web.range \in Ranges
    /\ web.at \in Preview \ {"dates"} => Dated(web.range)
    /\ web.at \in Counting =>
         /\ web = [at |-> web.at, page |-> web.page, range |-> web.range, days |-> web.days,
                   toVisit |-> web.toVisit, buffer |-> web.buffer]
         /\ web.toVisit \subseteq names /\ BufferOK
    /\ web.at \in Saving =>
         /\ web = [at |-> web.at, page |-> web.page]
         /\ web.page \in Pages /\ page[web.page].at \in {"shown", "failed"}
    /\ web.at \in {"clear", "defaults"} => config.set /\ ~ config.full
    /\ web.at \in Removing => config.set
    /\ web.at = "remove" => ~ config.full

PageOK ==
    /\ page = [p \in Pages |-> page[p]]
    /\ \A p \in Pages :
         /\ page[p].at \in {"none", "listed", "failed", "shown"}
         /\ page[p].at = "shown" => Dated(page[p].range) /\ Covered(page[p].range, page[p].usage)

ConfiguredRange == [begin |-> config.begin, end |-> config.end]

ConfigOK ==
    /\ config = NoConfig \/
       config = [set |-> TRUE, begin |-> config.begin, end |-> config.end, blind |-> config.blind,
                 usage |-> config.usage, full |-> config.full]
    /\ config.set => config.blind \in BOOLEAN /\ config.full \in BOOLEAN
    /\ config.set /\ config.blind => config.usage = NoUsage
    /\ config.set /\ ~ config.blind => Dated(ConfiguredRange) /\ Covered(ConfiguredRange, config.usage)
    /\ config.set /\ config.full => \A k \in selected : Exists(ConfiguredRange, k)

IInv == TypeOK /\ IsFiniteSet(summaries) /\ WebOK /\ PageOK /\ ConfigOK /\ DefaultsCoverPreview

-----------------------------------------------------------------------------
\* The table of the summaries has one row for a range and a command.
LEMMA SummaryOfRow ==
    ASSUME TypeOK, NEW s \in summaries
    PROVE  Exists(s.range, s.command) /\ SummaryOf(s.range, s.command) = s.summary
<1>1. s \in Rows(s.range) /\ \A t \in Rows(s.range) : t.command = s.command => t = s
  BY DEF Rows, TypeOK
<1>2. (CHOOSE t \in Rows(s.range) : t.command = s.command) = s
  BY <1>1
<1> QED BY <1>1, <1>2 DEF Exists, SummaryOf

LEMMA RowOfSummary ==
    ASSUME TypeOK, NEW r, NEW c, Exists(r, c)
    PROVE  \E s \in summaries : s.range = r /\ s.command = c /\ s.summary = SummaryOf(r, c)
<1>1. PICK s \in summaries : s.range = r /\ s.command = c
  BY DEF Exists, Rows
<1> QED BY <1>1, SummaryOfRow

\* Rows are added and never changed: what a summary was it stays.
LEMMA SummariesStay ==
    ASSUME TypeOK, TypeOK', summaries \subseteq summaries', NEW r, NEW c, Exists(r, c)
    PROVE  Exists(r, c)' /\ SummaryOf(r, c)' = SummaryOf(r, c)
<1>1. PICK s \in summaries : s.range = r /\ s.command = c /\ s.summary = SummaryOf(r, c)
  BY RowOfSummary
<1>2. s \in Rows(r)' /\ \A t \in Rows(r)' : t.command = c => t = s
  BY <1>1 DEF Rows, TypeOK
<1>3. (CHOOSE t \in Rows(r)' : t.command = c) = s
  BY <1>1, <1>2
<1> QED BY <1>1, <1>2, <1>3 DEF Exists, SummaryOf

LEMMA CoveredStays ==
    ASSUME NEW r, NEW u, Covered(r, u), summaries \subseteq summaries'
    PROVE  Covered(r, u)'
BY DEF Covered

\* The configuration keeps its promises while rows are added.
LEMMA ConfigStays ==
    ASSUME IInv, TypeOK', summaries \subseteq summaries', dates \subseteq dates',
           UNCHANGED <<config, selected>>
    PROVE  ConfigOK' /\ DefaultsCoverPreview'
<1>1. ConfiguredRange' = ConfiguredRange
  BY DEF ConfiguredRange
<1>2. config.set /\ ~ config.blind => Dated(ConfiguredRange)' /\ Covered(ConfiguredRange, config.usage)'
  BY <1>1, CoveredStays DEF IInv, ConfigOK, Dated, Covered
<1>3. config.set /\ config.full => \A k \in selected :
        Exists(ConfiguredRange, k)' /\ SummaryOf(ConfiguredRange, k)' = SummaryOf(ConfiguredRange, k)
  <2> SUFFICES ASSUME config.set, config.full, NEW k \in selected
               PROVE  Exists(ConfiguredRange, k)' /\ SummaryOf(ConfiguredRange, k)' = SummaryOf(ConfiguredRange, k)
    BY DEF Exists, SummaryOf, Rows
  <2>1. PICK r : r = ConfiguredRange
    OBVIOUS
  <2>2. Exists(r, k)
    BY <2>1 DEF IInv, ConfigOK
  <2>3. Exists(r, k)' /\ SummaryOf(r, k)' = SummaryOf(r, k)
    BY <2>2, SummariesStay DEF IInv
  <2>4. r = ConfiguredRange'
    BY <1>1, <2>1
  <2> QED BY <2>1, <2>3, <2>4 DEF Exists, SummaryOf, Rows
<1>4. ConfigOK'
  BY <1>1, <1>2, <1>3 DEF IInv, ConfigOK, NoUsage
<1>5. DefaultsCoverPreview'
  BY <1>1, <1>3 DEF IInv, DefaultsCoverPreview, ConfiguredRange
<1> QED BY <1>4, <1>5

\* So do the pages.
LEMMA PageStays ==
    ASSUME IInv, summaries \subseteq summaries', dates \subseteq dates', UNCHANGED page
    PROVE  PageOK'
BY CoveredStays DEF IInv, PageOK, Dated, Covered

-----------------------------------------------------------------------------
LEMMA InitInv == Init => IInv
<1> SUFFICES ASSUME Init PROVE IInv
  OBVIOUS
<1>1. TypeOK
  BY ConfigurationAssumption DEF Init, TypeOK, NoConfig, NoPage, Idle
<1>2. IsFiniteSet(summaries)
  BY FS_EmptySet DEF Init
<1> QED BY <1>1, <1>2 DEF Init, IInv, WebOK, PageOK, ConfigOK, DefaultsCoverPreview, Idle, NoPage, NoConfig,
        Preview, Counting, Saving, Removing

\* The other threads add dates, commands and daily statistics.
LEMMA InvOthers == IInv /\ (\/ \E d \in Days : AddDate(d) \/ AddDailyStatistics(d)
                          \/ \E c \in Commands : AddCommand(c)) => IInv'
<1> SUFFICES ASSUME IInv, \/ \E d \in Days : AddDate(d) \/ AddDailyStatistics(d)
                          \/ \E c \in Commands : AddCommand(c)
             PROVE  IInv'
  OBVIOUS
<1>1. UNCHANGED <<summaries, config, selected, page, web, crashes>>
  BY DEF AddDate, AddDailyStatistics, AddCommand
<1>2. dates \subseteq dates' /\ dates' \subseteq Days /\ names \subseteq names' /\ names' \subseteq Commands
  BY DEF AddDate, AddDailyStatistics, AddCommand, IInv, TypeOK
<1>3. DOMAIN daily' \subseteq dates' /\ missed' \subseteq Ranges \X Commands
  <2>1. ASSUME NEW d \in Days, AddDailyStatistics(d) PROVE DOMAIN daily' \subseteq dates'
    BY <2>1 DEF AddDailyStatistics, IInv, TypeOK
  <2>2. ASSUME NEW d \in Days, AddDailyStatistics(d) PROVE missed' \subseteq Ranges \X Commands
    BY <2>2 DEF AddDailyStatistics, IInv, TypeOK
  <2> QED BY <1>2, <2>1, <2>2 DEF AddDate, AddCommand, IInv, TypeOK
<1>4. TypeOK'
  BY <1>1, <1>2, <1>3 DEF IInv, TypeOK
<1>5. WebOK'
  <2>1. web.at \in Counting => BufferOK'
    BY <1>1, <1>2 DEF IInv, WebOK, BufferOK, Exists, Rows
  <2> QED BY <1>1, <1>2, <2>1 DEF IInv, WebOK, Dated
<1>6. PageOK' /\ ConfigOK' /\ DefaultsCoverPreview'
  BY <1>1, <1>2, <1>4, PageStays, ConfigStays
<1> QED BY <1>1, <1>4, <1>5, <1>6 DEF IInv

\* A page of an idle web thread gets an answer, or none.
LEMMA InvListed == IInv /\ (\E p \in Pages, r \in Ranges : GetConfigurations(p, r) \/ NoAnswer(p, r)) => IInv'
<1> SUFFICES ASSUME IInv, NEW p \in Pages, NEW r \in Ranges, GetConfigurations(p, r) \/ NoAnswer(p, r)
             PROVE  IInv'
  OBVIOUS
<1>1. /\ web.at = "idle" /\ UNCHANGED <<dates, names, daily, summaries, config, selected, web, missed>>
      /\ crashes' \in 0..MaxCrashes
  BY ConfigurationAssumption DEF GetConfigurations, NoAnswer, tables, IInv, TypeOK
<1>2. PICK x : /\ page' = [page EXCEPT ![p] = x] /\ x.range = r /\ x.at \in {"listed", "failed"}
  <2>1. PICK l : l = [at |-> "listed", range |-> r]
    OBVIOUS
  <2>2. page' = [page EXCEPT ![p] = l] \/ page' = [page EXCEPT ![p] = Failed(r)]
    BY <2>1 DEF GetConfigurations, NoAnswer, Show
  <2>3. l.range = r /\ l.at = "listed" /\ Failed(r).range = r /\ Failed(r).at = "failed"
    BY <2>1 DEF Failed
  <2> QED BY <2>2, <2>3
<1>3. page' = [q \in Pages |-> page'[q]] /\ page'[p] = x /\ \A q \in Pages \ {p} : page'[q] = page[q]
  BY <1>2 DEF IInv, PageOK
<1>4. TypeOK'
  BY <1>1, <1>2, <1>3 DEF IInv, TypeOK
<1>5. PageOK'
  <2>1. ASSUME NEW q \in Pages
        PROVE  /\ page'[q].at \in {"none", "listed", "failed", "shown"}
               /\ page'[q].at = "shown" =>
                    Dated(page[q].range)' /\ Covered(page[q].range, page[q].usage)'
    <3>1. CASE q = p
      BY <1>2, <1>3, <3>1
    <3>2. CASE q # p
      BY <1>1, <1>3, <3>2 DEF IInv, PageOK, Dated, Covered
    <3> QED BY <3>1, <3>2
  <2> QED BY <1>3, <2>1 DEF PageOK
<1>6. WebOK'
  BY <1>1 DEF IInv, WebOK, Preview, Counting, Saving, Removing
<1> QED BY <1>1, <1>4, <1>5, <1>6, ConfigStays DEF IInv

-----------------------------------------------------------------------------
\* The calculation up to its first write: the tables but DATE_TABLE stay.
LEMMA InvCount ==
    IInv /\ (\/ \E p \in Pages : GetCommandsStatistics(p)
             \/ AddAndGetDateIds \/ GetAllCommandsIds
             \/ \E c \in Commands : SkipCommand(c) \/ CountCommand(c)) => IInv'
<1> SUFFICES ASSUME IInv, \/ \E p \in Pages : GetCommandsStatistics(p)
                          \/ AddAndGetDateIds \/ GetAllCommandsIds
                          \/ \E c \in Commands : SkipCommand(c) \/ CountCommand(c)
             PROVE  IInv'
  OBVIOUS
<1>1. /\ UNCHANGED <<names, daily, summaries, config, selected, page, crashes>>
      /\ dates \subseteq dates' /\ dates' \subseteq Days
  <2>1. AddAndGetDateIds => web.range.begin \in Days /\ web.range.end \in Days
    BY ConfigurationAssumption DEF AddAndGetDateIds, IInv, WebOK, Preview
  <2> QED BY <2>1 DEF GetCommandsStatistics, AddAndGetDateIds, GetAllCommandsIds, SkipCommand, CountCommand,
             tables, IInv, TypeOK
<1>2. missed' \subseteq Ranges \X Commands
  <2>1. ASSUME NEW c \in Commands, CountCommand(c) PROVE missed' \subseteq Ranges \X Commands
    <3>1. web.range \in Ranges
      BY <2>1 DEF CountCommand, IInv, WebOK, Preview
    <3>2. <<web.range, c>> \in Ranges \X Commands
      BY <3>1
    <3>3. missed' \subseteq missed \cup {<<web.range, c>>}
      BY <2>1 DEF CountCommand
    <3> QED BY <3>2, <3>3 DEF IInv, TypeOK
  <2> QED BY <2>1 DEF GetCommandsStatistics, AddAndGetDateIds, GetAllCommandsIds, SkipCommand, IInv, TypeOK
\* What remains is web.
<1>3. ASSUME WebOK', web'.at = "count" => Cardinality(web'.buffer) < BufferSize PROVE IInv'
  <2>1. TypeOK'
    BY <1>1, <1>2, <1>3 DEF IInv, TypeOK
  <2> QED BY <1>1, <1>3, <2>1, PageStays, ConfigStays DEF IInv
<1>4. ASSUME NEW p \in Pages, GetCommandsStatistics(p) PROVE IInv'
  <2>1. page[p].range \in Ranges
    BY <1>4 DEF GetCommandsStatistics, IInv, TypeOK
  <2>2. WebOK' /\ web'.at # "count"
    BY <1>4, <2>1 DEF GetCommandsStatistics, WebOK, Preview, Counting, Saving, Removing
  <2> QED BY <1>3, <2>2
<1>5. CASE AddAndGetDateIds
  <2>1. WebOK' /\ web'.at # "count"
    BY <1>5 DEF AddAndGetDateIds, IInv, WebOK, Preview, Counting, Saving, Removing, Dated
  <2> QED BY <1>3, <2>1
<1>6. CASE GetAllCommandsIds
  <2>1. /\ web.at = "names" /\ web' = [at |-> "count", page |-> web.page, range |-> web.range,
                                       days |-> web.days, toVisit |-> names, buffer |-> {}]
    BY <1>6 DEF GetAllCommandsIds
  <2>2. BufferOK' /\ Cardinality(web'.buffer) = 0
    BY <2>1, FS_EmptySet DEF BufferOK
  <2>3. WebOK'
    BY <1>1, <2>1, <2>2 DEF IInv, WebOK, Preview, Counting, Saving, Removing, Dated
  <2> QED BY <1>3, <2>2, <2>3, ConfigurationAssumption
<1>7. ASSUME NEW c \in Commands, SkipCommand(c) PROVE IInv'
  <2>1. web.at = "count" /\ web' = [web EXCEPT !.toVisit = web.toVisit \ {c}]
    BY <1>7 DEF SkipCommand
  <2>2. /\ web' = [at |-> web.at, page |-> web.page, range |-> web.range, days |-> web.days,
                  toVisit |-> web.toVisit \ {c}, buffer |-> web.buffer]
    BY <2>1 DEF IInv, WebOK, Counting
  <2>3. BufferOK'
    BY <1>1, <2>1, <2>2 DEF IInv, WebOK, Counting, BufferOK, Exists, Rows
  <2>4. WebOK'
    BY <1>1, <2>1, <2>2, <2>3 DEF IInv, WebOK, Preview, Counting, Saving, Removing, Dated
  <2> QED BY <1>3, <2>1, <2>2, <2>4 DEF IInv, TypeOK
<1>8. ASSUME NEW c \in Commands, CountCommand(c) PROVE IInv'
  <2> DEFINE row == [range |-> web.range, command |-> c, summary |-> CommandSummary(c)]
             buffer == web.buffer \cup {row}
  <2>1. /\ web.at = "count" /\ c \in web.toVisit /\ ~ Exists(web.range, c)
        /\ web' = [web EXCEPT !.toVisit = web.toVisit \ {c}, !.buffer = buffer,
                              !.at = IF Cardinality(buffer) = BufferSize THEN "full" ELSE "count"]
    BY <1>8 DEF CountCommand
  <2>2. row.range = web.range /\ row.command = c
    OBVIOUS
  <2> HIDE DEF row
  <2>3. /\ web.toVisit \subseteq names /\ BufferOK /\ Cardinality(web.buffer) < BufferSize
        /\ web.page \in Pages /\ web.range \in Ranges /\ Dated(web.range)
    BY <2>1 DEF IInv, WebOK, Counting, Preview, TypeOK
  <2>4. IsFiniteSet(buffer) /\ Cardinality(buffer) <= BufferSize /\ Cardinality(buffer) \in Nat
    <3>1. IsFiniteSet(web.buffer) /\ Cardinality(web.buffer) \in Nat
      BY <2>3, FS_CardinalityType DEF BufferOK
    <3>2. IsFiniteSet(buffer) /\ Cardinality(buffer) \in {Cardinality(web.buffer), Cardinality(web.buffer) + 1}
      BY <3>1, FS_AddElement
    <3> QED BY <2>3, <3>1, <3>2, ConfigurationAssumption
  <2>5. web' = [at |-> web'.at, page |-> web.page, range |-> web.range, days |-> web.days,
                toVisit |-> web.toVisit \ {c}, buffer |-> buffer] /\ web'.at \in Counting
        /\ (web'.at = "count" => Cardinality(buffer) # BufferSize)
    BY <2>1 DEF IInv, WebOK, Counting
  <2>6. BufferOK'
    <3>1. \A s \in buffer : s.range = web.range /\ s.command \in names \ (web.toVisit \ {c})
                             /\ ~ Exists(web.range, s.command)
      BY <2>1, <2>2, <2>3 DEF BufferOK
    <3>2. \A s, t \in buffer : s.command = t.command => s = t
      BY <2>1, <2>2, <2>3 DEF BufferOK
    <3>3. web'.buffer = buffer /\ web'.range = web.range /\ web'.toVisit = web.toVisit \ {c}
      BY <2>5
    <3> QED BY <1>1, <2>4, <3>1, <3>2, <3>3 DEF BufferOK, Exists, Rows
  <2> HIDE DEF buffer
  <2>7. WebOK'
    <3>1. /\ web'.page \in Pages /\ web'.range \in Ranges /\ Dated(web.range)'
          /\ web' = [at |-> web'.at, page |-> web'.page, range |-> web'.range, days |-> web'.days,
                     toVisit |-> web'.toVisit, buffer |-> web'.buffer]
          /\ web'.toVisit \subseteq names
      BY <1>1, <2>3, <2>5 DEF Dated
    <3>2. web'.at \in {"count", "full"}
      BY <2>5 DEF Counting
    <3> QED BY <1>1, <2>6, <3>1, <3>2 DEF WebOK, Preview, Counting, Saving, Removing
  <2>8. web'.at = "count" => Cardinality(web'.buffer) < BufferSize
    BY <2>4, <2>5, ConfigurationAssumption
  <2> QED BY <1>3, <2>7, <2>8
<1> QED BY <1>4, <1>5, <1>6, <1>7, <1>8

\* A full buffer, or the rest, is written: no row of it was in the table.
LEMMA InvWrite == IInv /\ (AddFullBuffer \/ AddRest) => IInv'
<1> SUFFICES ASSUME IInv, AddFullBuffer \/ AddRest PROVE IInv'
  OBVIOUS
<1>1. /\ web.at \in {"count", "full"} /\ summaries' = summaries \cup web.buffer
      /\ UNCHANGED <<dates, names, daily, config, selected, page, crashes, missed>>
  BY DEF AddFullBuffer, AddRest
<1>2. /\ BufferOK /\ web.toVisit \subseteq names /\ web.page \in Pages /\ web.range \in Ranges
      /\ Dated(web.range)
      /\ web = [at |-> web.at, page |-> web.page, range |-> web.range, days |-> web.days,
                toVisit |-> web.toVisit, buffer |-> web.buffer]
  BY <1>1 DEF IInv, WebOK, Preview, Counting
<1>3. \/ web' = [at |-> "count", page |-> web.page, range |-> web.range, days |-> web.days,
                 toVisit |-> web.toVisit, buffer |-> {}]
      \/ web' = [at |-> "read", page |-> web.page, range |-> web.range]
  <2>1. CASE AddFullBuffer
    <3>1. web' = [web EXCEPT !.at = "count", !.buffer = {}]
      BY <2>1 DEF AddFullBuffer
    <3> QED BY <1>2, <3>1
  <2>2. CASE AddRest
    BY <2>2 DEF AddRest
  <2> QED BY <2>1, <2>2
<1>4. \A s, t \in summaries' : s.range = t.range /\ s.command = t.command => s = t
  <2>1. ASSUME NEW s \in summaries, NEW t \in web.buffer PROVE s.range # t.range \/ s.command # t.command
    BY <1>2 DEF BufferOK, Exists, Rows
  <2>2. \A s, t \in summaries : s.range = t.range /\ s.command = t.command => s = t
    BY DEF IInv, TypeOK
  <2>3. \A s, t \in web.buffer : s.range = t.range /\ s.command = t.command => s = t
    BY <1>2 DEF BufferOK
  <2> QED BY <1>1, <2>1, <2>2, <2>3
<1>5. \A s \in summaries' : s.range \in Ranges /\ s.command \in names
  BY <1>1, <1>2 DEF IInv, TypeOK, BufferOK
<1>6. Cardinality({}) = 0 /\ IsFiniteSet({}) /\ IsFiniteSet(summaries')
  BY <1>1, <1>2, FS_EmptySet, FS_Union DEF IInv, BufferOK
<1>7. TypeOK'
  <2>1. web'.at = "count" => Cardinality(web'.buffer) < BufferSize
    BY <1>3, <1>6, ConfigurationAssumption
  <2> QED BY <1>1, <1>4, <1>5, <2>1 DEF IInv, TypeOK
<1>8. WebOK'
  <2>1. web'.buffer = {} => BufferOK'
    BY <1>6 DEF BufferOK
  <2>2. Dated(web.range)' /\ web'.range = web.range
    BY <1>1, <1>2, <1>3 DEF Dated
  <2>3. CASE web'.at = "count"
    BY <1>1, <1>2, <1>3, <2>1, <2>2, <2>3 DEF WebOK, Preview, Counting, Saving, Removing
  <2>4. CASE web'.at = "read"
    BY <1>1, <1>2, <1>3, <2>2, <2>4 DEF WebOK, Preview, Counting, Saving, Removing
  <2> QED BY <1>3, <2>3, <2>4
<1>9. PageOK' /\ ConfigOK' /\ DefaultsCoverPreview'
  BY <1>1, <1>7, PageStays, ConfigStays
<1> QED BY <1>6, <1>7, <1>8, <1>9 DEF IInv

\* The reply: the page shows what the table has.
LEMMA InvReadSummaries == IInv /\ ReadSummaries => IInv'
<1> SUFFICES ASSUME IInv, ReadSummaries PROVE IInv'
  OBVIOUS
<1> DEFINE p == web.page
           usage == [c \in Commands |-> IF Exists(web.range, c) THEN SummaryOf(web.range, c) ELSE 0]
<1>1. /\ web.at = "read" /\ web' = Idle
      /\ page' = [page EXCEPT ![p] = [at |-> "shown", range |-> web.range, usage |-> usage]]
      /\ UNCHANGED <<dates, names, daily, summaries, config, selected, crashes, missed>>
  BY DEF ReadSummaries, Show, Shown, tables
<1>2. p \in Pages /\ web.range \in Ranges /\ Dated(web.range)
  BY <1>1 DEF IInv, WebOK, Preview
<1>3. \A c \in Commands : usage[c] > 0 =>
        \E s \in summaries : s.range = web.range /\ s.command = c /\ s.summary = usage[c]
  BY RowOfSummary DEF IInv
<1> HIDE DEF usage
<1>4. /\ page' = [q \in Pages |-> page'[q]] /\ \A q \in Pages \ {p} : page'[q] = page[q]
      /\ page'[p].at = "shown" /\ page'[p].range = web.range /\ page'[p].usage = usage
  BY <1>1, <1>2 DEF IInv, PageOK
<1>5. PageOK'
  <2>1. ASSUME NEW q \in Pages
        PROVE  /\ page'[q].at \in {"none", "listed", "failed", "shown"}
               /\ page'[q].at = "shown" =>
                    Dated(page[q].range)' /\ Covered(page[q].range, page[q].usage)'
    <3>1. CASE q = p
      BY <1>1, <1>2, <1>3, <1>4, <3>1 DEF Dated, Covered
    <3>2. CASE q # p
      BY <1>1, <1>4, <3>2 DEF IInv, PageOK, Dated, Covered
    <3> QED BY <3>1, <3>2
  <2> QED BY <1>4, <2>1 DEF PageOK
<1>6. TypeOK'
  BY <1>1, <1>2, <1>4 DEF IInv, TypeOK, Idle
<1>7. WebOK'
  BY <1>1 DEF WebOK, Idle, Preview, Counting, Saving, Removing
<1> QED BY <1>1, <1>5, <1>6, <1>7, ConfigStays DEF IInv

-----------------------------------------------------------------------------
(* SaveConfiguration.                                                      *)

LEMMA InvSave == IInv /\ ((\E p \in Pages : SaveConfiguration(p)) \/ RemoveAllCommands) => IInv'
<1> SUFFICES ASSUME IInv, (\E p \in Pages : SaveConfiguration(p)) \/ RemoveAllCommands PROVE IInv'
  OBVIOUS
<1>1. UNCHANGED <<dates, names, daily, summaries, config, page, crashes, missed>>
  BY DEF SaveConfiguration, RemoveAllCommands, tables
<1>2. ASSUME NEW p \in Pages, SaveConfiguration(p) PROVE IInv'
  <2>1. selected' = selected /\ web' = [at |-> "insert", page |-> p] /\ page[p].at \in {"shown", "failed"}
    BY <1>2 DEF SaveConfiguration, tables
  <2>2. TypeOK'
    BY <1>1, <2>1 DEF IInv, TypeOK
  <2>3. WebOK'
    BY <1>1, <2>1 DEF WebOK, Preview, Counting, Saving, Removing
  <2> QED BY <1>1, <2>1, <2>2, <2>3, PageStays, ConfigStays DEF IInv
<1>3. CASE RemoveAllCommands
  <2>1. web.at = "clear" /\ selected' = {} /\ web' = [web EXCEPT !.at = "defaults"]
    BY <1>3 DEF RemoveAllCommands
  <2>2. /\ web' = [at |-> "defaults", page |-> web.page] /\ web.page \in Pages
        /\ page[web.page].at \in {"shown", "failed"} /\ config.set /\ ~ config.full
    BY <2>1 DEF IInv, WebOK, Saving
  <2>3. TypeOK'
    BY <1>1, <2>1, <2>2 DEF IInv, TypeOK
  <2>4. WebOK'
    BY <1>1, <2>2 DEF WebOK, Preview, Counting, Saving, Removing
  <2>5. ConfigOK' /\ DefaultsCoverPreview'
    BY <1>1, <2>1, <2>2 DEF IInv, ConfigOK, DefaultsCoverPreview, ConfiguredRange, NoUsage, Dated, Covered
  <2> QED BY <1>1, <2>3, <2>4, <2>5, PageStays DEF IInv
<1> QED BY <1>2, <1>3

\* The dates of a page that was shown are in the table, so the ids are theirs.
LEMMA InvAddConfiguration == IInv /\ AddAnomalyDetectionConfiguration => IInv'
<1> SUFFICES ASSUME IInv, AddAnomalyDetectionConfiguration PROVE IInv'
  OBVIOUS
<1> DEFINE from == page[web.page]
           blind == from.at = "failed"
           usage == IF blind THEN NoUsage ELSE from.usage
<1>1. /\ web.at = "insert" /\ web' = [web EXCEPT !.at = "clear"]
      /\ config' = [set |-> TRUE, begin |-> DateId(from.range.begin), end |-> DateId(from.range.end),
                    blind |-> blind, usage |-> usage, full |-> FALSE]
      /\ UNCHANGED <<dates, names, daily, summaries, selected, page, crashes, missed>>
  BY DEF AddAnomalyDetectionConfiguration
<1>2. /\ web' = [at |-> "clear", page |-> web.page] /\ web.page \in Pages
      /\ from.at \in {"shown", "failed"}
  BY <1>1 DEF IInv, WebOK, Saving
<1>3. /\ config'.set /\ ~ config'.full /\ config'.blind = blind /\ config'.usage = usage
      /\ config'.begin = DateId(from.range.begin) /\ config'.end = DateId(from.range.end)
      /\ config' = [set |-> TRUE, begin |-> config'.begin, end |-> config'.end, blind |-> config'.blind,
                    usage |-> config'.usage, full |-> config'.full]
  BY <1>1
<1>4. from.range \in Ranges /\ from.range = [begin |-> from.range.begin, end |-> from.range.end]
  BY <1>2, ConfigurationAssumption DEF IInv, TypeOK
<1>5. ASSUME ~ blind PROVE Dated(ConfiguredRange)' /\ Covered(ConfiguredRange, config.usage)'
  <2>1. Dated(from.range) /\ Covered(from.range, from.usage)
    BY <1>2, <1>5 DEF IInv, PageOK
  <2>2. ConfiguredRange' = from.range /\ config'.usage = from.usage
    BY <1>3, <1>4, <1>5, <2>1 DEF ConfiguredRange, DateId, Dated
  <2> QED BY <1>1, <2>1, <2>2 DEF Dated, Covered
<1>6. TypeOK'
  BY <1>1, <1>2, <1>3 DEF IInv, TypeOK, DateId
<1>7. WebOK'
  BY <1>1, <1>2, <1>3 DEF WebOK, Preview, Counting, Saving, Removing
<1>8. ConfigOK' /\ DefaultsCoverPreview'
  <2>0. blind \in BOOLEAN
    OBVIOUS
  <2> HIDE DEF blind
  <2>1. config'.blind \in BOOLEAN /\ config'.full \in BOOLEAN
    BY <1>1, <2>0
  <2>2. config'.blind => config'.usage = NoUsage
    BY <1>3 DEF blind
  <2>3. ~ config'.blind => Dated(ConfiguredRange)' /\ Covered(ConfiguredRange, config.usage)'
    BY <1>3, <1>5 DEF blind
  <2> QED BY <1>3, <2>1, <2>2, <2>3 DEF ConfigOK, DefaultsCoverPreview, NoUsage
<1> QED BY <1>1, <1>6, <1>7, <1>8, PageStays DEF IInv

\* Whether the commands were selected is all that changes in a configuration.
LEMMA OnlyFullChanges ==
    ASSUME ConfigOK, config.set, NEW f \in BOOLEAN, config' = [config EXCEPT !.full = f]
    PROVE  /\ config'.set /\ config'.full = f /\ config'.blind = config.blind /\ config'.usage = config.usage
           /\ config'.begin = config.begin /\ config'.end = config.end
           /\ config' = [set |-> TRUE, begin |-> config'.begin, end |-> config'.end, blind |-> config'.blind,
                         usage |-> config'.usage, full |-> config'.full]
<1>1. config = [set |-> TRUE, begin |-> config.begin, end |-> config.end, blind |-> config.blind,
                usage |-> config.usage, full |-> config.full]
  BY DEF ConfigOK, NoConfig
<1>2. config' = [set |-> TRUE, begin |-> config.begin, end |-> config.end, blind |-> config.blind,
                 usage |-> config.usage, full |-> f]
  <2>1. PICK b, e, bl, u, g :
          config = [set |-> TRUE, begin |-> b, end |-> e, blind |-> bl, usage |-> u, full |-> g]
    BY <1>1
  <2>2. config.begin = b /\ config.end = e /\ config.blind = bl /\ config.usage = u
    BY <2>1
  <2>3. config' = [set |-> TRUE, begin |-> b, end |-> e, blind |-> bl, usage |-> u, full |-> f]
    BY <2>1
  <2> QED BY <2>2, <2>3
<1> QED BY <1>2

\* As many commands as rows.
LEMMA CommandsOfRows ==
    ASSUME NEW S, IsFiniteSet(S), \A s, t \in S : s.command = t.command => s = t
    PROVE  Cardinality({s.command : s \in S}) = Cardinality(S)
<1> DEFINE T == {s.command : s \in S}
           f == [s \in S |-> s.command]
<1>1. f \in Bijection(S, T)
  BY DEF Bijection, Injection, Surjection, IsInjective
<1>2. ExistsBijection(S, T)
  BY <1>1 DEF ExistsBijection
<1> QED BY <1>2, FS_Bijection

\* The limit cuts off the commands used least.
LEMMA InvAddDefaultCommands == IInv /\ AddDefaultCommands => IInv'
<1> SUFFICES ASSUME IInv, AddDefaultCommands PROVE IInv'
  OBVIOUS
<1> DEFINE number == IF Cardinality(Candidates) < MaxSelected THEN Cardinality(Candidates) ELSE MaxSelected
<1>1. /\ web.at = "defaults" /\ web' = Idle /\ config' = [config EXCEPT !.full = TRUE]
      /\ page' = [page EXCEPT ![web.page] = NoPage]
      /\ UNCHANGED <<dates, names, daily, summaries, crashes, missed>>
  BY DEF AddDefaultCommands, Show
<1>2. PICK S \in SUBSET Candidates :
        Highest(S) /\ Cardinality(S) = number /\ selected' = {s.command : s \in S}
  BY DEF AddDefaultCommands
<1>3. config.set /\ web.page \in Pages
  BY <1>1 DEF IInv, WebOK, Saving
<1>4. /\ config'.set /\ config'.full /\ config'.blind = config.blind /\ config'.usage = config.usage
      /\ config'.begin = config.begin /\ config'.end = config.end
      /\ config' = [set |-> TRUE, begin |-> config'.begin, end |-> config'.end, blind |-> config'.blind,
                    usage |-> config'.usage, full |-> config'.full]
  BY <1>1, <1>3, OnlyFullChanges DEF IInv
<1>5. ConfiguredRange' = ConfiguredRange
  BY <1>4 DEF ConfiguredRange
<1>6. \A s \in Candidates : s \in summaries /\ s.range = ConfiguredRange /\ s.command \in names
  BY DEF Candidates, ConfiguredRange, IInv, TypeOK
<1>7. \A s, t \in Candidates : s.command = t.command => s = t
  BY <1>6 DEF IInv, TypeOK
<1>8. /\ IsFiniteSet(Candidates) /\ IsFiniteSet(S)
      /\ Cardinality(Candidates) \in Nat /\ Cardinality(S) \in Nat
  BY <1>6, FS_Subset, FS_CardinalityType DEF IInv, Candidates
<1>9. Cardinality(selected') = number
  BY <1>2, <1>7, <1>8, CommandsOfRows
<1>10. TypeOK'
  <2>1. selected' \subseteq names
    BY <1>2, <1>6
  <2>2. \A q \in Pages : page'[q].at # "none" => page'[q].range \in Ranges
    BY <1>1, <1>3 DEF IInv, TypeOK, PageOK, NoPage
  <2> QED BY <1>1, <1>4, <2>1, <2>2 DEF IInv, TypeOK, Idle
<1>11. ConfigOK'
  <2>1. config.set /\ ~ config.blind => Dated(ConfiguredRange)' /\ Covered(ConfiguredRange, config.usage)'
    BY <1>1, <1>4, <1>5 DEF IInv, ConfigOK, Dated, Covered
  <2>2. \A k \in selected' : Exists(ConfiguredRange, k)'
    BY <1>1, <1>2, <1>5, <1>6 DEF Exists, Rows
  <2> QED BY <1>3, <1>4, <2>1, <2>2 DEF IInv, ConfigOK, NoUsage
<1>12. DefaultsCoverPreview'
  <2> SUFFICES ASSUME NEW c \in Commands \ selected', config.usage[c] > 0
               PROVE  /\ Cardinality(selected') = MaxSelected
                      /\ \A k \in selected' : SummaryOf(ConfiguredRange, k)' >= config.usage[c]
    BY <1>4 DEF DefaultsCoverPreview, ConfiguredRange
  <2>1. ~ config.blind
    BY <1>3 DEF IInv, ConfigOK, NoUsage
  <2>2. PICK t \in summaries : t.range = ConfiguredRange /\ t.command = c /\ t.summary = config.usage[c]
    BY <1>3, <2>1 DEF IInv, ConfigOK, Covered
  <2>3. t \in Candidates \ S
    BY <1>2, <2>2 DEF Candidates, ConfiguredRange
  <2>4. Cardinality(S) = MaxSelected
    BY <1>2, <1>8, <2>3, FS_Subset
  <2>5. ASSUME NEW k \in selected' PROVE SummaryOf(ConfiguredRange, k)' >= config.usage[c]
    <3>1. PICK s \in S : s.command = k
      BY <1>2
    <3>2. s.summary >= t.summary
      BY <1>2, <2>3 DEF Highest
    <3>3. SummaryOf(ConfiguredRange, k) = s.summary
      BY <1>2, <1>6, <3>1, SummaryOfRow DEF IInv
    <3>4. SummaryOf(ConfiguredRange, k)' = SummaryOf(ConfiguredRange, k)
      BY <1>1, <1>5 DEF SummaryOf, Rows
    <3> QED BY <2>2, <3>2, <3>3, <3>4
  <2> QED BY <1>2, <1>9, <2>4, <2>5
<1>13. WebOK'
  BY <1>1 DEF WebOK, Idle, Preview, Counting, Saving, Removing
<1>14. PageOK'
  <2>1. ASSUME NEW q \in Pages
        PROVE  page'[q] = page[q] \/ page'[q] = NoPage
    BY <1>1 DEF IInv, PageOK
  <2>2. page' = [q \in Pages |-> page'[q]]
    BY <1>1 DEF IInv, PageOK
  <2>3. ASSUME NEW q \in Pages
        PROVE  /\ page'[q].at \in {"none", "listed", "failed", "shown"}
               /\ page'[q].at = "shown" =>
                    Dated(page[q].range)' /\ Covered(page[q].range, page[q].usage)'
    BY <1>1, <2>1 DEF IInv, PageOK, NoPage, Dated, Covered
  <2> QED BY <2>2, <2>3 DEF PageOK
<1> QED BY <1>1, <1>10, <1>11, <1>12, <1>13, <1>14 DEF IInv

-----------------------------------------------------------------------------
\* The steps that only forget: the web thread is idle again, and pages fail.
LEMMA InvRemove == IInv /\ (RemoveConfiguration \/ RemoveCommands \/ Remove) => IInv'
<1> SUFFICES ASSUME IInv, RemoveConfiguration \/ RemoveCommands \/ Remove PROVE IInv'
  OBVIOUS
<1>1. UNCHANGED <<dates, names, daily, summaries, page, crashes, missed>>
  BY DEF RemoveConfiguration, RemoveCommands, Remove, tables
<1>2. CASE RemoveConfiguration
  <2>1. config.set /\ UNCHANGED <<config, selected>> /\ web' = [at |-> "remove commands"]
    BY <1>2 DEF RemoveConfiguration, tables
  <2>2. TypeOK'
    BY <1>1, <2>1 DEF IInv, TypeOK
  <2>3. WebOK'
    BY <1>1, <2>1 DEF WebOK, Preview, Counting, Saving, Removing
  <2> QED BY <1>1, <2>1, <2>2, <2>3, PageStays, ConfigStays DEF IInv
<1>3. CASE RemoveCommands
  <2>1. /\ config.set /\ selected' = {} /\ config' = [config EXCEPT !.full = FALSE]
        /\ web' = [at |-> "remove"]
    BY <1>3 DEF RemoveCommands, IInv, WebOK, Removing
  <2>2. /\ config'.set /\ ~ config'.full /\ config'.blind = config.blind /\ config'.usage = config.usage
        /\ config'.begin = config.begin /\ config'.end = config.end
        /\ config' = [set |-> TRUE, begin |-> config'.begin, end |-> config'.end, blind |-> config'.blind,
                      usage |-> config'.usage, full |-> config'.full]
    BY <2>1, OnlyFullChanges DEF IInv
  <2>3. ConfiguredRange' = ConfiguredRange
    BY <2>2 DEF ConfiguredRange
  <2>4. TypeOK'
    BY <1>1, <2>1, <2>2 DEF IInv, TypeOK
  <2>5. WebOK'
    BY <1>1, <2>1, <2>2 DEF WebOK, Preview, Counting, Saving, Removing
  <2>6. ConfigOK' /\ DefaultsCoverPreview'
    BY <1>1, <2>1, <2>2, <2>3 DEF IInv, ConfigOK, DefaultsCoverPreview, NoUsage, Dated, Covered
  <2> QED BY <1>1, <2>4, <2>5, <2>6, PageStays DEF IInv
<1>4. CASE Remove
  <2>1. config' = NoConfig /\ web' = Idle /\ selected' = selected
    BY <1>4 DEF Remove
  <2>2. TypeOK'
    BY <1>1, <2>1 DEF IInv, TypeOK, NoConfig, Idle
  <2>3. WebOK' /\ ConfigOK' /\ DefaultsCoverPreview'
    BY <2>1 DEF WebOK, ConfigOK, DefaultsCoverPreview, NoConfig, Idle, Preview, Counting, Saving, Removing
  <2> QED BY <1>1, <2>2, <2>3, PageStays DEF IInv
<1> QED BY <1>2, <1>3, <1>4

LEMMA InvDown == IInv /\ (Crash \/ AnalyzerThrows) => IInv'
<1> SUFFICES ASSUME IInv, Crash \/ AnalyzerThrows PROVE IInv'
  OBVIOUS
<1>1. /\ web' = Idle /\ crashes' \in 0..MaxCrashes
      /\ UNCHANGED <<dates, names, daily, summaries, config, selected, missed>>
  BY ConfigurationAssumption DEF Crash, AnalyzerThrows, Down, tables, IInv, TypeOK
<1>2. /\ page' = [p \in Pages |-> page'[p]]
      /\ \A p \in Pages :
           \/ page'[p] = page[p] \/ page'[p] = NoPage
           \/ page'[p] = Failed(page[p].range) /\ page[p].at = "listed"
  BY DEF Crash, AnalyzerThrows, Down
<1>3. PageOK'
  <2>1. ASSUME NEW q \in Pages
        PROVE  /\ page'[q].at \in {"none", "listed", "failed", "shown"}
               /\ page'[q].at = "shown" =>
                    Dated(page[q].range)' /\ Covered(page[q].range, page[q].usage)'
    BY <1>1, <1>2 DEF IInv, PageOK, NoPage, Failed, Dated, Covered
  <2> QED BY <1>2, <2>1 DEF PageOK
<1>4. TypeOK'
  <2>1. \A p \in Pages : page'[p].at # "none" => page'[p].range \in Ranges
    BY <1>2 DEF IInv, TypeOK, NoPage, Failed
  <2> QED BY <1>1, <2>1, ConfigurationAssumption DEF IInv, TypeOK, Idle
<1>5. WebOK'
  BY <1>1 DEF WebOK, Idle, Preview, Counting, Saving, Removing
<1> QED BY <1>1, <1>3, <1>4, <1>5, ConfigStays DEF IInv

-----------------------------------------------------------------------------
LEMMA Inductive == IInv /\ [Next]_vars => IInv'
<1> SUFFICES ASSUME IInv, [Next]_vars PROVE IInv'
  OBVIOUS
<1>1. CASE UNCHANGED vars
  <2>1. UNCHANGED <<dates, names, daily, summaries, config, selected, page, web, crashes, missed>>
    BY <1>1 DEF vars, tables
  <2>2. TypeOK'
    BY <2>1 DEF IInv, TypeOK
  <2>3. WebOK'
    <3>1. BufferOK => BufferOK'
      BY <2>1 DEF BufferOK, Exists, Rows
    <3> QED BY <2>1, <3>1 DEF IInv, WebOK, Dated
  <2> QED BY <2>1, <2>2, <2>3, PageStays, ConfigStays DEF IInv
<1>2. CASE Next
  BY <1>2, InvOthers, InvListed, InvCount, InvWrite, InvReadSummaries, InvSave, InvAddConfiguration,
     InvAddDefaultCommands, InvRemove, InvDown DEF Next
<1> QED BY <1>1, <1>2

\* The summaries, the pages and the configuration agree in every state, for any number of
\* windows and crashes.
THEOREM Invariance == Spec => []IInv
BY InitInv, Inductive, PTL DEF Spec

\* The tables keep their keys and references for any number of pages and crashes.
THEOREM TypeCorrect == Spec => []TypeOK
<1>1. IInv => TypeOK
  BY DEF IInv
<1> QED BY <1>1, Invariance, PTL

\* Only a page that was saved without an answer stops the analyzer: what the preview
\* adds to DATE_TABLE is what the configuration refers to.
THEOREM AlwaysListable == Spec => []ConfigurationsListable
<1>1. IInv => ConfigurationsListable
  <2> SUFFICES ASSUME IInv, ~ Listable, ~ config.blind PROVE FALSE
    BY DEF ConfigurationsListable
  <2>1. config.set /\ Dated(ConfiguredRange)
    BY DEF Listable, IInv, ConfigOK
  <2>2. config.begin \in Days /\ config.end \in Days
    BY <2>1 DEF Dated, ConfiguredRange, IInv, TypeOK
  <2> QED BY <2>1, <2>2, ConfigurationAssumption DEF Listable, NoDate, Days
<1> QED BY <1>1, Invariance, PTL

\* The commands selected by default are those the saved page showed with the highest
\* counts, whatever the other pages did to the summaries.
THEOREM DefaultsAreCovered == Spec => []DefaultsCoverPreview
<1>1. IInv => DefaultsCoverPreview
  BY DEF IInv
<1> QED BY <1>1, Invariance, PTL

-----------------------------------------------------------------------------
(* What a page shows.                                                      *)

\* A number is what the daily statistics count, or the loss has been noted.
Right(r, c, n) == n = Usage(r, c) \/ <<r, c>> \in missed

\* What was counted is right in the table and in the buffer; a command that was visited and
\* is in neither was not used.
CountedRight ==
    /\ \A s \in summaries : Right(s.range, s.command, s.summary)
    /\ web.at \in Counting =>
         /\ \A s \in web.buffer : Right(s.range, s.command, s.summary)
         /\ \A c \in Commands \ web.toVisit :
              \/ Exists(web.range, c) \/ \E s \in web.buffer : s.command = c
              \/ Right(web.range, c, 0)
    /\ web.at = "read" => \A c \in Commands : Exists(web.range, c) \/ Right(web.range, c, 0)

DailyOK ==
    /\ \A d \in DOMAIN daily : daily[d] \in [Commands -> Nat]
    /\ \A d \in DOMAIN daily, c \in Commands \ names : daily[d][c] = 0
    /\ web.at \in {"names"} \cup Counting => web.days \subseteq DaysOf(web.range)

UsageInv == CountedRight /\ DailyOK

\* The usage of a range depends on the days on which the command was used only.
LEMMA SameUsage ==
    ASSUME NEW D, NEW c, UsedOn(D, c)' = UsedOn(D, c),
           \A d \in UsedOn(D, c) : daily'[d][c] = daily[d][c]
    PROVE  UsageOn(D, c)' = UsageOn(D, c)
<1>1. [d \in UsedOn(D, c)' |-> daily'[d][c]] = [d \in UsedOn(D, c) |-> daily[d][c]]
  OBVIOUS
<1> QED BY <1>1 DEF UsageOn

\* It is the same on two sets of days that differ in unused ones.
LEMMA SameDays ==
    ASSUME NEW D, NEW E, NEW c, UsedOn(D, c) = UsedOn(E, c)
    PROVE  UsageOn(D, c) = UsageOn(E, c)
BY DEF UsageOn

LEMMA UnchangedUsage ==
    ASSUME UNCHANGED daily, NEW r, NEW c
    PROVE  Usage(r, c)' = Usage(r, c)
BY SameUsage DEF Usage, UsedOn

LEMMA RightStays ==
    ASSUME UNCHANGED <<daily, missed>>, NEW r, NEW c, NEW n
    PROVE  Right(r, c, n)' = Right(r, c, n)
BY UnchangedUsage DEF Right

\* A day with usage of a command that has been counted is noted as missed.
LEMMA DayIsNoted ==
    ASSUME IInv, UsageInv, NEW d \in Days, AddDailyStatistics(d),
           NEW r \in Ranges, NEW c \in Commands, NEW n, IsCounted(r, c), Right(r, c, n)
    PROVE  Right(r, c, n)'
<1>1. PICK counts \in [Commands -> Counts \cup {0}] :
        /\ daily' = [e \in DOMAIN daily \cup {d} |-> IF e = d THEN counts ELSE daily[e]]
        /\ missed' = missed \cup
             {m \in Ranges \X Commands :
                d \in DaysOf(m[1]) /\ counts[m[2]] > 0 /\ IsCounted(m[1], m[2])}
  BY DEF AddDailyStatistics
<1>2. CASE <<r, c>> \in missed \/ (d \in DaysOf(r) /\ counts[c] > 0)
  <2>1. <<r, c>> \in missed'
    BY <1>1, <1>2
  <2> QED BY <2>1 DEF Right
<1>3. CASE ~ (<<r, c>> \in missed \/ (d \in DaysOf(r) /\ counts[c] > 0))
  <2>1. UsedOn(DaysOf(r), c)' = UsedOn(DaysOf(r), c)
    <3>1. d \notin DOMAIN daily /\ DaysOf(r)' = DaysOf(r)
      BY DEF AddDailyStatistics, DaysOf
    <3>2. \A e \in DOMAIN daily : daily'[e] = daily[e]
      BY <1>1, <3>1
    <3>3. DOMAIN daily' = DOMAIN daily \cup {d} /\ daily'[d] = counts
      BY <1>1
    <3> QED BY <1>3, <3>1, <3>2, <3>3 DEF UsedOn
  <2>2. \A e \in UsedOn(DaysOf(r), c) : daily'[e][c] = daily[e][c]
    <3>1. d \notin DOMAIN daily
      BY DEF AddDailyStatistics
    <3> QED BY <1>1, <3>1 DEF UsedOn
  <2>3. UsageOn(DaysOf(r), c)' = UsageOn(DaysOf(r), c)
    <3> DEFINE D == DaysOf(r)
    <3>1. D' = D
      BY DEF DaysOf
    <3> HIDE DEF D
    <3>2. UsedOn(D, c)' = UsedOn(D, c) /\ \A e \in UsedOn(D, c) : daily'[e][c] = daily[e][c]
      BY <2>1, <2>2 DEF D
    <3>3. UsageOn(D, c)' = UsageOn(D, c)
      BY <3>1, <3>2, SameUsage
    <3> QED BY <3>3 DEF D
  <2>4. Usage(r, c)' = Usage(r, c)
    BY <2>3 DEF Usage
  <2>5. n = Usage(r, c)
    BY <1>3 DEF Right
  <2> QED BY <2>4, <2>5 DEF Right
<1> QED BY <1>2, <1>3

LEMMA UsageOthers ==
    IInv /\ UsageInv /\ (\/ \E d \in Days : AddDate(d) \/ AddDailyStatistics(d)
                         \/ \E c \in Commands : AddCommand(c)) => UsageInv'
<1> SUFFICES ASSUME IInv, UsageInv, \/ \E d \in Days : AddDate(d) \/ AddDailyStatistics(d)
                                    \/ \E c \in Commands : AddCommand(c)
             PROVE  UsageInv'
  OBVIOUS
<1>1. UNCHANGED <<summaries, web>> /\ names \subseteq names'
  BY DEF AddDate, AddDailyStatistics, AddCommand
<1>2. \A r, c : Exists(r, c)' = Exists(r, c)
  BY <1>1 DEF Exists, Rows
<1>3. CASE UNCHANGED <<daily, missed>>
  <2>1. CountedRight'
    BY <1>1, <1>2, <1>3, RightStays DEF UsageInv, CountedRight
  <2>2. DailyOK'
    BY <1>1, <1>3 DEF UsageInv, DailyOK, DaysOf
  <2> QED BY <2>1, <2>2 DEF UsageInv
<1>4. ASSUME NEW d \in Days, AddDailyStatistics(d) PROVE UsageInv'
  <2>1. \A s \in summaries : Right(s.range, s.command, s.summary)'
    <3> SUFFICES ASSUME NEW s \in summaries PROVE Right(s.range, s.command, s.summary)'
      BY <1>1
    <3>1. s.range \in Ranges /\ s.command \in Commands /\ Exists(s.range, s.command)
      BY SummaryOfRow DEF IInv, TypeOK
    <3>2. Right(s.range, s.command, s.summary) /\ IsCounted(s.range, s.command)
      BY <3>1 DEF UsageInv, CountedRight, IsCounted
    <3> QED BY <1>4, <3>1, <3>2, DayIsNoted
  <2>2. web.at \in Counting => \A s \in web.buffer : Right(s.range, s.command, s.summary)'
    <3> SUFFICES ASSUME web.at \in Counting, NEW s \in web.buffer PROVE Right(s.range, s.command, s.summary)'
      OBVIOUS
    <3>1. s.range = web.range /\ web.range \in Ranges /\ s.command \in Commands /\ s.command \notin web.toVisit
      BY DEF IInv, WebOK, BufferOK, Counting, Preview, TypeOK
    <3>2. Right(s.range, s.command, s.summary) /\ IsCounted(s.range, s.command)
      BY <3>1 DEF UsageInv, CountedRight, IsCounted, Counting
    <3> QED BY <1>4, <3>1, <3>2, DayIsNoted
  <2>3. web.at \in Counting \cup {"read"} => web.range \in Ranges
    BY DEF IInv, WebOK, Counting, Preview
  <2>4. ASSUME NEW c \in Commands, (web.at \in Counting /\ c \notin web.toVisit) \/ web.at = "read",
               Right(web.range, c, 0)
        PROVE  Right(web.range, c, 0)'
    <3> DEFINE r == web.range
    <3>1. r' = r /\ r \in Ranges /\ IsCounted(r, c)
      BY <1>1, <2>3, <2>4 DEF IsCounted, Counting
    <3> HIDE DEF r
    <3>2. Right(r, c, 0)
      BY <2>4 DEF r
    <3>3. Right(r, c, 0)'
      BY <1>4, <3>1, <3>2, DayIsNoted
    <3> QED BY <3>3 DEF r
  <2>5. CountedRight'
    BY <1>1, <1>2, <2>1, <2>2, <2>4 DEF UsageInv, CountedRight
  <2>6. DailyOK'
    <3>1. PICK counts \in [Commands -> Counts \cup {0}] :
            /\ \A c \in Commands \ names : counts[c] = 0
            /\ daily' = [e \in DOMAIN daily \cup {d} |-> IF e = d THEN counts ELSE daily[e]]
      BY <1>4 DEF AddDailyStatistics
    <3>2. DOMAIN daily' = DOMAIN daily \cup {d}
          /\ \A e \in DOMAIN daily' : daily'[e] = counts \/ (e \in DOMAIN daily /\ daily'[e] = daily[e])
      BY <3>1
    <3>3. counts \in [Commands -> Nat]
      <4>1. Counts \cup {0} \subseteq Nat
        BY ConfigurationAssumption
      <4>2. \A c \in Commands : counts[c] \in Nat
        BY <4>1
      <4> QED BY <4>2
    <3>4. \A e \in DOMAIN daily' : daily'[e] \in [Commands -> Nat]
      BY <3>2, <3>3 DEF UsageInv, DailyOK
    <3>5. \A e \in DOMAIN daily', c \in Commands \ names' : daily'[e][c] = 0
      BY <1>1, <3>1, <3>2 DEF UsageInv, DailyOK
    <3>6. web'.at \in {"names"} \cup Counting => web'.days \subseteq DaysOf(web.range)'
      BY <1>1 DEF UsageInv, DailyOK, DaysOf
    <3> QED BY <3>4, <3>5, <3>6 DEF DailyOK
  <2> QED BY <2>5, <2>6 DEF UsageInv
<1> QED BY <1>3, <1>4 DEF AddDate, AddCommand

\* The calculation up to its first write.
LEMMA UsageCount ==
    ASSUME IInv, UsageInv,
           \/ \E p \in Pages : GetCommandsStatistics(p)
           \/ AddAndGetDateIds \/ GetAllCommandsIds
           \/ \E c \in Commands : SkipCommand(c) \/ CountCommand(c)
    PROVE  UsageInv'
<1>1. UNCHANGED <<names, daily, summaries>>
  BY DEF GetCommandsStatistics, AddAndGetDateIds, GetAllCommandsIds, SkipCommand, CountCommand, tables
<1>2. \A r, c : Exists(r, c)' = Exists(r, c)
  BY <1>1 DEF Exists, Rows
<1>3. CASE (\E p \in Pages : GetCommandsStatistics(p)) \/ AddAndGetDateIds
  <2>1. UNCHANGED missed /\ web'.at \in {"dates", "names"}
    BY <1>3 DEF GetCommandsStatistics, AddAndGetDateIds
  <2>2. CountedRight'
    BY <1>1, <2>1, RightStays DEF UsageInv, CountedRight, Counting
  <2>3. web'.at = "names" => web'.days \subseteq DaysOf(web.range)'
    BY <1>3 DEF GetCommandsStatistics, AddAndGetDateIds, DaysOf
  <2> QED BY <1>1, <2>1, <2>2, <2>3 DEF UsageInv, DailyOK, Counting
<1>4. CASE GetAllCommandsIds
  <2>1. /\ web.at = "names" /\ UNCHANGED missed
        /\ web' = [at |-> "count", page |-> web.page, range |-> web.range, days |-> web.days,
                   toVisit |-> names, buffer |-> {}]
    BY <1>4 DEF GetAllCommandsIds
  <2>2. ASSUME NEW c \in Commands \ names PROVE Right(web.range, c, 0)'
    <3> DEFINE r == web.range
    <3>1. r' = r
      BY <2>1
    <3>2. UsedOn(DaysOf(r), c) = {}
      BY DEF UsedOn, UsageInv, DailyOK
    <3>3. Total([d \in {} |-> daily[d][c]]) = 0
      BY DEF Total
    <3>4. Usage(r, c) = 0
      BY <3>2, <3>3 DEF Usage, UsageOn
    <3> HIDE DEF r
    <3>5. Right(r, c, 0)'
      BY <1>1, <2>1, <3>1, <3>4, RightStays DEF Right
    <3> QED BY <3>5 DEF r
  <2>3. CountedRight'
    BY <1>1, <2>1, <2>2, RightStays DEF UsageInv, CountedRight, Counting
  <2>4. DailyOK'
    BY <1>1, <2>1 DEF UsageInv, DailyOK, DaysOf
  <2> QED BY <2>3, <2>4 DEF UsageInv
<1>5. ASSUME NEW c \in Commands, SkipCommand(c) PROVE UsageInv'
  <2>1. /\ web.at = "count" /\ Exists(web.range, c) /\ UNCHANGED missed
        /\ web' = [web EXCEPT !.toVisit = web.toVisit \ {c}]
    BY <1>5 DEF SkipCommand
  <2>2. web' = [at |-> "count", page |-> web.page, range |-> web.range, days |-> web.days,
                toVisit |-> web.toVisit \ {c}, buffer |-> web.buffer]
    BY <2>1 DEF IInv, WebOK, Counting
  <2>3. CountedRight'
    BY <1>1, <1>2, <2>1, <2>2, RightStays DEF UsageInv, CountedRight, Counting
  <2>4. DailyOK'
    BY <1>1, <2>1, <2>2 DEF UsageInv, DailyOK, DaysOf, Counting
  <2> QED BY <2>3, <2>4 DEF UsageInv
<1>6. ASSUME NEW c \in Commands, CountCommand(c) PROVE UsageInv'
  <2> DEFINE row == [range |-> web.range, command |-> c, summary |-> CommandSummary(c)]
             unseen == \E d \in DOMAIN daily \cap DaysOf(web.range) : d \notin web.days /\ daily[d][c] > 0
  <2>1. /\ web.at = "count" /\ c \in web.toVisit /\ ~ Exists(web.range, c)
        /\ missed' = IF unseen THEN missed \cup {<<web.range, c>>} ELSE missed \ {<<web.range, c>>}
    BY <1>6 DEF CountCommand
  <2>2. web' = [at |-> web'.at, page |-> web.page, range |-> web.range, days |-> web.days,
                toVisit |-> web.toVisit \ {c}, buffer |-> web.buffer \cup {row}] /\ web'.at \in Counting
    BY <1>6 DEF CountCommand, IInv, WebOK, Counting
  <2>3. row.range = web.range /\ row.command = c /\ row.summary = UsageOn(web.days, c)
    BY DEF CommandSummary
  <2> HIDE DEF row
  <2>4. Right(web.range, c, UsageOn(web.days, c))'
    <3> DEFINE r == web.range
               n == UsageOn(web.days, c)
    <3>1. CASE unseen
      BY <2>1, <2>2, <3>1 DEF Right
    <3>2. CASE ~ unseen
      <4>1. UsedOn(web.days, c) = UsedOn(DaysOf(r), c)
        BY <2>1, <3>2 DEF UsedOn, UsageInv, DailyOK, Counting
      <4>2. n = Usage(r, c)
        BY <4>1, SameDays DEF Usage
      <4>3. r' = r /\ n' = n
        <5>1. UNCHANGED <<daily, web.days, web.range>>
          BY <1>1, <2>2
        <5> QED BY <5>1 DEF UsageOn, UsedOn
      <4> HIDE DEF r, n
      <4>4. n' = Usage(r, c)'
        BY <1>1, <4>2, <4>3, UnchangedUsage
      <4>5. Right(r, c, n)'
        BY <4>4 DEF Right
      <4> QED BY <4>5 DEF r, n
    <3> QED BY <3>1, <3>2
  <2>5. row.summary' = row.summary
    BY <1>1, <2>2, <2>3 DEF row, CommandSummary, UsageOn, UsedOn
  <2>6. ASSUME NEW q, NEW k, NEW n, Right(q, k, n), q # web.range \/ k # c PROVE Right(q, k, n)'
    <3>1. Usage(q, k)' = Usage(q, k)
      BY <1>1, UnchangedUsage
    <3>2. <<q, k>> \in missed => <<q, k>> \in missed'
      BY <2>1, <2>6
    <3> QED BY <2>6, <3>1, <3>2 DEF Right
  <2>7. \A s \in summaries' : Right(s.range, s.command, s.summary)'
    BY <1>1, <2>1, <2>6 DEF UsageInv, CountedRight, Exists, Rows
  <2>8. ASSUME NEW s \in web.buffer PROVE Right(s.range, s.command, s.summary)'
    <3>1. s.command # c
      BY <2>1 DEF IInv, WebOK, BufferOK, Counting
    <3> QED BY <2>1, <2>6, <3>1 DEF UsageInv, CountedRight, Counting
  <2>9. Right(row.range, row.command, row.summary)'
    <3>1. PICK s : s = row
      OBVIOUS
    <3>2. UNCHANGED <<web.range, UsageOn(web.days, c)>>
      <4>1. UNCHANGED <<daily, web.days, web.range>>
        BY <1>1, <2>2
      <4> QED BY <4>1 DEF UsageOn, UsedOn
    <3>3. (s.range = web.range)' /\ (s.command = c) /\ (s.summary = UsageOn(web.days, c))'
      BY <2>3, <3>1, <3>2
    <3>4. Right(s.range, s.command, s.summary)'
      BY <2>4, <3>3 DEF Right
    <3>5. row' = row
      BY <3>2 DEF row, CommandSummary
    <3> QED BY <3>1, <3>4, <3>5
  <2>10. CountedRight'
    <3>1. \A s \in web'.buffer : Right(s.range, s.command, s.summary)'
      <4>1. row' = row
        BY <1>1, <2>2 DEF row, CommandSummary, UsageOn, UsedOn
      <4> QED BY <2>2, <2>8, <2>9, <4>1
    <3>2. ASSUME NEW k \in Commands \ web'.toVisit
          PROVE  \/ Exists(web.range, k)' \/ \E s \in web'.buffer : s.command = k
                 \/ Right(web.range, k, 0)'
      <4>1. CASE k = c
        BY <2>2, <2>3, <4>1
      <4>2. CASE k # c
        BY <1>2, <2>1, <2>2, <2>6, <4>2 DEF UsageInv, CountedRight, Counting
      <4> QED BY <4>1, <4>2
    <3> QED BY <2>2, <2>7, <3>1, <3>2 DEF CountedRight, Counting
  <2>11. DailyOK'
    BY <1>1, <2>1, <2>2 DEF UsageInv, DailyOK, DaysOf, Counting
  <2> QED BY <2>10, <2>11 DEF UsageInv
<1> QED BY <1>3, <1>4, <1>5, <1>6

LEMMA UsageWrite == ASSUME IInv, UsageInv, AddFullBuffer \/ AddRest PROVE UsageInv'
<1>1. /\ web.at \in Counting /\ summaries' = summaries \cup web.buffer
      /\ UNCHANGED <<names, daily, missed>>
  BY DEF AddFullBuffer, AddRest, Counting
<1>2. /\ web = [at |-> web.at, page |-> web.page, range |-> web.range, days |-> web.days,
                toVisit |-> web.toVisit, buffer |-> web.buffer]
      /\ \A s \in web.buffer : s.range = web.range
  BY <1>1 DEF IInv, WebOK, BufferOK
<1>3. \/ web' = [at |-> "count", page |-> web.page, range |-> web.range, days |-> web.days,
                 toVisit |-> web.toVisit, buffer |-> {}]
      \/ web' = [at |-> "read", page |-> web.page, range |-> web.range] /\ web.toVisit = {}
  <2>1. CASE AddFullBuffer
    BY <1>2, <2>1 DEF AddFullBuffer
  <2>2. CASE AddRest
    BY <2>2 DEF AddRest
  <2> QED BY <2>1, <2>2
<1>4. \A s \in summaries' : Right(s.range, s.command, s.summary)'
  BY <1>1, RightStays DEF UsageInv, CountedRight
<1>5. ASSUME NEW c \in Commands \ web.toVisit
      PROVE  Exists(web.range, c)' \/ Right(web.range, c, 0)'
  <2>1. web'.range = web.range
    BY <1>3
  <2>2. CASE Exists(web.range, c) \/ \E s \in web.buffer : s.command = c
    BY <1>1, <1>2, <2>1, <2>2 DEF Exists, Rows
  <2>3. CASE Right(web.range, c, 0)
    BY <1>1, <2>1, <2>3, RightStays DEF Right
  <2> QED BY <1>1, <2>2, <2>3 DEF UsageInv, CountedRight
<1>6. CountedRight'
  BY <1>3, <1>4, <1>5 DEF CountedRight, Counting
<1>7. DailyOK'
  BY <1>1, <1>3 DEF UsageInv, DailyOK, DaysOf, Counting
<1> QED BY <1>6, <1>7 DEF UsageInv

\* The steps that leave the summaries alone and do not count.
LEMMA UsageRests ==
    ASSUME UsageInv, UNCHANGED <<names, daily, summaries, missed>>,
           web'.at \notin {"names", "read"} \cup Counting
    PROVE  UsageInv'
BY RightStays DEF UsageInv, CountedRight, DailyOK

LEMMA UsageInit == Init => UsageInv
BY DEF Init, UsageInv, CountedRight, DailyOK, Idle, Counting

LEMMA UsageInductive == IInv /\ UsageInv /\ [Next]_vars => UsageInv'
<1> SUFFICES ASSUME IInv, UsageInv, [Next]_vars PROVE UsageInv'
  OBVIOUS
<1>1. CASE UNCHANGED vars
  <2>1. UNCHANGED <<names, daily, summaries, web, missed>>
    BY <1>1 DEF vars, tables
  <2>2. \A r, c : Exists(r, c)' = Exists(r, c)
    BY <2>1 DEF Exists, Rows
  <2> QED BY <2>1, <2>2, RightStays DEF UsageInv, CountedRight, DailyOK, DaysOf
<1>2. CASE \E p \in Pages, r \in Ranges : GetConfigurations(p, r) \/ NoAnswer(p, r)
  BY <1>2, UsageRests DEF GetConfigurations, NoAnswer, tables, Counting
<1>3. CASE ReadSummaries \/ Crash \/ AnalyzerThrows
  BY <1>3, UsageRests DEF ReadSummaries, Crash, AnalyzerThrows, Down, Idle, tables, Counting
<1>4. CASE (\E p \in Pages : SaveConfiguration(p)) \/ RemoveConfiguration \/ RemoveCommands \/ Remove
  <2>1. ASSUME NEW p \in Pages, SaveConfiguration(p) PROVE UsageInv'
    <3>1. /\ UNCHANGED <<names, daily, summaries, missed>>
          /\ web' = [at |-> "insert", page |-> p]
      BY <2>1 DEF SaveConfiguration, tables
    <3>2. web'.at = "insert"
      BY <3>1
    <3>3. web'.at \notin {"names", "read"} \cup Counting
      BY <3>2 DEF Counting
    <3> QED BY <3>1, <3>3, UsageRests
  <2>2. CASE RemoveConfiguration
    BY <2>2, UsageRests DEF RemoveConfiguration, tables, Counting
  <2>3. CASE RemoveCommands
    BY <2>3, UsageRests DEF RemoveCommands, Counting
  <2>4. CASE Remove
    BY <2>4, UsageRests DEF Remove, Idle, Counting
  <2> QED BY <1>4, <2>1, <2>2, <2>3, <2>4
<1>5. CASE AddDefaultCommands
  <2>1. UNCHANGED <<names, daily, summaries, missed>> /\ web' = Idle
    BY <1>5 DEF AddDefaultCommands
  <2> QED BY <2>1, UsageRests DEF Idle, Counting
<1>6. CASE AddAnomalyDetectionConfiguration \/ RemoveAllCommands
  <2>1. web'.at \in {"clear", "defaults"}
    BY <1>6 DEF AddAnomalyDetectionConfiguration, RemoveAllCommands, IInv, WebOK, Saving
  <2> QED BY <1>6, <2>1, UsageRests DEF AddAnomalyDetectionConfiguration, RemoveAllCommands, Counting
<1>7. CASE Next
  BY <1>2, <1>3, <1>4, <1>5, <1>6, <1>7, UsageOthers, UsageCount, UsageWrite DEF Next
<1> QED BY <1>1, <1>7

\* Only the reply makes a page show something.
LEMMA ShownIsRight ==
    ASSUME IInv, UsageInv, [Next]_vars, NEW p \in Pages, page'[p].at = "shown", page[p].at # "shown",
           NEW c \in Commands
    PROVE  page'[p].usage[c] = Usage(page'[p].range, c) \/ <<page'[p].range, c>> \in missed
<1>1. ReadSummaries
  <2>1. page' # page
    OBVIOUS
  <2>2. ~ (\E q \in Pages, r \in Ranges : GetConfigurations(q, r) \/ NoAnswer(q, r))
    BY DEF GetConfigurations, NoAnswer, Show, Failed, IInv, PageOK
  <2>3. ~ AddDefaultCommands
    BY DEF AddDefaultCommands, Show, NoPage, IInv, PageOK
  <2>4. ~ (Crash \/ AnalyzerThrows)
    BY DEF Crash, AnalyzerThrows, Down, Failed, NoPage
  <2>5. ~ UNCHANGED vars
    BY <2>1 DEF vars
  <2>6. Next
    BY <2>5
  <2> QED BY <2>1, <2>2, <2>3, <2>4, <2>6 DEF Next, AddDate, AddDailyStatistics, AddCommand, SkipCommand, CountCommand,
          GetCommandsStatistics, SaveConfiguration, AddAndGetDateIds, GetAllCommandsIds, AddFullBuffer,
          AddRest, AddAnomalyDetectionConfiguration, RemoveAllCommands, RemoveConfiguration,
          RemoveCommands, Remove
<1> DEFINE usage == [k \in Commands |-> IF Exists(web.range, k) THEN SummaryOf(web.range, k) ELSE 0]
<1>2. /\ web.at = "read"
      /\ page' = [page EXCEPT ![web.page] = [at |-> "shown", range |-> web.range, usage |-> usage]]
  BY <1>1 DEF ReadSummaries, Show, Shown
<1> HIDE DEF usage
<1>3. page'[p].range = web.range /\ page'[p].usage = usage
  BY <1>2 DEF IInv, PageOK
<1>4. CASE Exists(web.range, c)
  <2>1. PICK s \in summaries : s.range = web.range /\ s.command = c /\ s.summary = SummaryOf(web.range, c)
    BY <1>4, RowOfSummary DEF IInv
  <2>2. usage[c] = s.summary
    BY <1>4, <2>1 DEF usage
  <2> QED BY <1>3, <2>1, <2>2 DEF UsageInv, CountedRight, Right
<1>5. CASE ~ Exists(web.range, c)
  <2>1. usage[c] = 0
    BY <1>5 DEF usage
  <2> QED BY <1>2, <1>3, <1>5, <2>1 DEF UsageInv, CountedRight, Right
<1> QED BY <1>4, <1>5

\* A page shows what the daily statistics count, for any ranges, pages, crashes and size of
\* the buffer, but for the usage that was noted as missed.
THEOREM ShownIsUsage == Spec => PreviewShowsUsage
<1>1. IInv /\ UsageInv /\ [Next]_vars =>
        [\A p \in Pages : page'[p].at = "shown" /\ page[p].at # "shown" =>
            \A c \in Commands :
               \/ page'[p].usage[c] = Usage(page'[p].range, c)
               \/ <<page'[p].range, c>> \in missed]_vars
  BY ShownIsRight
<1>2. Spec => []UsageInv
  <2>1. Spec => [][Next]_vars /\ UsageInv
    BY UsageInit DEF Spec
  <2> QED BY <2>1, UsageInductive, Invariance, PTL
<1> QED BY <1>1, <1>2, Invariance, PTL DEF Spec, PreviewShowsUsage
=============================================================================
