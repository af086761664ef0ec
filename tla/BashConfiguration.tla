------------------------- MODULE BashConfiguration -------------------------
(***************************************************************************)
(* How the web user chooses what the network of an agent is trained on.    *)
(* A page shows the commands used in a range of days (the commands         *)
(* bash.get_anomaly_detection_configurations and bash.get_commands_        *)
(* statistics), and its form saves the range as the agent's configuration  *)
(* with the commands used most (bash.save_anomaly_detection_configuration).*)
(* What a range of days sums up to is calculated once and kept for good,   *)
(* while the main thread adds days and commands and the analyzer thread    *)
(* adds the daily statistics.                                              *)
(*                                                                         *)
(* The web thread executes one command after the other, each a sequence of *)
(* statements; the pages of several users are open at a time.  Everything  *)
(* is about one agent: rows of different agents never meet.  A day is its  *)
(* own id in DATE_TABLE.  What the user selects by hand afterwards, and    *)
(* the learning set, are in BashTraining.                                  *)
(***************************************************************************)
EXTENDS Integers, FiniteSets, Functions

CONSTANTS
    Pages,        \* windows of the web users
    Ranges,       \* ranges of days they ask for: [begin, end]
    Commands,
    Counts,       \* bound: what a day may count of a command
    BufferSize,   \* capacity of statistics in CalculateCommandStatistics (500)
    MaxSelected,  \* limit of AddDefaultCommandsToConfiguration (100)
    MaxDay,       \* bound: days
    MaxCrashes    \* bound: ends of the process that the system did not cause

Days == 1..MaxDay
NoDate == -1      \* GetDateId of a date that is not in DATE_TABLE

ASSUME ConfigurationAssumption ==
    /\ MaxDay \in Nat /\ Ranges \subseteq [begin : Days, end : Days]
    /\ Counts \subseteq Nat /\ IsFiniteSet(Commands)
    /\ BufferSize \in Nat \ {0} /\ MaxSelected \in Nat \ {0} /\ MaxCrashes \in Nat

VARIABLES
    dates,      \* DATE_TABLE
    names,      \* BASH_COMMAND_TABLE
    daily,      \* BASH_DAILY_STATISTICS_TABLE: the counts of the days that have rows
    summaries,  \* BASH_DATE_RANGE_COMMANDS_STATISTICS_TABLE: [range, command, summary]
    config,     \* the row of BASH_ANOMALY_DETECTION_CONFIGURATION_TABLE
    selected,   \* BASH_SELECTED_COMMANDS_TABLE
    page,       \* what each window shows
    web,        \* what the web thread does next, and its local variables
    crashes,
    missed      \* history: <<range, command>> counted without some of its usage

tables == <<dates, names, daily, summaries, config, selected>>
vars == <<tables, page, web, crashes, missed>>

NoConfig == [set |-> FALSE]
NoPage == [at |-> "none"]
Idle == [at |-> "idle"]
NoUsage == [c \in Commands |-> 0]

DaysOf(r) == r.begin..r.end

\* sum(SUMMARY): the NULL of no rows is read as 0.
Total(counts) == IF DOMAIN counts = {} THEN 0 ELSE FoldFunction(+, 0, counts)

\* What the daily statistics of the days D count of a command.  Rows of 0 add nothing.
UsedOn(D, c) == {d \in D \cap DOMAIN daily : daily[d][c] > 0}
UsageOn(D, c) == Total([d \in UsedOn(D, c) |-> daily[d][c]])
Usage(r, c) == UsageOn(DaysOf(r), c)

Rows(r) == {s \in summaries : s.range = r}
SummaryOf(r, c) == (CHOOSE s \in Rows(r) : s.command = c).summary
Exists(r, c) == \E s \in Rows(r) : s.command = c

Init ==
    /\ dates = {} /\ names = {} /\ daily = <<>>
    /\ summaries = {} /\ config = NoConfig /\ selected = {}
    /\ page = [p \in Pages |-> NoPage] /\ web = Idle
    /\ crashes = 0 /\ missed = {}

-----------------------------------------------------------------------------
(* The other threads.                                                      *)

\* The main thread, for an entry of the agent.
AddDate(d) ==
    /\ dates' = dates \cup {d}
    /\ UNCHANGED <<names, daily, summaries, config, selected, page, web, crashes, missed>>

AddCommand(c) ==
    /\ names' = names \cup {c}
    /\ UNCHANGED <<dates, daily, summaries, config, selected, page, web, crashes, missed>>

\* The command of the range is counted, or a running calculation does not know it.
IsCounted(r, c) ==
    \/ Exists(r, c)
    \/ web.at \in {"count", "full"} /\ web.range = r /\ c \notin web.toVisit
    \/ web.at = "read" /\ web.range = r

\* The analyzer thread, CreateDailySystemStatistics: a day gets its rows once, one for
\* each command there is.
AddDailyStatistics(d) ==
    /\ d \in dates \ DOMAIN daily
    /\ \E counts \in [Commands -> Counts \cup {0}] :
         /\ \A c \in Commands \ names : counts[c] = 0
         /\ daily' = [e \in DOMAIN daily \cup {d} |-> IF e = d THEN counts ELSE daily[e]]
         /\ missed' = missed \cup
              {m \in Ranges \X Commands :
                 d \in DaysOf(m[1]) /\ counts[m[2]] > 0 /\ IsCounted(m[1], m[2])}
    /\ UNCHANGED <<dates, names, summaries, config, selected, page, web, crashes>>

-----------------------------------------------------------------------------
(* GetDateById throws for the id of a configuration that is not there.     *)

Listable == config.set => config.begin # NoDate /\ config.end # NoDate

Show(p, what) == page' = [page EXCEPT ![p] = what]

\* The answer to the last command of a page; after an error the form is there all the
\* same, with the range in it.
Failed(r) == [at |-> "failed", range |-> r]
Shown(r, usage) == [at |-> "shown", range |-> r, usage |-> usage]

\* configure_anomaly_detection_select_date_range: the first command.
GetConfigurations(p, r) ==
    /\ web.at = "idle" /\ page[p].at # "listed"
    /\ Show(p, IF Listable THEN [at |-> "listed", range |-> r] ELSE Failed(r))
    /\ UNCHANGED <<tables, web, crashes, missed>>

\* The second command: GetCommandsStatistics.
GetCommandsStatistics(p) ==
    /\ web.at = "idle" /\ page[p].at = "listed"
    /\ web' = [at |-> "dates", page |-> p, range |-> page[p].range]
    /\ UNCHANGED <<tables, page, crashes, missed>>

\* A defect: GetDateId instead of AddAndGetDateId.
GetDateIds ==
    /\ web.at = "dates"
    /\ web' = [at |-> "names", page |-> web.page, range |-> web.range, days |-> dates \cap DaysOf(web.range)]
    /\ UNCHANGED <<tables, page, crashes, missed>>

\* AddAndGetDateId of both ends, then GetDateRangeIds: the days known by now.
AddAndGetDateIds ==
    /\ web.at = "dates"
    /\ dates' = dates \cup {web.range.begin, web.range.end}
    /\ web' = [at |-> "names", page |-> web.page, range |-> web.range, days |-> dates' \cap DaysOf(web.range)]
    /\ UNCHANGED <<names, daily, summaries, config, selected, page, crashes, missed>>

GetAllCommandsIds ==
    /\ web.at = "names"
    /\ web' = [at |-> "count", page |-> web.page, range |-> web.range, days |-> web.days,
               toVisit |-> names, buffer |-> {}]
    /\ UNCHANGED <<tables, page, crashes, missed>>

\* IsCommandStatisticExist: only this thread adds summaries.
SkipCommand(c) ==
    /\ web.at = "count" /\ c \in web.toVisit /\ Exists(web.range, c)
    /\ web' = [web EXCEPT !.toVisit = @ \ {c}]
    /\ UNCHANGED <<tables, page, crashes, missed>>

\* A defect: the last day of the range is left out.
SummaryWithoutEnd(c) == UsageOn(web.days \ {web.range.end}, c)

CommandSummary(c) == UsageOn(web.days, c)

CountCommand(c) ==
    /\ web.at = "count" /\ c \in web.toVisit /\ ~ Exists(web.range, c)
    /\ LET row == [range |-> web.range, command |-> c, summary |-> CommandSummary(c)]
           buffer == web.buffer \cup {row}
       IN web' = [web EXCEPT !.toVisit = @ \ {c}, !.buffer = buffer,
                             !.at = IF Cardinality(buffer) = BufferSize THEN "full" ELSE "count"]
    /\ missed' = IF \E d \in DOMAIN daily \cap DaysOf(web.range) : d \notin web.days /\ daily[d][c] > 0
                 THEN missed \cup {<<web.range, c>>} ELSE missed \ {<<web.range, c>>}
    /\ UNCHANGED <<tables, page, crashes>>

\* AddCommandsStatistics is one Exec: begin, insert or ignore, end.
AddFullBuffer ==
    /\ web.at = "full"
    /\ summaries' = summaries \cup web.buffer
    /\ web' = [web EXCEPT !.at = "count", !.buffer = {}]
    /\ UNCHANGED <<dates, names, daily, config, selected, page, crashes, missed>>

AddRest ==
    /\ web.at = "count" /\ web.toVisit = {}
    /\ summaries' = summaries \cup web.buffer
    /\ web' = [at |-> "read", page |-> web.page, range |-> web.range]
    /\ UNCHANGED <<dates, names, daily, config, selected, page, crashes, missed>>

\* GetCommandsStatistics: the rows of the range that are not 0, and the reply.
ReadSummaries ==
    /\ web.at = "read"
    /\ Show(web.page, Shown(web.range, [c \in Commands |->
                        IF Exists(web.range, c) THEN SummaryOf(web.range, c) ELSE 0]))
    /\ web' = Idle
    /\ UNCHANGED <<tables, crashes, missed>>

-----------------------------------------------------------------------------
(* configure_anomaly_detection_save_configuration: WebScripts::            *)
(* SaveConfiguration.  The form sends the range the page shows.            *)

DateId(d) == IF d \in dates THEN d ELSE NoDate

SaveConfiguration(p) ==
    /\ web.at = "idle" /\ page[p].at \in {"shown", "failed"}
    /\ web' = [at |-> "insert", page |-> p]
    /\ UNCHANGED <<tables, page, crashes, missed>>

\* "insert or replace".  blind, usage and full are history: the page that was saved showed
\* no commands, or these; and whether the commands were selected.
AddAnomalyDetectionConfiguration ==
    /\ web.at = "insert"
    /\ LET from == page[web.page]
           blind == from.at = "failed"
       IN config' = [set |-> TRUE, begin |-> DateId(from.range.begin), end |-> DateId(from.range.end),
                     blind |-> blind, usage |-> IF blind THEN NoUsage ELSE from.usage, full |-> FALSE]
    /\ web' = [web EXCEPT !.at = "clear"]
    /\ UNCHANGED <<dates, names, daily, summaries, selected, page, crashes, missed>>

RemoveAllCommands ==
    /\ web.at = "clear"
    /\ selected' = {}
    /\ web' = [web EXCEPT !.at = "defaults"]
    /\ UNCHANGED <<dates, names, daily, summaries, config, page, crashes, missed>>

\* The summaries the join finds: those of the dates of the configuration.
Candidates == {s \in summaries : s.range = [begin |-> config.begin, end |-> config.end]}

\* A defect: no "desc".
Lowest(S) ==
    /\ S \subseteq Candidates
    /\ \A s \in S, t \in Candidates \ S : s.summary <= t.summary

\* "order by SUMMARY desc"
Highest(S) ==
    /\ S \subseteq Candidates
    /\ \A s \in S, t \in Candidates \ S : s.summary >= t.summary

AddDefaultCommands ==
    /\ web.at = "defaults"
    /\ \E S \in SUBSET Candidates :
         /\ Highest(S)
         /\ Cardinality(S) = IF Cardinality(Candidates) < MaxSelected
                             THEN Cardinality(Candidates) ELSE MaxSelected
         /\ selected' = {s.command : s \in S}
    /\ config' = [config EXCEPT !.full = TRUE]
    /\ Show(web.page, NoPage)
    /\ web' = Idle
    /\ UNCHANGED <<dates, names, daily, summaries, crashes, missed>>

\* The status page, which may have been opened long ago:
\* bash.remove_anomaly_detection_configuration.
RemoveConfiguration ==
    /\ web.at = "idle" /\ config.set
    /\ web' = [at |-> "remove commands"]
    /\ UNCHANGED <<tables, page, crashes, missed>>

RemoveCommands ==
    /\ web.at = "remove commands"
    /\ selected' = {} /\ config' = [config EXCEPT !.full = FALSE]
    /\ web' = [at |-> "remove"]
    /\ UNCHANGED <<dates, names, daily, summaries, page, crashes, missed>>

Remove ==
    /\ web.at = "remove"
    /\ config' = NoConfig
    /\ web' = Idle
    /\ UNCHANGED <<dates, names, daily, summaries, selected, page, crashes, missed>>

-----------------------------------------------------------------------------
(* The end of the process: a signal, an exception the web thread does not  *)
(* catch, or GetDateById in the analyzer thread (NetworkTrainer::Train,    *)
(* Classificator::Analyze).  A page that waits for an answer fails.        *)

Down ==
    /\ web' = Idle
    /\ page' = [p \in Pages |->
                  IF page[p].at = "listed" THEN Failed(page[p].range)
                  ELSE IF web.at \in {"insert", "clear", "defaults"} /\ web.page = p THEN NoPage
                  ELSE page[p]]
    /\ UNCHANGED <<tables, missed>>

Crash ==
    /\ crashes < MaxCrashes /\ crashes' = crashes + 1
    /\ Down

\* Not counted: it ends the process again after each start, while the configuration stays.
AnalyzerThrows ==
    /\ ~ Listable
    /\ Down
    /\ UNCHANGED crashes

\* A page opened while the server is down.
NoAnswer(p, r) ==
    /\ web.at = "idle" /\ page[p].at # "listed"
    /\ crashes < MaxCrashes /\ crashes' = crashes + 1
    /\ Show(p, Failed(r))
    /\ UNCHANGED <<tables, web, missed>>

Next ==
    \/ \E d \in Days : AddDate(d) \/ AddDailyStatistics(d)
    \/ \E c \in Commands : AddCommand(c) \/ SkipCommand(c) \/ CountCommand(c)
    \/ \E p \in Pages : GetCommandsStatistics(p) \/ SaveConfiguration(p)
    \/ \E p \in Pages, r \in Ranges : GetConfigurations(p, r) \/ NoAnswer(p, r)
    \/ AddAndGetDateIds \/ GetAllCommandsIds \/ AddFullBuffer \/ AddRest \/ ReadSummaries
    \/ AddAnomalyDetectionConfiguration \/ RemoveAllCommands \/ AddDefaultCommands
    \/ RemoveConfiguration \/ RemoveCommands \/ Remove
    \/ Crash \/ AnalyzerThrows

Spec == Init /\ [][Next]_vars

-----------------------------------------------------------------------------
RangeIds == [begin : Days, end : Days]

(* The variables have their types, and the table of the summaries has one  *)
(* row for a range and a command.                                          *)
TypeOK ==
    /\ dates \subseteq Days /\ names \subseteq Commands
    /\ DOMAIN daily \subseteq dates
    /\ \A s \in summaries : s.range \in Ranges /\ s.command \in names
    /\ \A s, t \in summaries : s.range = t.range /\ s.command = t.command => s = t
    /\ selected \subseteq names
    /\ config.set => config.begin \in dates \cup {NoDate} /\ config.end \in dates \cup {NoDate}
    /\ \A p \in Pages : page[p].at # "none" => page[p].range \in Ranges
    /\ web.at = "count" => Cardinality(web.buffer) < BufferSize
    /\ crashes \in 0..MaxCrashes /\ missed \subseteq Ranges \X Commands

(* A page shows every command used on the days it asked for with the sum   *)
(* of its daily statistics, though the summaries are written in parts, a   *)
(* crash may leave some, and days and commands are added while they are    *)
(* calculated; but what came after a command was counted for the range     *)
(* once is never seen again.                                               *)
PreviewShowsUsage ==
    [][\A p \in Pages : page'[p].at = "shown" /\ page[p].at # "shown" =>
          \A c \in Commands :
             \/ page'[p].usage[c] = Usage(page'[p].range, c)
             \/ <<page'[p].range, c>> \in missed]_vars

(* The configuration saved from a page has the commands the page showed,   *)
(* up to the limit, and prefers those used most: another page may fill the *)
(* summaries between the two, and the range is looked up again by its ids. *)
DefaultsCoverPreview ==
    config.set /\ config.full =>
        \A c \in Commands \ selected : config.usage[c] > 0 =>
            /\ Cardinality(selected) = MaxSelected
            /\ \A k \in selected :
                  SummaryOf([begin |-> config.begin, end |-> config.end], k) >= config.usage[c]

(* The configurations can be listed, and the analyzer lives, unless a page *)
(* was saved that had got no answer: calculating the preview puts both     *)
(* dates into the table that the configuration refers to.                  *)
ConfigurationsListable == ~ Listable => config.blind
=============================================================================
