----------------------------- MODULE LogLedger -----------------------------
(***************************************************************************)
(* What the server promises about the entries the agents send, seen from   *)
(* the callers and from the database file.  The AddLogEntry call of an     *)
(* entry is made once, and for an Apache entry it is answered only when    *)
(* the entry is in the file; a shell entry may be answered and lost.  In   *)
(* the file an entry is absent, then stored; an Apache entry is then       *)
(* claimed by an analysis (USED_IN_STATISTICS = 1) and counted in a saved  *)
(* session; and it never goes back.  A commit may store and claim entries  *)
(* at once, but entries are counted only by a later commit than the one    *)
(* claiming them.  A crash leaves the file as it is: it is a stuttering    *)
(* step here, after which an interrupted call may have stored its entry    *)
(* and gets no answer.                                                     *)
(***************************************************************************)
CONSTANTS
    Logs,      \* Apache log entries
    ShellLogs  \* shell entries

AllEntries == Logs \cup ShellLogs

VARIABLES
    ledger,    \* where each entry is in the file
    called,    \* the entries the server was called with
    answered   \* the entries whose call was answered

ledgerVars == <<ledger, called, answered>>

States == {"absent", "stored", "claimed", "counted"}

LedgerInit == ledger = [l \in AllEntries |-> "absent"] /\ called = {} /\ answered = {}

In(state) == {l \in AllEntries : ledger[l] = state}

Call(l) ==
    /\ l \notin called /\ called' = called \cup {l}
    /\ UNCHANGED <<ledger, answered>>

\* One commit stores the entries S and marks the entries C as used.
StoreAndClaim(S, C) ==
    /\ S \subseteq In("absent") \cap called
    /\ C \subseteq (In("stored") \cup S) \cap Logs
    /\ ledger' = [l \in AllEntries |-> IF l \in C THEN "claimed"
                                    ELSE IF l \in S THEN "stored" ELSE ledger[l]]
    /\ UNCHANGED <<called, answered>>

\* One commit saves the sessions that count the entries S, and stores the shell entries
\* T that joined its transaction.
Count(S, T) ==
    /\ S \subseteq In("claimed")
    /\ T \subseteq In("absent") \cap called \cap ShellLogs
    /\ ledger' = [l \in AllEntries |-> IF l \in S THEN "counted"
                                    ELSE IF l \in T THEN "stored" ELSE ledger[l]]
    /\ UNCHANGED <<called, answered>>

Answer(l) ==
    /\ l \in called /\ (l \in Logs => ledger[l] # "absent")
    /\ answered' = answered \cup {l}
    /\ UNCHANGED <<ledger, called>>

LedgerNext ==
    \/ \E l \in AllEntries : Call(l) \/ Answer(l)
    \/ \E S \in SUBSET AllEntries, C \in SUBSET Logs : StoreAndClaim(S, C)
    \/ \E S \in SUBSET Logs, T \in SUBSET ShellLogs : Count(S, T)

LedgerSpec == LedgerInit /\ [][LedgerNext]_ledgerVars
=============================================================================
