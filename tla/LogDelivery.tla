---------------------------- MODULE LogDelivery ----------------------------
(***************************************************************************)
(* slas-agent and slas-server joined by the D-Bus daemon: the way of a log *)
(* entry from the program that wrote it to the database file.  The agent   *)
(* is AgentForwarder; the server is LogLedger, which ServerDatabase        *)
(* implements with its threads, faults and crashes.                        *)
(*                                                                         *)
(* The agent sends a call, blocks for its reply and takes the next command *)
(* when the reply has come or the call has failed.  A call that failed may *)
(* have been lost, may still wait at the server, or may have been obeyed   *)
(* by a server whose reply came too late or not at all; nobody repeats it. *)
(***************************************************************************)
EXTENDS AgentForwarder

VARIABLES
    bus,       \* calls on their way to the server's connection, in order
    waiting,   \* dbus: does the thread block in dbus_pending_call_block
    ledger, called, answered  \* the server, see LogLedger

ApacheEntries == {e \in Entries : SourceOf[e] = "apache"}
BashEntries == {e \in Entries : SourceOf[e] = "bash"}

Server == INSTANCE LogLedger WITH Logs <- ApacheEntries, ShellLogs <- BashEntries

serverVars == <<ledger, called, answered>>
deliveryVars == <<vars, bus, waiting, serverVars>>

DeliveryInit == Init /\ bus = <<>> /\ waiting = FALSE /\ Server!LedgerInit

\* A step of the agent that needs no server.
AgentStep == LocalNext /\ UNCHANGED <<bus, waiting, serverVars>>

\* Bus::SendMessage queues the call and flushes the connection, then the thread blocks.
SendMessage ==
    /\ At("dbus", "execute") /\ ~waiting
    /\ bus' = Append(bus, command) /\ waiting' = TRUE
    /\ UNCHANGED <<vars, serverVars>>

SendThrows == ~waiting /\ ExecuteThrows /\ UNCHANGED <<bus, waiting, serverVars>>

\* Bus::Loop takes the next call and an object's OwnMessageHandler begins with it.
TakeCall ==
    /\ bus # <<>> /\ bus' = Tail(bus)
    /\ Server!Call(Head(bus))
    /\ UNCHANGED <<vars, waiting>>

\* The handlers and the analyses work on the database, and the handlers reply.
ServerStep ==
    /\ \/ \E S \in SUBSET Entries, C \in SUBSET ApacheEntries : Server!StoreAndClaim(S, C)
       \/ \E S \in SUBSET ApacheEntries, T \in SUBSET BashEntries : Server!Count(S, T)
       \/ \E e \in Entries : Server!Answer(e)
    /\ UNCHANGED <<vars, bus, waiting>>

\* The server's connection is closed, or was when the call came: what waits there is lost.
LoseCalls ==
    /\ bus # <<>> /\ bus' = <<>>
    /\ UNCHANGED <<vars, waiting, serverVars>>

\* A defect: the reply of a call that timed out is taken for the one waited for.
AnyReply ==
    /\ waiting /\ waiting' = FALSE
    /\ \/ answered # {} /\ ReplyReceived
       \/ NoReply
    /\ UNCHANGED <<bus, serverVars>>

\* dbus_pending_call_block returns with the reply; or without one, whether the call is
\* still on its way or done, because 25 seconds passed or the server is gone.
Return ==
    /\ waiting /\ waiting' = FALSE
    /\ \/ command \in answered /\ ReplyReceived
       \/ NoReply
    /\ UNCHANGED <<bus, serverVars>>

DeliveryNext ==
    \/ AgentStep \/ SendMessage \/ SendThrows \/ Return
    \/ TakeCall \/ ServerStep \/ LoseCalls

DeliverySpec == DeliveryInit /\ [][DeliveryNext]_deliveryVars

-----------------------------------------------------------------------------
(***************************************************************************)
(* Properties.                                                             *)
(***************************************************************************)
Stored == {e \in Entries : ledger[e] # "absent"}

\* The server is called with an entry at most once, although calls fail while they are
\* under way: no call is on its way twice, nor one that was taken before.  ServerDatabase
\* and LogLedger assume it.
CalledOnce ==
    /\ \A i, j \in DOMAIN bus : bus[i] = bus[j] => i = j
    /\ Contents(bus) \cap called = {}

\* The server takes the calls for the entries of one source in the order the entries were
\* sent, also those whose failure let the agent go on while they were under way.
CallsInOrder ==
    [][\A e \in called' \ called, f \in called :
         SourceOf[e] = SourceOf[f] =>
            \E k, m \in DOMAIN offered : k < m /\ offered[k] = f /\ offered[m] = e]_deliveryVars

\* An entry sent is in the file, still in the agent, or among the losses the agent knows
\* of: a failed call or a malformed line.  The exception: a shell entry that was answered.
LossesKnown ==
    \A e \in Contents(offered) :
        e \in Stored \cup failed \cup dropped \cup Held
            \cup Contents(backlog["apache"]) \cup Contents(backlog["bash"]) \cup Contents(commands)
        \/ e \in answered \cap BashEntries
=============================================================================
