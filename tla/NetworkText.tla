---------------------------- MODULE NetworkText ----------------------------
(***************************************************************************)
(* Texts over stream sockets.  Network::SendText cuts a text into messages *)
(* of a length byte, a type ('M' more, 'L' last) and the text's bytes;     *)
(* Network::ReceiveText puts it together again from whatever the reads     *)
(* return.  The web pages have their own Python version of both.           *)
(*                                                                         *)
(* A path is who talks to whom:                                            *)
(*   "unix"      bash or apache_helper to an agent's receiver, C++ to C++  *)
(*   "request"   a web page to the server's CommandReceiver, Python to C++ *)
(*   "response"  the server's answer, C++ to Python                        *)
(***************************************************************************)
EXTENDS Naturals, SequencesExt

CONSTANTS
    Paths,             \* the paths considered
    Texts,             \* the texts sent, sequences of bytes
    MaxByte,           \* the largest value of a byte
    MaxMessageLength,  \* bytes of a message, its type included
    BufferLength,      \* bytes of the receiver's buffer
    TypeM, TypeL       \* the bytes 'M' and 'L'

Bytes == 0..MaxByte

ASSUME NetworkAssumption ==
    /\ Paths \subseteq {"unix", "request", "response"}
    /\ MaxByte \in Nat /\ MaxMessageLength \in 2..MaxByte /\ BufferLength \in Nat
    /\ MaxByte <= BufferLength
    /\ TypeM \in Bytes \ {0} /\ TypeL \in Bytes \ {0, TypeM}
    /\ Texts \subseteq Seq(Bytes \ {0})

VARIABLES
    path, text,        \* fixed by SocketInit
    offset,            \* SendText: i
    sendPc,            \* "length", "body", "sent", "closed" or "failed"
    sent,              \* SendMessage: sent
    channel,           \* bytes sent and not yet read
    open,              \* the sender has not closed the connection
    recvPc,            \* "length", "body", "message", "done" or "failed"
    length,            \* RecvMessage: message_length
    total,             \* RecvMessage: total, which counts the length byte too
    message,           \* RecvMessage: message
    collected          \* receive_text_buffer

senderVars == <<path, text, offset, sendPc, sent, open>>
receiverVars == <<recvPc, length, total, message, collected>>
socketVars == <<senderVars, channel, receiverVars>>

SocketInit ==
    /\ path \in Paths /\ text \in Texts
    /\ offset = 0 /\ sent = 0 /\ channel = <<>> /\ open = TRUE
    /\ sendPc = IF text = <<>> THEN "sent" ELSE "length"
    /\ recvPc = "length" /\ length = 0 /\ total = 0 /\ message = <<>> /\ collected = <<>>

-----------------------------------------------------------------------------
(***************************************************************************)
(* SendText and SendMessage.                                               *)
(***************************************************************************)

\* A defect: every message is the last.
AllLast ==
    IF offset + MaxMessageLength <= Len(text)
    THEN <<TypeL>> \o SubSeq(text, offset + 1, offset + MaxMessageLength - 1)
    ELSE <<TypeL>> \o SubSeq(text, offset + 1, Len(text))

\* The message of the text's bytes from offset on.
Frame ==
    IF offset + MaxMessageLength <= Len(text)
    THEN <<TypeM>> \o SubSeq(text, offset + 1, offset + MaxMessageLength - 1)
    ELSE <<TypeL>> \o SubSeq(text, offset + 1, Len(text))

\* The length byte; SendMessage throws for a message that is too long.
SendLength ==
    /\ sendPc = "length"
    /\ IF Len(Frame) <= MaxMessageLength
       THEN sendPc' = "body" /\ channel' = Append(channel, Len(Frame))
       ELSE sendPc' = "failed" /\ UNCHANGED channel
    /\ sent' = 0
    /\ UNCHANGED <<path, text, offset, open, receiverVars>>

\* Send takes any part of what is left; a Unix socket takes all of so short a message.
SendBody ==
    LET left == Len(Frame) - sent
    IN  /\ sendPc = "body"
        /\ \E n \in 1..left :
              /\ path = "unix" => n = left
              /\ channel' = channel \o SubSeq(Frame, sent + 1, sent + n)
              /\ sent' = sent + n
              /\ IF n < left
                 THEN UNCHANGED <<offset, sendPc>>
                 ELSE /\ offset' = offset + MaxMessageLength - 1
                      /\ sendPc' = IF offset' < Len(text) THEN "length" ELSE "sent"
        /\ UNCHANGED <<path, text, open, receiverVars>>

\* The sender closes the connection, after the text or in the middle of it.
Disconnect ==
    /\ open /\ open' = FALSE /\ sendPc' = "closed"
    /\ UNCHANGED <<path, text, offset, sent, channel, receiverVars>>

-----------------------------------------------------------------------------
(***************************************************************************)
(* ReceiveText and RecvMessage.                                            *)
(***************************************************************************)
ReceiverStep == UNCHANGED senderVars

\* The loop condition.  total counts the length byte, and the C++ loop ends when it
\* reaches message_length: one byte short of the message.  Python counts the message.
Incomplete(read, whole) ==
    IF path = "response" THEN read <= whole ELSE read < whole

\* A defect: room for one byte more than the message has.
OneTooMany == length + 2 - total

\* Never more than the buffer holds: a byte is at most 255 and the buffer has 256.
LeftToReceive == length + 1 - total

After(read, whole) == IF Incomplete(read, whole) THEN "body" ELSE "message"

RecvLength ==
    /\ recvPc = "length" /\ channel # <<>>
    /\ length' = Head(channel) /\ channel' = Tail(channel) /\ total' = 1
    /\ message' = [i \in 1..length' |-> 0]
    /\ recvPc' = After(1, length')
    /\ UNCHANGED collected /\ ReceiverStep

\* Recv returns any part of what has arrived; on a Unix socket all that was asked for.
RecvBody ==
    /\ recvPc = "body"
    /\ \E n \in 1..Len(channel) :
          /\ n <= LeftToReceive
          /\ path = "unix" => n = LeftToReceive \/ n = Len(channel)
          /\ message' = [i \in DOMAIN message |->
                            IF i \in total..(total + n - 1)
                            THEN channel[i - total + 1] ELSE message[i]]
          /\ channel' = SubSeq(channel, n + 1, Len(channel))
          /\ total' = total + n
          /\ recvPc' = After(total', length)
    /\ UNCHANGED <<length, collected>> /\ ReceiverStep

\* A defect: the type is collected with the text.
CollectType ==
    /\ recvPc = "message"
    /\ collected' = collected \o message
    /\ recvPc' = IF message[1] = TypeL THEN "done" ELSE "length"
    /\ UNCHANGED <<channel, length, total, message>> /\ ReceiverStep

\* ReceiveText takes the text of the message.  A message has a byte at least: no byte
\* on the wire is 0.
EndMessage ==
    /\ recvPc = "message"
    /\ collected' = collected \o Tail(message)
    /\ recvPc' = IF message[1] = TypeL THEN "done" ELSE "length"
    /\ UNCHANGED <<channel, length, total, message>> /\ ReceiverStep

\* A defect: the end of the stream is no error.
IgnoreEof ==
    /\ recvPc \in {"length", "body"} /\ channel = <<>>
    /\ open
    /\ recvPc' = "failed"
    /\ UNCHANGED <<channel, length, total, message, collected>> /\ ReceiverStep

\* No data in time: TimeoutException.  The end of the stream: RecvException, IOError for
\* Python's length byte.  Python's loop for the message adds what recv returns at the
\* end of the stream, nothing, and goes on.
RecvFails ==
    /\ recvPc \in {"length", "body"} /\ channel = <<>>
    /\ open \/ recvPc = "length" \/ path # "response"
    /\ recvPc' = "failed"
    /\ UNCHANGED <<channel, length, total, message, collected>> /\ ReceiverStep

-----------------------------------------------------------------------------
ReceiverNext == RecvLength \/ RecvBody \/ EndMessage \/ RecvFails

SocketNext == SendLength \/ SendBody \/ Disconnect \/ ReceiverNext

SocketSpec == SocketInit /\ [][SocketNext]_socketVars

\* The receiver's thread runs; the sender may stop at any point.
FairSocketSpec == SocketSpec /\ WF_socketVars(ReceiverNext)

-----------------------------------------------------------------------------
(***************************************************************************)
(* Properties.                                                             *)
(***************************************************************************)

\* ReceiveText ends its buffer with a 0 and makes a string of it: the text stops at the
\* first 0.  Python returns all it has collected.
UpToNul(s) ==
    IF 0 \in ToSet(s)
    THEN SubSeq(s, 1, (CHOOSE i \in DOMAIN s : s[i] = 0 /\ \A j \in 1..(i - 1) : s[j] # 0) - 1)
    ELSE s

Received == IF path = "response" THEN collected ELSE UpToNul(collected)

\* Every variable has its type, and a read never asks for more than the buffer holds or
\* copies past the end of the message: memcpy(message.data() + total - 1, ...).
BuffersHold ==
    /\ path \in Paths /\ text \in Texts
    /\ offset \in Nat /\ sent \in 0..MaxMessageLength /\ channel \in Seq(Bytes)
    /\ open \in BOOLEAN /\ sendPc \in {"length", "body", "sent", "closed", "failed"}
    /\ recvPc \in {"length", "body", "message", "done", "failed"}
    /\ length \in Bytes /\ total \in 0..(MaxByte + 1)
    /\ message \in Seq(Bytes) /\ Len(message) = length /\ collected \in Seq(Bytes)
    /\ recvPc = "body" =>
          /\ LeftToReceive \in 1..BufferLength
          /\ (total - 1) + LeftToReceive = Len(message)

\* SendText never makes a message that SendMessage refuses, whatever the text's length.
MessagesFit == sendPc # "failed"

\* On the agent's Unix sockets and from the server to a page, a text that is received is
\* the text that was sent, in however many messages and reads.
ReceivedWhole == path # "request" /\ recvPc = "done" => Received = text

\* Whatever the reads return, a receiver never makes up text: what it returns is the
\* beginning of the text sent.
ReceivedIsPrefix == recvPc = "done" => IsPrefix(Received, text)

\* A message received in parts is the message: libslas/tests/network/network.cpp,
\* RecvMessageTwoParts.  For requests it is not so, see
\* Incomplete.
RequestReceivedWhole == path = "request" /\ recvPc = "done" => Received = text

\* A receiver ends, with a text or with an exception.  Python's does not when the server
\* goes away in the middle of a message: its loop spins at the end of the stream.
Spins == path = "response" /\ recvPc = "body" /\ channel = <<>> /\ ~open
ReceiverEnds == <>(recvPc \in {"done", "failed"} \/ Spins)
=============================================================================
