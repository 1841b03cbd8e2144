------------------------------- MODULE Server -------------------------------
(***************************************************************************)
(* The event loop (src/server.hpp), Connection::process_io                 *)
(* (src/connection.hpp), the descriptors that Socket owns (src/socket.hpp) *)
(* and the signal handler (src/main.cpp), among clients that connect, send *)
(* commands, read replies, and leave at any time.                          *)
(*                                                                         *)
(* The kernel is external: a descriptor number is the lowest free one,     *)
(* poll is level triggered, a read takes what has arrived, up to the size  *)
(* of the buffer it is given, and a write what fits.  Commands are counted *)
(* in pieces, ReadBuf of which one read takes.  A patient client waits for *)
(* each reply before the next command, and its command arrives at once;    *)
(* the other clients do not wait, and TCP may cut or join what they send.  *)
(* A command is answered, throws or ends the process; one that blocks for  *)
(* ever (see Keyspace) would stop the loop and is left out.                *)
(***************************************************************************)
EXTENDS Integers, Sequences, FiniteSets, SequencesExt

CONSTANTS
    Patient, Hasty,    \* clients that send commands
    Silent,            \* clients that only connect; a client connects once
    MaxFds,            \* descriptors the process may have open
    ReadBuf,           \* pieces of a command that one read takes (1023 bytes in the code)
    PatientLen,        \* pieces of the longest command of a patient client
    HastyLen,          \* and of a hasty one
    SndBuf,            \* replies that fit between the server and a client
    MaxAsks,           \* bound on the commands of a patient client
    MaxHastyAsks,      \* and of a hasty one
    Free               \* a descriptor that is not open

Clients == Patient \cup Hasty \cup Silent
Fds == 0 .. MaxFds - 1

ASSUME ServerAssumption ==
    /\ Patient \cap Hasty = {} /\ Silent \cap (Patient \cup Hasty) = {}
    /\ Free \notin Clients \cup {"listen"} /\ "listen" \notin Clients
    /\ ReadBuf \in Nat \ {0} /\ PatientLen \in Nat /\ HastyLen \in Nat
    /\ MaxFds \in Nat \ {0} /\ SndBuf \in Nat \ {0} /\ MaxAsks \in Nat /\ MaxHastyAsks \in Nat

VARIABLES
    kernel,         \* what every descriptor of the process refers to
    listen_fd,      \* listen_socket_.get(), -1 before initialize
    connections_,   \* descriptor -> connection, Free when there is none
    poll_args,      \* polled descriptors, each with the connection it stood for
    pc,             \* place of the main thread
    at, reply,      \* the connection that is answered, and with what
    should_stop_,
    handler,        \* place of the signal handler
    conn,           \* "new", "backlog", "open", "dropped", "closed" or "failed"
    backlog,        \* clients the kernel has connected and accept has not
    left,           \* "no", "eof" (the client closed) or "rst" (with replies unread)
    inbuf,          \* pieces of commands that have arrived
    split,          \* pieces of the last command that are still on their way
    out,            \* replies, or parts of one, that the client has not read
    asked, got      \* commands sent, and replies a patient client has read

current == <<at, reply>>
loop == <<poll_args, pc, current>>
sockets == <<kernel, listen_fd, connections_>>
signals == <<should_stop_, handler>>
client == <<left, split, asked, got>>
vars == <<sockets, loop, signals, conn, backlog, client, inbuf, out>>

Init ==
    /\ kernel = [f \in Fds |-> Free]
    /\ listen_fd = -1
    /\ connections_ = [f \in Fds |-> Free]
    /\ poll_args = {}
    /\ pc = "init" /\ at = 0 /\ reply = "none"
    /\ should_stop_ = FALSE /\ handler = "none"
    /\ conn = [c \in Clients |-> "new"]
    /\ backlog = << >>
    /\ left = [c \in Clients |-> "no"]
    /\ split = [c \in Clients |-> 0] /\ inbuf = [c \in Clients |-> << >>]
    /\ out = [c \in Clients |-> << >>]
    /\ asked = [c \in Clients |-> 0] /\ got = [c \in Clients |-> 0]

----------------------------------------------------------------------------
(* Descriptors.                                                            *)

FreeFds == {f \in Fds : kernel[f] = Free}
Lowest == CHOOSE f \in FreeFds : \A g \in FreeFds : f <= g

Running == pc \notin {"init", "over", "gone"}

----------------------------------------------------------------------------
(* Clients and the network: external.                                      *)

Connect(c) ==
    /\ conn[c] = "new" /\ Running /\ \E f \in Fds : kernel[f] = "listen"
    /\ conn' = [conn EXCEPT ![c] = "backlog"]
    /\ backlog' = Append(backlog, c)
    /\ UNCHANGED <<sockets, loop, signals, client, inbuf, out>>

\* The pieces of a command, the first and the last of which can be told from the others.
Command(n) ==
    [i \in 1..n |-> IF n = 1 THEN "whole"
                    ELSE IF i = 1 THEN "head" ELSE IF i = n THEN "tail" ELSE "body"]

Connected(c) == conn[c] \in {"backlog", "open"} /\ left[c] = "no" /\ pc # "gone"

(* A command arrives at once or its first pieces do; the others follow     *)
(* later, ahead of what the client sends next.                             *)
Send(c) ==
    /\ c \notin Silent /\ Connected(c) /\ split[c] = 0
    /\ IF c \in Patient THEN asked[c] = got[c] /\ asked[c] < MaxAsks ELSE asked[c] < MaxHastyAsks
    /\ asked' = [asked EXCEPT ![c] = @ + 1]
    /\ \E n \in 1..(IF c \in Patient THEN PatientLen ELSE HastyLen) :
       \E k \in (IF c \in Patient THEN n ELSE 1)..n :
          /\ split' = [split EXCEPT ![c] = n - k]
          /\ inbuf' = [inbuf EXCEPT ![c] = @ \o SubSeq(Command(n), 1, k)]
    /\ UNCHANGED <<sockets, loop, signals, conn, backlog, left, out, got>>

Rest(c) ==
    /\ split[c] > 0 /\ Connected(c)
    /\ split' = [split EXCEPT ![c] = 0]
    /\ inbuf' = [inbuf EXCEPT ![c] = @ \o Tail(Command(split[c] + 1))]
    /\ UNCHANGED <<sockets, loop, signals, conn, backlog, left, asked, got, out>>

Receive(c) ==
    /\ Connected(c) /\ out[c] # << >>
    /\ out' = [out EXCEPT ![c] = Tail(@)]
    /\ got' = [got EXCEPT ![c] = IF c \in Patient THEN @ + 1 ELSE @]
    /\ UNCHANGED <<sockets, loop, signals, conn, backlog, left, split, asked, inbuf>>

\* The client closes; with replies unread, or after a reply to a closed client, TCP resets.
Leave(c) ==
    /\ Connected(c) /\ split[c] = 0
    /\ left' = [left EXCEPT ![c] = IF out[c] = << >> THEN "eof" ELSE "rst"]
    /\ inbuf' = [inbuf EXCEPT ![c] = IF out[c] = << >> THEN @ ELSE << >>]
    /\ UNCHANGED <<sockets, loop, signals, conn, backlog, split, asked, got, out>>

----------------------------------------------------------------------------
(* initialize                                                              *)

Initialize ==
    /\ pc = "init"
    /\ kernel' = [kernel EXCEPT ![Lowest] = "listen"]
    /\ listen_fd' = Lowest
    /\ pc' = "top"
    /\ UNCHANGED <<connections_, poll_args, current, signals, conn, backlog, client, inbuf, out>>

\* A call of create_listen_socket fails, its Socket closes what was opened, and main returns.
InitializeFails ==
    /\ pc = "init"
    /\ pc' = "gone"
    /\ UNCHANGED <<sockets, poll_args, current, signals, conn, backlog, client, inbuf, out>>

----------------------------------------------------------------------------
(* run                                                                     *)

InMap == {f \in Fds : connections_[f] # Free}
Readable(c) == inbuf[c] # << >> \/ left[c] # "no"
Listening == kernel[listen_fd] = "listen"

\* Mutant: one ready descriptor is not enough.
MutPollOffByOne ==
    LET ready == {f \in InMap : Readable(kernel[f])}
        incoming == Listening /\ backlog # << >>
    IN
    /\ pc = "top"
    /\ IF should_stop_
       THEN pc' = "over" /\ UNCHANGED poll_args
       ELSE /\ IF incoming THEN ready # {} ELSE Cardinality(ready) > 1
            /\ pc' = IF incoming THEN "accept" ELSE "process"
            /\ poll_args' = ready
    /\ UNCHANGED <<sockets, current, signals, conn, backlog, client, inbuf, out>>

(* prepare_poll_args and poll.  Every connection is polled for reading:    *)
(* none ever leaves the state Request.  A poll that times out after a      *)
(* second changes nothing; a stopped loop does not look at the result.     *)
Poll ==
    LET ready == {f \in InMap : Readable(kernel[f])}
        incoming == Listening /\ backlog # << >>
    IN
    /\ pc = "top"
    /\ IF should_stop_
       THEN pc' = "over" /\ UNCHANGED poll_args
       ELSE /\ ready # {} \/ incoming
            /\ pc' = IF incoming THEN "accept" ELSE "process"
            /\ poll_args' = ready
    /\ UNCHANGED <<sockets, current, signals, conn, backlog, client, inbuf, out>>

\* One turn of accept_new_connections; add_connection does not replace a connection.
Accept ==
    LET c == Head(backlog) IN
    /\ pc = "accept" /\ Listening /\ backlog # << >> /\ FreeFds # {}
    /\ backlog' = Tail(backlog)
    /\ kernel' = [kernel EXCEPT ![Lowest] = c]
    /\ connections_' = [connections_ EXCEPT ![Lowest] = IF @ = Free THEN c ELSE @]
    /\ conn' = [conn EXCEPT ![c] = "open"]
    /\ UNCHANGED <<listen_fd, loop, signals, client, inbuf, out>>

\* set_nonblocking fails, or an exception is thrown: the descriptor is closed again.
AcceptDrops ==
    /\ pc = "accept" /\ Listening /\ backlog # << >> /\ FreeFds # {}
    /\ backlog' = Tail(backlog)
    /\ conn' = [conn EXCEPT ![Head(backlog)] = "dropped"]
    /\ UNCHANGED <<sockets, loop, signals, client, inbuf, out>>

\* accept fails: nobody is waiting, there is no descriptor left, or stop closed the socket.
AcceptEnds ==
    /\ pc = "accept" /\ ~(Listening /\ backlog # << >> /\ FreeFds # {})
    /\ pc' = "process"
    /\ UNCHANGED <<sockets, poll_args, current, signals, conn, backlog, client, inbuf, out>>

\* Mutant: the Socket is not closed with its connection.
MutRemoveLeaks(f, why) ==
    /\ connections_' = [connections_ EXCEPT ![f] = Free]
    /\ conn' = [conn EXCEPT ![connections_[f]] = why]
    /\ UNCHANGED <<kernel, listen_fd>>

\* The Socket of the connection closes its descriptor.
remove_connection(f, why) ==
    /\ connections_' = [connections_ EXCEPT ![f] = Free]
    /\ kernel' = [kernel EXCEPT ![f] = Free]
    /\ conn' = [conn EXCEPT ![connections_[f]] = why]
    /\ UNCHANGED listen_fd

\* What one read takes of the bytes that have arrived, what it leaves, and how
\* the command it is taken for comes out.
Taken(s) == IF Len(s) <= ReadBuf THEN s ELSE SubSeq(s, 1, ReadBuf)
Remains(s) == IF Len(s) <= ReadBuf THEN << >> ELSE SubSeq(s, ReadBuf + 1, Len(s))
Understood(s) == IF s = Command(Len(s)) THEN "answer" ELSE "misread"

\* Mutant: the reply goes to the last descriptor of the poll.
MutReadAnswersLast(f) ==
    LET c == connections_[f] IN
    /\ pc = "process" /\ f \in poll_args
    /\ IF inbuf[c] = << >>
       THEN remove_connection(f, "closed") /\ poll_args' = poll_args \ {f} /\ UNCHANGED <<pc, current, inbuf>>
       ELSE /\ pc' = "write" /\ at' = Max(poll_args) /\ reply' = Understood(Taken(inbuf[c]))
            /\ inbuf' = [inbuf EXCEPT ![c] = Remains(@)]
            /\ UNCHANGED <<sockets, conn, poll_args>>
    /\ UNCHANGED <<signals, backlog, client, out>>

(* The read of process_io.  Without data it fails: the client has closed,  *)
(* the connection was reset, or nothing has arrived (EAGAIN); in all three *)
(* cases the connection is removed.  What one read gets is taken for one   *)
(* command and gets one reply; the rest is read after the next poll.       *)
Read(f) ==
    LET c == connections_[f] IN
    /\ pc = "process" /\ f \in poll_args
    /\ IF inbuf[c] = << >>
       THEN remove_connection(f, "closed") /\ poll_args' = poll_args \ {f} /\ UNCHANGED <<pc, current, inbuf>>
       ELSE /\ pc' = "write" /\ at' = f /\ reply' = Understood(Taken(inbuf[c]))
            /\ inbuf' = [inbuf EXCEPT ![c] = Remains(@)]
            /\ UNCHANGED <<sockets, conn, poll_args>>
    /\ UNCHANGED <<signals, backlog, client, out>>

(* A command that locks a mutex twice throws (see Keyspace): the catch     *)
(* block of process_active_connections removes the connection.             *)
CommandThrows(f) ==
    LET c == connections_[f] IN
    /\ pc = "process" /\ f \in poll_args /\ inbuf[c] # << >>
    /\ remove_connection(f, "failed")
    /\ poll_args' = poll_args \ {f}
    /\ inbuf' = [inbuf EXCEPT ![c] = << >>]
    /\ UNCHANGED <<pc, current, signals, backlog, client, out>>

(* The end of the process closes every descriptor.  main destroys the      *)
(* connections and then the listening Socket, whose number stop may have   *)
(* closed before; exit and SIGPIPE leave it to the kernel.                 *)
ProcessEnds ==
    /\ pc' = "gone" /\ poll_args' = {} /\ at' = 0 /\ reply' = "none"
    /\ kernel' = [f \in Fds |-> Free] /\ connections_' = [f \in Fds |-> Free]
    /\ conn' = [c \in Clients |-> IF conn[c] \in {"open", "backlog"} THEN "closed" ELSE conn[c]]
    /\ backlog' = << >>
    /\ inbuf' = [c \in Clients |-> << >>] /\ out' = [c \in Clients |-> << >>]
    /\ UNCHANGED <<listen_fd, signals, client>>

Destroy == pc = "over" /\ ProcessEnds

\* A command throws out of a noexcept function, which ends the process.
CommandKills(f) ==
    pc = "process" /\ f \in poll_args /\ inbuf[connections_[f]] # << >> /\ ProcessEnds

(* What the client has to read after a write.  A reply that meets unread   *)
(* ones may be cut or not fit at all; the call returns as if it had been   *)
(* written.  So it does when the client has closed, which resets.          *)
Written(c) ==
    IF left[c] # "no" \/ Len(out[c]) >= SndBuf THEN {out[c]}
    ELSE IF out[c] = << >> THEN {<<reply>>}
    ELSE {out[c], Append(out[c], reply), Append(out[c], "cut")}

\* Mutant: the connection is read until nothing is left.
MutWriteReadsOn ==
    LET c == connections_[at] IN
    /\ pc = "write"
    /\ pc' = "process" /\ at' = 0 /\ reply' = "none"
    /\ \E s \in Written(c) : out' = [out EXCEPT ![c] = s]
    /\ left' = [left EXCEPT ![c] = IF @ = "eof" THEN "rst" ELSE @]
    /\ UNCHANGED <<sockets, poll_args, signals, conn, backlog, split, asked, got, inbuf>>

\* The single write of process_io.
Write ==
    LET c == connections_[at] IN
    /\ pc = "write"
    /\ pc' = "process" /\ at' = 0 /\ reply' = "none"
    /\ poll_args' = poll_args \ {at}
    /\ \E s \in Written(c) : out' = [out EXCEPT ![c] = s]
    /\ left' = [left EXCEPT ![c] = IF @ = "eof" THEN "rst" ELSE @]
    /\ UNCHANGED <<sockets, signals, conn, backlog, split, asked, got, inbuf>>

\* A write after a reset may raise SIGPIPE, which is not handled and ends the process.
WriteKills == pc = "write" /\ left[connections_[at]] = "rst" /\ ProcessEnds

RoundEnds ==
    /\ pc = "process" /\ poll_args = {}
    /\ pc' = "top"
    /\ UNCHANGED <<sockets, poll_args, current, signals, conn, backlog, client, inbuf, out>>

----------------------------------------------------------------------------
(* handle_signal, on any thread of the process: stop() and exit.           *)

StopFlag ==
    /\ Running /\ handler = "none"
    /\ should_stop_' = TRUE /\ handler' = "close"
    /\ UNCHANGED <<sockets, loop, conn, backlog, client, inbuf, out>>

\* The descriptor is closed, but listen_socket_ keeps its number.
StopClose ==
    /\ handler = "close" /\ pc # "gone"
    /\ kernel' = [kernel EXCEPT ![listen_fd] = Free]
    /\ handler' = "exit"
    /\ UNCHANGED <<listen_fd, connections_, loop, should_stop_, conn, backlog, client, inbuf, out>>

Exit == handler = "exit" /\ pc # "gone" /\ ProcessEnds

Round ==
    \/ Poll \/ Accept \/ AcceptDrops \/ AcceptEnds \/ Write \/ WriteKills \/ RoundEnds
    \/ \E f \in Fds : Read(f) \/ CommandThrows(f) \/ CommandKills(f)
Handler == StopFlag \/ StopClose \/ Exit
Client(c) == Connect(c) \/ Send(c) \/ Rest(c) \/ Receive(c) \/ Leave(c)

Next ==
    \/ Initialize \/ InitializeFails \/ Round \/ Destroy \/ Handler
    \/ \E c \in Clients : Client(c)

Spec == Init /\ [][Next]_vars

(* The main thread runs, what was sent arrives, and a patient client reads *)
(* its replies.  No client has to connect, send or leave, a hasty one need *)
(* not read, and no signal has to come.                                    *)
FairSpec ==
    /\ Spec
    /\ WF_vars(Round)
    /\ \A c \in Clients : WF_vars(Rest(c))
    /\ \A c \in Patient : WF_vars(Receive(c))

----------------------------------------------------------------------------
Replies == {"answer", "misread", "cut"}

TypeOK ==
    /\ kernel \in [Fds -> Clients \cup {"listen", Free}]
    /\ listen_fd \in Fds \cup {-1} /\ connections_ \in [Fds -> Clients \cup {Free}]
    /\ poll_args \subseteq Fds
    /\ pc \in {"init", "top", "accept", "process", "write", "over", "gone"}
    /\ at \in Fds /\ reply \in {"answer", "misread", "none"}
    /\ should_stop_ \in BOOLEAN /\ handler \in {"none", "close", "exit"}
    /\ conn \in [Clients -> {"new", "backlog", "open", "dropped", "closed", "failed"}]
    /\ backlog \in Seq(Clients) /\ left \in [Clients -> {"no", "eof", "rst"}]
    /\ split \in [Clients -> Nat]
    /\ \A c \in Clients :
          /\ Range(inbuf[c]) \subseteq {"whole", "head", "body", "tail"}
          /\ Range(out[c]) \subseteq Replies /\ Len(out[c]) <= SndBuf
          /\ asked[c] \in Nat /\ got[c] \in Nat

(* The descriptors the process has open, apart from the listening one, are *)
(* those of the connections in the map: none leaks, none is closed under a *)
(* connection, not even when stop closes a number that is still in use.    *)
DescriptorsExact ==
    pc # "gone" =>
        /\ \A f \in Fds : kernel[f] # "listen" => kernel[f] = connections_[f]
        /\ \A c \in Clients : conn[c] = "open" <=> \E f \in Fds : connections_[f] = c
        /\ \A f, g \in InMap : connections_[f] = connections_[g] => f = g

\* Every variable keeps its type and descriptors agree with connections.
DescriptorsSound == TypeOK /\ DescriptorsExact

(* The server closes a connection only after its client has left, or when  *)
(* a command threw: a read never finds nothing, because every readable     *)
(* connection is read once after each poll, and never one that was polled  *)
(* under the same number.                                                  *)
OnlyLeaversClosed ==
    \A c \in Clients : conn[c] = "closed" => left[c] # "no" \/ pc = "gone"

(* The command a patient client waits for is in exactly one place:         *)
(* arrived, being processed, or answered and not yet read; and the reply   *)
(* is whole and to what it asked.                                          *)
Arrived(c) == IF inbuf[c] = << >> THEN 0 ELSE 1
Pending(c) == IF pc = "write" /\ connections_[at] = c THEN 1 ELSE 0
OneReplyPerCommand ==
    \A c \in Patient : Connected(c) =>
        /\ Arrived(c) + Pending(c) + Len(out[c]) = asked[c] - got[c]
        /\ Range(out[c]) \subseteq {"answer"}

(* A patient client is answered, unless it leaves, is dropped, its command *)
(* throws or the server stops.  One that waits to be accepted has to wait  *)
(* until a descriptor is free, which may be never; one that was accepted   *)
(* is answered however many others wait.                                   *)
CommandAnswered ==
    \A c \in Patient :
        [](asked[c] > got[c] =>
             <>(\/ asked[c] = got[c] \/ left[c] # "no" \/ conn[c] \in {"dropped", "closed", "failed"}
                \/ [](FreeFds = {} /\ conn[c] = "backlog")
                \/ should_stop_ \/ pc = "gone"))
=============================================================================
