---------------------------- MODULE ServerProofs ----------------------------
(***************************************************************************)
(* The event loop keeps descriptors and connections in agreement, closes   *)
(* no connection of a client that stayed, and gives a patient client whose *)
(* commands fit into one read one reply for each of them: for any clients, *)
(* descriptors, commands and buffers.                                      *)
(***************************************************************************)
EXTENDS Server, SequenceTheorems, WellFoundedInduction, TLAPS

Pieces == {"whole", "head", "body", "tail"}

Types ==
    /\ kernel \in [Fds -> Clients \cup {"listen", Free}]
    /\ listen_fd \in Fds \cup {-1} /\ connections_ \in [Fds -> Clients \cup {Free}]
    /\ poll_args \subseteq Fds
    /\ pc \in {"init", "top", "accept", "process", "write", "over", "gone"}
    /\ at \in Fds /\ reply \in {"answer", "misread", "none"}
    /\ should_stop_ \in BOOLEAN /\ handler \in {"none", "close", "exit"}
    /\ conn \in [Clients -> {"new", "backlog", "open", "dropped", "closed", "failed"}]
    /\ backlog \in Seq(Clients) /\ left \in [Clients -> {"no", "eof", "rst"}]
    /\ split \in [Clients -> Nat]
    /\ inbuf \in [Clients -> Seq(Pieces)] /\ out \in [Clients -> Seq(Replies)]
    /\ \A c \in Clients : Len(out[c]) <= SndBuf
    /\ asked \in [Clients -> Nat] /\ got \in [Clients -> Nat]

(* Only the number that listen_socket_ keeps can listen, and no connection *)
(* ever has that number: stop closes nothing but the listening socket.     *)
Listens ==
    /\ \A f \in Fds : kernel[f] = "listen" => f = listen_fd
    /\ listen_fd \in Fds => connections_[listen_fd] = Free
    /\ pc = "init" => listen_fd = -1 /\ handler = "none" /\ \A f \in Fds : kernel[f] = Free
    /\ pc \notin {"init", "gone"} => listen_fd \in Fds

Table ==
    /\ \A f \in Fds : kernel[f] # "listen" => kernel[f] = connections_[f]
    /\ \A c \in Clients : conn[c] = "open" <=> \E f \in Fds : connections_[f] = c
    /\ \A f, g \in InMap : connections_[f] = connections_[g] => f = g

\* The kernel's queue holds each waiting client once.
Waiting ==
    /\ \A i \in 1..Len(backlog) : conn[backlog[i]] = "backlog"
    /\ \A i, j \in 1..Len(backlog) : backlog[i] = backlog[j] => i = j

(* What a poll found readable stays so, and stays with its descriptor,     *)
(* until its turn of the round has come.                                   *)
Polled ==
    /\ pc \in {"accept", "process", "write"} =>
          \A f \in poll_args : /\ connections_[f] \in Clients
                               /\ Readable(connections_[f]) \/ (pc = "write" /\ f = at)
    /\ pc = "write" => at \in poll_args /\ reply \in {"answer", "misread"}

\* One read takes the longest command of a patient client.
ReadWhole == PatientLen <= ReadBuf

(* What a patient client sends is never cut or joined, and all that is     *)
(* under way for it is the one command it waits for.                       *)
OneUnderWay(c) ==
    /\ Arrived(c) + Pending(c) + Len(out[c]) = asked[c] - got[c]
    /\ asked[c] - got[c] <= 1
OneCommand(s) == s = << >> \/ \E n \in 1..PatientLen : s = Command(n)
Awaits(c) ==
    /\ split[c] = 0 /\ OneCommand(inbuf[c])
    /\ out[c] \in Seq({"answer"})
    /\ conn[c] = "new" => asked[c] = 0 /\ got[c] = 0 /\ inbuf[c] = << >> /\ out[c] = << >>
    /\ pc = "write" /\ connections_[at] = c => reply = "answer"
    /\ Connected(c) => OneUnderWay(c)
Patience == ReadWhole => \A c \in Patient : Awaits(c)

ServerInv == Types /\ Listens /\ Table /\ Waiting /\ Polled /\ OnlyLeaversClosed /\ Patience

-----------------------------------------------------------------------------
\* Facts about sequences and descriptors.

LEMMA NatMinimum ==
    ASSUME NEW T \in SUBSET Nat, T # {}
    PROVE  \E x \in T : \A y \in T : x <= y
<1>1. PICK x \in T : \A y \in T : ~(<<y, x>> \in OpToRel(<, Nat))
  BY WFMin, NatLessThanWellFounded
<1>2. \A y \in T : ~(y < x)
  BY <1>1 DEF OpToRel
<1> QED BY <1>2

LEMMA LowestIsFree ==
    ASSUME FreeFds # {}
    PROVE  Lowest \in Fds /\ kernel[Lowest] = Free
<1>1. FreeFds \in SUBSET Nat
  BY ServerAssumption DEF FreeFds, Fds
<1>2. \E f \in FreeFds : \A g \in FreeFds : f <= g
  BY <1>1, NatMinimum
<1>3. Lowest \in FreeFds
  BY <1>2 DEF Lowest
<1> QED BY <1>3 DEF FreeFds

LEMMA AppendStep ==
    ASSUME NEW S, NEW s \in Seq(S), NEW x \in S
    PROVE  /\ Append(s, x) \in Seq(S) /\ Len(Append(s, x)) = Len(s) + 1
           /\ Append(s, x) # << >> /\ Len(s) \in Nat
           /\ \A i \in 1..Len(s) : Append(s, x)[i] = s[i]
           /\ Append(s, x)[Len(s) + 1] = x
BY AppendProperties, LenProperties, EmptySeq

LEMMA TailStep ==
    ASSUME NEW S, NEW s \in Seq(S), s # << >>
    PROVE  /\ Tail(s) \in Seq(S) /\ Len(Tail(s)) = Len(s) - 1 /\ Len(s) \in Nat \ {0}
           /\ Head(s) \in S /\ Head(s) = s[1]
           /\ \A i \in 1..Len(s) - 1 : Tail(s)[i] = s[i + 1]
BY HeadTailProperties, LenProperties, EmptySeq

LEMMA EmptyStep ==
    ASSUME NEW S
    PROVE  << >> \in Seq(S) /\ Len(<< >>) = 0
BY EmptySeq

LEMMA LenOfSeq ==
    ASSUME NEW S, NEW s \in Seq(S)
    PROVE  Len(s) \in Nat /\ (Len(s) = 0 <=> s = << >>)
BY EmptySeq, LenProperties

LEMMA ConcatStep ==
    ASSUME NEW S, NEW s \in Seq(S), NEW t \in Seq(S), t # << >>
    PROVE  s \o t \in Seq(S) /\ s \o t # << >> /\ (s = << >> => s \o t = t)
<1>1. Len(s \o t) = Len(s) + Len(t) /\ s \o t \in Seq(S)
  BY ConcatProperties
<1>2. Len(t) \in Nat \ {0} /\ Len(s) \in Nat
  BY EmptySeq, LenProperties
<1>3. s \o t # << >>
  BY <1>1, <1>2, EmptySeq
<1>4. s = << >> => s \o t = t
  BY ConcatEmptySeq
<1> QED BY <1>1, <1>3, <1>4

LEMMA SubSeqStep ==
    ASSUME NEW S, NEW s \in Seq(S), NEW m \in Nat \ {0}, NEW n \in 0..Len(s)
    PROVE  /\ SubSeq(s, m, n) \in Seq(S)
           /\ m <= n => SubSeq(s, m, n) # << >>
<1>0. \A i \in m..n : s[i] \in S
  BY ElementOfSeq, LenProperties
<1>1. /\ SubSeq(s, m, n) \in Seq(S)
      /\ Len(SubSeq(s, m, n)) = IF m <= n THEN n - m + 1 ELSE 0
  BY <1>0, SubSeqProperties, LenProperties
<1>2. m <= n => Len(SubSeq(s, m, n)) # 0
  BY <1>1, LenProperties
<1> QED BY <1>1, <1>2, EmptySeq

\* A command has as many pieces as it says, and the first ones are not the whole.
LEMMA CommandIs ==
    ASSUME NEW n \in Nat \ {0}
    PROVE  /\ Command(n) \in Seq(Pieces) /\ Len(Command(n)) = n /\ Command(n) # << >>
           /\ SubSeq(Command(n), 1, n) = Command(n)
<1>1. Command(n) \in [1..n -> Pieces]
  BY DEF Command, Pieces
<1>2. Command(n) \in Seq(Pieces) /\ Len(Command(n)) = n
  BY <1>1
<1>3. Command(n) # << >>
  BY <1>2, EmptySeq
<1>4. SubSeq(Command(n), 1, n) = Command(n)
  BY <1>2, SubSeqFull
<1> QED BY <1>2, <1>3, <1>4

\* The count of what is under way for a patient client when it sends, is answered, reads.
LEMMA OneSentMore ==
    ASSUME NEW a \in Nat, NEW p \in Nat, NEW b \in Nat, NEW n \in Nat, a + p + b = 0
    PROVE  (a + 1) + p + b = (n + 1) - n /\ (n + 1) - n <= 1
OBVIOUS

LEMMA OneAnswered ==
    ASSUME NEW a \in Nat, NEW b \in Nat, NEW q \in Nat, NEW g \in Nat,
           a + 1 + b = q - g, q - g <= 1
    PROVE  b = 0 /\ a = 0 /\ q - g = 1
OBVIOUS

LEMMA OneReadLess ==
    ASSUME NEW a \in Nat, NEW p \in Nat, NEW b \in Nat, NEW q \in Nat, NEW g \in Nat,
           a + p + b = q - g, q - g <= 1
    PROVE  a + p + (b - 1) = q - (g + 1) /\ q - (g + 1) <= 1
OBVIOUS

-----------------------------------------------------------------------------
\* The constructor and initialize.

LEMMA ServerInit == Init => ServerInv
<1> SUFFICES ASSUME Init PROVE ServerInv
  OBVIOUS
<1> USE ServerAssumption DEF Init
<1>1. Types
  <2>1. << >> \in Seq(Clients) /\ << >> \in Seq(Pieces) /\ << >> \in Seq(Replies)
    BY EmptyStep
  <2>2. inbuf \in [Clients -> Seq(Pieces)] /\ out \in [Clients -> Seq(Replies)]
    BY <2>1
  <2>3. \A c \in Clients : Len(out[c]) <= SndBuf
    OBVIOUS
  <2>4. 0 \in Fds
    BY DEF Fds
  <2>5. /\ kernel \in [Fds -> Clients \cup {"listen", Free}]
        /\ connections_ \in [Fds -> Clients \cup {Free}]
        /\ conn \in [Clients -> {"new", "backlog", "open", "dropped", "closed", "failed"}]
        /\ left \in [Clients -> {"no", "eof", "rst"}] /\ split \in [Clients -> Nat]
        /\ asked \in [Clients -> Nat] /\ got \in [Clients -> Nat]
    OBVIOUS
  <2> QED BY <2>1, <2>2, <2>3, <2>4, <2>5, Zenon DEF Types
<1>2. Listens /\ Table /\ Waiting /\ Polled /\ OnlyLeaversClosed
  BY EmptyStep DEF Listens, Table, Waiting, Polled, OnlyLeaversClosed, InMap, Clients, Fds
<1>3. Patience
  BY EmptyStep DEF Patience, Awaits, OneUnderWay, Arrived, OneCommand, Connected, Clients
<1> QED BY <1>1, <1>2, <1>3 DEF ServerInv

LEMMA InitializeKeeps == ServerInv /\ Initialize => ServerInv'
<1> SUFFICES ASSUME ServerInv, Initialize PROVE ServerInv'
  OBVIOUS
<1> USE ServerAssumption DEF Initialize, current, signals, client
<1>1. Lowest \in Fds /\ kernel[Lowest] = Free
  <2>1. 0 \in FreeFds
    BY DEF ServerInv, Listens, FreeFds, Fds
  <2> QED BY <2>1, LowestIsFree
<1>2. Types'
  BY <1>1 DEF ServerInv, Types
<1>3. Listens' /\ Table'
  BY <1>1 DEF ServerInv, Types, Listens, Table, InMap, Clients
<1>4. Waiting' /\ Polled' /\ OnlyLeaversClosed'
  BY DEF ServerInv, Waiting, Polled, OnlyLeaversClosed
<1>5. Patience'
  BY DEF ServerInv, Patience, Awaits, OneUnderWay, Arrived, Connected, Pending
<1> QED BY <1>2, <1>3, <1>4, <1>5 DEF ServerInv

\* The main thread moves on and changes nothing else.
LEMMA OnlyPlaceKeeps ==
    ASSUME ServerInv, pc \notin {"write", "gone"}, pc' \in {"top", "process", "over", "gone"},
           pc = "init" => pc' = "gone", pc' = "process" => pc = "accept",
           UNCHANGED <<sockets, poll_args, current, signals, conn, backlog, client, inbuf, out>>
    PROVE  ServerInv'
<1> USE ServerAssumption DEF sockets, current, signals, client
<1>1. Types'
  BY DEF ServerInv, Types
<1>2. Listens' /\ Table' /\ Waiting'
  BY DEF ServerInv, Types, Listens, Table, InMap, Waiting
<1>3. Polled'
  BY DEF ServerInv, Polled, Readable
<1>4. OnlyLeaversClosed'
  BY DEF ServerInv, OnlyLeaversClosed
<1>5. Patience'
  BY DEF ServerInv, Patience, Awaits, OneUnderWay, Arrived, Connected, Pending
<1> QED BY <1>1, <1>2, <1>3, <1>4, <1>5 DEF ServerInv

-----------------------------------------------------------------------------
\* The clients.

LEMMA ConnectKeeps ==
    ASSUME ServerInv, NEW c \in Clients, Connect(c)
    PROVE  ServerInv'
<1> USE ServerAssumption DEF Connect, sockets, loop, current, signals, client
<1>1. /\ backlog' \in Seq(Clients) /\ Len(backlog') = Len(backlog) + 1 /\ Len(backlog) \in Nat
      /\ \A i \in 1..Len(backlog) : backlog'[i] = backlog[i]
      /\ backlog'[Len(backlog) + 1] = c
  BY AppendStep DEF ServerInv, Types
<1>2. Types'
  BY <1>1 DEF ServerInv, Types
<1>3. Listens' /\ Table' /\ Polled' /\ OnlyLeaversClosed'
  BY DEF ServerInv, Types, Listens, Table, InMap, Polled, Readable, OnlyLeaversClosed
<1>4. Waiting'
  <2>1. /\ \A i \in 1..Len(backlog) : conn[backlog[i]] = "backlog" /\ backlog[i] \in Clients
        /\ \A i, j \in 1..Len(backlog) : backlog[i] = backlog[j] => i = j
    BY ElementOfSeq DEF ServerInv, Types, Waiting
  <2>2. conn'[c] = "backlog" /\ \A d \in Clients : d # c => conn'[d] = conn[d]
    BY DEF ServerInv, Types
  <2>3. \A i \in 1..Len(backlog) : backlog[i] # c
    BY <2>1
  <2>4. \A i \in 1..Len(backlog') : i \in 1..Len(backlog) \/ i = Len(backlog) + 1
    BY <1>1
  <2>5. \A i \in 1..Len(backlog') : conn'[backlog'[i]] = "backlog"
    BY <1>1, <2>1, <2>2, <2>3, <2>4
  <2>6. \A i, j \in 1..Len(backlog') : backlog'[i] = backlog'[j] => i = j
    BY <1>1, <2>1, <2>3, <2>4
  <2> QED BY <2>5, <2>6 DEF Waiting
<1>5. Patience'
  <2>1. Pending(c) = 0
    BY DEF ServerInv, Types, Table, Polled, Pending
  <2>2. \A d \in Clients : Pending(d)' = Pending(d)
    BY DEF Pending
  <2> QED BY <2>1, <2>2, EmptyStep DEF ServerInv, Types, Patience, Awaits, OneUnderWay, Arrived, Connected, Clients
<1> QED BY <1>2, <1>3, <1>4, <1>5 DEF ServerInv

LEMMA SendKeeps ==
    ASSUME ServerInv, NEW c \in Clients, Send(c)
    PROVE  ServerInv'
<1> USE ServerAssumption DEF Send, sockets, loop, current, signals
<1>1. PICK n \in 1..(IF c \in Patient THEN PatientLen ELSE HastyLen) :
      \E k \in (IF c \in Patient THEN n ELSE 1)..n :
          /\ split' = [split EXCEPT ![c] = n - k]
          /\ inbuf' = [inbuf EXCEPT ![c] = @ \o SubSeq(Command(n), 1, k)]
  OBVIOUS
<1>2. PICK k \in (IF c \in Patient THEN n ELSE 1)..n :
          /\ split' = [split EXCEPT ![c] = n - k]
          /\ inbuf' = [inbuf EXCEPT ![c] = @ \o SubSeq(Command(n), 1, k)]
  BY <1>1
<1>3. n \in Nat \ {0} /\ k \in 1..n /\ n - k \in Nat /\ (c \in Patient => k = n)
  OBVIOUS
<1>4. /\ inbuf'[c] \in Seq(Pieces) /\ inbuf'[c] # << >>
      /\ \A d \in Clients : d # c => inbuf'[d] = inbuf[d]
      /\ inbuf' \in [Clients -> Seq(Pieces)]
      /\ inbuf[c] = << >> => inbuf'[c] = SubSeq(Command(n), 1, k)
  <2> DEFINE x == SubSeq(Command(n), 1, k)
  <2>1. inbuf[c] \in Seq(Pieces) /\ inbuf \in [Clients -> Seq(Pieces)]
    BY DEF ServerInv, Types
  <2>2. inbuf' = [inbuf EXCEPT ![c] = inbuf[c] \o x]
    BY <1>2
  <2>3. x \in Seq(Pieces) /\ x # << >>
    <3>1. Command(n) \in Seq(Pieces) /\ Len(Command(n)) = n
      BY <1>3, CommandIs
    <3>2. k \in 0..Len(Command(n)) /\ 1 \in Nat \ {0} /\ 1 <= k
      BY <1>3, <3>1
    <3> QED BY <3>1, <3>2, SubSeqStep
  <2> HIDE DEF x
  <2>4. /\ inbuf[c] \o x \in Seq(Pieces) /\ inbuf[c] \o x # << >>
        /\ inbuf[c] = << >> => inbuf[c] \o x = x
    BY <2>1, <2>3, ConcatStep
  <2>5. /\ inbuf'[c] \in Seq(Pieces) /\ inbuf'[c] # << >>
        /\ \A d \in Clients : d # c => inbuf'[d] = inbuf[d]
        /\ inbuf' \in [Clients -> Seq(Pieces)] /\ (inbuf[c] = << >> => inbuf'[c] = x)
    BY <2>1, <2>2, <2>4
  <2> QED BY <2>5 DEF x
<1>5. Types'
  <2>1. asked' \in [Clients -> Nat]
    BY DEF ServerInv, Types
  <2>2. split' \in [Clients -> Nat]
    BY <1>2, <1>3 DEF ServerInv, Types
  <2> QED BY <1>4, <2>1, <2>2 DEF ServerInv, Types
<1>6. Listens' /\ Table' /\ Waiting' /\ OnlyLeaversClosed'
  BY DEF ServerInv, Types, Listens, Table, InMap, Waiting, OnlyLeaversClosed
<1>7. Polled'
  BY <1>4 DEF ServerInv, Types, Polled, Readable
<1>8. Patience'
  <2> SUFFICES ASSUME ReadWhole, NEW d \in Patient PROVE Awaits(d)'
    BY DEF Patience
  <2>0. d \in Clients /\ Pending(d)' = Pending(d) /\ Pending(d) \in {0, 1} /\ Awaits(d)
    BY DEF Clients, Pending, ServerInv, Patience
  <2>1. CASE d = c
    <3>1. Arrived(d) \in {0, 1} /\ (Arrived(d) = 0 => inbuf[d] = << >>)
      BY DEF Arrived
    <3>2. Len(out[d]) \in Nat /\ asked[d] = got[d] /\ asked[d] \in Nat /\ got[d] \in Nat
      BY <2>0, <2>1, LenOfSeq DEF ServerInv, Types
    <3>3. Arrived(d) + Pending(d) + Len(out[d]) = 0
      BY <2>0, <2>1, <3>1, <3>2 DEF Awaits, OneUnderWay
    <3>4. inbuf[d] = << >> /\ Arrived(d) = 0
      BY <2>0, <3>1, <3>2, <3>3
    <3>5. inbuf'[d] = Command(n) /\ n \in 1..PatientLen /\ Arrived(d)' = 1 /\ split'[d] = 0
      <4>1. k = n /\ n \in 1..PatientLen
        BY <1>3, <2>1
      <4>2. inbuf'[d] = Command(n)
        BY <1>3, <1>4, <2>1, <3>4, <4>1, CommandIs
      <4>3. split'[d] = n - n
        BY <1>2, <2>0, <2>1, <4>1 DEF ServerInv, Types
      <4> QED BY <1>4, <2>1, <4>1, <4>2, <4>3 DEF Arrived
    <3>6. asked'[d] = asked[d] + 1 /\ got' = got /\ out' = out
      BY <2>0, <2>1 DEF ServerInv, Types
    <3>7. conn[d] # "new" /\ conn' = conn
      BY <2>1 DEF Connected
    <3>8. out'[d] \in Seq({"answer"}) /\ (pc' = "write" /\ connections_'[at'] = d => reply' = "answer")
      BY <2>0, <3>6 DEF Awaits
    <3>9. Arrived(d)' + Pending(d)' + Len(out'[d]) = asked'[d] - got'[d] /\ asked'[d] - got'[d] <= 1
      <4>1. /\ Arrived(d)' = Arrived(d) + 1 /\ Pending(d)' = Pending(d)
            /\ out'[d] = out[d] /\ asked'[d] = asked[d] + 1 /\ got'[d] = got[d]
            /\ Pending(d) \in Nat /\ Arrived(d) \in Nat
        BY <2>0, <3>4, <3>5, <3>6
      <4> QED BY <3>2, <3>3, <4>1, OneSentMore, SMTT(30)
    <3>10. OneCommand(inbuf'[d])
      BY <3>5 DEF OneCommand
    <3> QED BY <3>5, <3>6, <3>7, <3>8, <3>9, <3>10 DEF Awaits, OneUnderWay
  <2>2. CASE d # c
    <3>1. inbuf'[d] = inbuf[d] /\ split'[d] = split[d] /\ asked'[d] = asked[d]
      BY <1>2, <1>4, <2>0, <2>2 DEF ServerInv, Types
    <3> QED BY <2>0, <3>1 DEF Awaits, OneUnderWay, Arrived, Connected
  <2> QED BY <2>1, <2>2
<1> QED BY <1>5, <1>6, <1>7, <1>8 DEF ServerInv

LEMMA RestKeeps ==
    ASSUME ServerInv, NEW c \in Clients, Rest(c)
    PROVE  ServerInv'
<1> USE ServerAssumption DEF Rest, sockets, loop, current, signals
<1>1. /\ inbuf'[c] \in Seq(Pieces) /\ inbuf'[c] # << >>
      /\ \A d \in Clients : d # c => inbuf'[d] = inbuf[d]
      /\ inbuf' \in [Clients -> Seq(Pieces)]
  <2> DEFINE n == split[c] + 1
             x == Tail(Command(n))
  <2>1. inbuf[c] \in Seq(Pieces) /\ inbuf \in [Clients -> Seq(Pieces)] /\ n \in Nat \ {0} /\ n > 1
    BY DEF ServerInv, Types
  <2>2. inbuf' = [inbuf EXCEPT ![c] = inbuf[c] \o x]
    OBVIOUS
  <2>3. x \in Seq(Pieces) /\ x # << >>
    <3> HIDE DEF n
    <3>1. Command(n) \in Seq(Pieces) /\ Command(n) # << >> /\ Len(Command(n)) = n
      BY <2>1, CommandIs
    <3>2. x \in Seq(Pieces) /\ Len(x) = n - 1
      BY <3>1, TailStep
    <3> HIDE DEF x
    <3>3. Len(x) # 0
      BY <2>1, <3>2
    <3> QED BY <3>2, <3>3, LenOfSeq
  <2> HIDE DEF x
  <2>4. inbuf[c] \o x \in Seq(Pieces) /\ inbuf[c] \o x # << >>
    BY <2>1, <2>3, ConcatStep
  <2> QED BY <2>1, <2>2, <2>4
<1>2. Types'
  BY <1>1 DEF ServerInv, Types
<1>3. Listens' /\ Table' /\ Waiting' /\ OnlyLeaversClosed'
  BY DEF ServerInv, Types, Listens, Table, InMap, Waiting, OnlyLeaversClosed
<1>4. Polled'
  BY <1>1 DEF ServerInv, Types, Polled, Readable
<1>5. Patience'
  <2> SUFFICES ASSUME ReadWhole PROVE Patience'
    BY DEF Patience
  <2>1. \A d \in Patient : d \in Clients /\ d # c /\ Pending(d)' = Pending(d) /\ split'[d] = split[d]
    BY DEF ServerInv, Types, Patience, Awaits, Clients, Pending
  <2> QED BY <1>1, <2>1 DEF ServerInv, Types, Patience, Awaits, OneUnderWay, Arrived, Connected
<1> QED BY <1>2, <1>3, <1>4, <1>5 DEF ServerInv

LEMMA ReceiveKeeps ==
    ASSUME ServerInv, NEW c \in Clients, Receive(c)
    PROVE  ServerInv'
<1> USE ServerAssumption DEF Receive, sockets, loop, current, signals
<1>1. /\ out'[c] \in Seq(Replies) /\ Len(out'[c]) = Len(out[c]) - 1 /\ Len(out[c]) \in Nat
      /\ \A d \in Clients : d # c => out'[d] = out[d]
      /\ out' \in [Clients -> Seq(Replies)]
  BY TailStep DEF ServerInv, Types
<1>2. Types'
  <2>1. \A d \in Clients : Len(out'[d]) <= SndBuf
    BY <1>1 DEF ServerInv, Types
  <2>2. got' \in [Clients -> Nat]
    BY DEF ServerInv, Types
  <2> QED BY <1>1, <2>1, <2>2 DEF ServerInv, Types
<1>3. Listens' /\ Table' /\ Waiting' /\ Polled' /\ OnlyLeaversClosed'
  BY DEF ServerInv, Types, Listens, Table, InMap, Waiting, Polled, Readable, OnlyLeaversClosed
<1>4. Patience'
  <2> SUFFICES ASSUME ReadWhole, NEW d \in Patient PROVE Awaits(d)'
    BY DEF Patience
  <2>1. /\ d \in Clients /\ Awaits(d)
        /\ Pending(d)' = Pending(d) /\ Pending(d) \in {0, 1}
        /\ Arrived(d)' = Arrived(d) /\ Arrived(d) \in {0, 1}
    BY DEF Clients, Pending, Arrived, ServerInv, Patience
  <2>2. CASE d = c
    <3>1. got'[d] = got[d] + 1 /\ asked[d] \in Nat /\ got[d] \in Nat /\ conn[d] # "new" /\ Connected(d)
      BY <2>1, <2>2 DEF ServerInv, Types, Connected
    <3>2. out'[d] \in Seq({"answer"})
      BY <2>1, <2>2, TailStep DEF Awaits, ServerInv, Types
    <3>3. Arrived(d) + Pending(d) + Len(out[d]) = asked[d] - got[d] /\ asked[d] - got[d] <= 1
      BY <2>1, <3>1 DEF Awaits, OneUnderWay
    <3>4. /\ Len(out'[d]) = Len(out[d]) - 1 /\ Len(out[d]) \in Nat
          /\ Arrived(d) \in Nat /\ Pending(d) \in Nat
      BY <1>1, <2>1, <2>2
    <3>5. Arrived(d)' + Pending(d)' + Len(out'[d]) = asked[d] - got'[d] /\ asked[d] - got'[d] <= 1
      BY <2>1, <3>1, <3>3, <3>4, OneReadLess
    <3> QED BY <2>1, <3>1, <3>2, <3>5 DEF Awaits, OneUnderWay
  <2>3. CASE d # c
    <3>1. out'[d] = out[d] /\ got'[d] = got[d]
      BY <1>1, <2>1, <2>3 DEF ServerInv, Types
    <3> QED BY <2>1, <3>1 DEF Awaits, OneUnderWay, Connected
  <2> QED BY <2>2, <2>3
<1> QED BY <1>2, <1>3, <1>4 DEF ServerInv

LEMMA LeaveKeeps ==
    ASSUME ServerInv, NEW c \in Clients, Leave(c)
    PROVE  ServerInv'
<1> USE ServerAssumption DEF Leave, sockets, loop, current, signals
<1>1. /\ inbuf' \in [Clients -> Seq(Pieces)] /\ inbuf'[c] \in {inbuf[c], << >>}
      /\ left' \in [Clients -> {"no", "eof", "rst"}] /\ left'[c] # "no"
      /\ \A d \in Clients : d # c => inbuf'[d] = inbuf[d] /\ left'[d] = left[d]
  BY EmptyStep DEF ServerInv, Types
<1>2. Types'
  BY <1>1 DEF ServerInv, Types
<1>3. Listens' /\ Table' /\ Waiting'
  BY DEF ServerInv, Types, Listens, Table, InMap, Waiting
<1>4. Polled' /\ OnlyLeaversClosed'
  BY <1>1 DEF ServerInv, Types, Polled, Readable, OnlyLeaversClosed
<1>5. Patience'
  <2>1. \A d \in Patient : d \in Clients /\ Pending(d)' = Pending(d)
    BY DEF Clients, Pending
  <2> QED BY <1>1, <2>1 DEF ServerInv, Patience, Awaits, OneUnderWay, Arrived, OneCommand, Connected
<1> QED BY <1>2, <1>3, <1>4, <1>5 DEF ServerInv

-----------------------------------------------------------------------------
\* A round of the event loop.

LEMMA PollKeeps == ServerInv /\ Poll => ServerInv'
<1> SUFFICES ASSUME ServerInv, Poll PROVE ServerInv'
  OBVIOUS
<1> DEFINE ready == {f \in InMap : Readable(kernel[f])}
<1>1. CASE should_stop_
  <2>1. pc = "top" /\ pc' = "over" /\ poll_args' = poll_args
    BY <1>1 DEF Poll
  <2> QED BY <2>1, OnlyPlaceKeeps DEF Poll
<1>2. CASE ~should_stop_
  <2> USE ServerAssumption DEF sockets, current, signals, client
  <2>0. /\ pc = "top" /\ pc' \in {"accept", "process"} /\ poll_args' = ready
        /\ UNCHANGED <<sockets, current, signals, conn, backlog, client, inbuf, out>>
    BY <1>2, Zenon DEF Poll
  <2>1. ready \subseteq Fds /\ \A f \in ready : connections_[f] \in Clients /\ Readable(connections_[f])
    <3> SUFFICES ASSUME NEW f \in ready
                 PROVE  f \in Fds /\ connections_[f] \in Clients /\ Readable(connections_[f])
      OBVIOUS
    <3>1. f \in Fds /\ connections_[f] # Free /\ Readable(kernel[f])
      BY DEF InMap
    <3>2. connections_[f] \in Clients /\ kernel[f] = connections_[f]
      BY <3>1 DEF ServerInv, Types, Listens, Table
    <3> QED BY <3>1, <3>2
  <2> HIDE DEF ready
  <2>2. Types'
    BY <2>0, <2>1 DEF ServerInv, Types
  <2>3. Listens' /\ Table' /\ Waiting' /\ OnlyLeaversClosed'
    BY <2>0 DEF ServerInv, Types, Listens, Table, InMap, Waiting, OnlyLeaversClosed
  <2>4. Polled'
    BY <2>0, <2>1 DEF Polled, Readable
  <2>5. Patience'
    BY <2>0 DEF ServerInv, Patience, Awaits, OneUnderWay, Arrived, Connected, Pending
  <2> QED BY <2>2, <2>3, <2>4, <2>5 DEF ServerInv
<1> QED BY <1>1, <1>2

\* Taking the first client off the queue.
LEMMA BacklogShrinks ==
    ASSUME ServerInv, backlog # << >>, backlog' = Tail(backlog),
           NEW state \in {"open", "dropped"}, conn' = [conn EXCEPT ![Head(backlog)] = state]
    PROVE  /\ backlog' \in Seq(Clients) /\ Waiting'
           /\ Head(backlog) \in Clients /\ conn[Head(backlog)] = "backlog"
<1> DEFINE c == Head(backlog)
           n == Len(backlog)
<1>1. /\ backlog' \in Seq(Clients) /\ Len(backlog') = n - 1 /\ n \in Nat \ {0}
      /\ c \in Clients /\ c = backlog[1]
      /\ \A i \in 1..n - 1 : backlog'[i] = backlog[i + 1]
  BY TailStep DEF ServerInv, Types
<1>2. /\ \A i \in 1..n : conn[backlog[i]] = "backlog" /\ backlog[i] \in Clients
      /\ \A i, j \in 1..n : backlog[i] = backlog[j] => i = j
  BY ElementOfSeq DEF ServerInv, Types, Waiting
<1> HIDE DEF n
<1>3. \A i \in 1..n - 1 : i + 1 \in 1..n /\ 1 \in 1..n /\ i + 1 # 1
  BY <1>1
<1>4. \A i \in 1..n - 1 : backlog'[i] \in Clients /\ backlog'[i] # c /\ conn[backlog'[i]] = "backlog"
  BY <1>1, <1>2, <1>3
<1>5. \A d \in Clients : d # c => conn'[d] = conn[d]
  BY <1>1 DEF ServerInv, Types
<1>6. \A i, j \in 1..n - 1 : backlog'[i] = backlog'[j] => i = j
  <2> TAKE i, j \in 1..n - 1
  <2> HAVE backlog'[i] = backlog'[j]
  <2>1. backlog[i + 1] = backlog[j + 1]
    BY <1>1
  <2>2. i + 1 = j + 1
    BY <1>2, <1>3, <2>1
  <2> QED BY <1>1, <2>2
<1>7. Waiting'
  BY <1>1, <1>4, <1>5, <1>6 DEF Waiting
<1> QED BY <1>1, <1>2, <1>3, <1>7

LEMMA AcceptKeeps == ServerInv /\ Accept => ServerInv'
<1> SUFFICES ASSUME ServerInv, Accept PROVE ServerInv'
  OBVIOUS
<1> DEFINE c == Head(backlog)
<1> USE ServerAssumption DEF loop, current, signals, client
<1>0. /\ pc = "accept" /\ Listening /\ backlog # << >> /\ FreeFds # {}
      /\ backlog' = Tail(backlog)
      /\ kernel' = [kernel EXCEPT ![Lowest] = c]
      /\ connections_' = [connections_ EXCEPT ![Lowest] = IF @ = Free THEN c ELSE @]
      /\ conn' = [conn EXCEPT ![c] = "open"]
      /\ UNCHANGED <<listen_fd, loop, signals, client, inbuf, out>>
  BY DEF Accept
<1>1. Lowest \in Fds /\ kernel[Lowest] = Free
  BY <1>0, LowestIsFree
<1>2. backlog' \in Seq(Clients) /\ Waiting' /\ c \in Clients /\ conn[c] = "backlog"
  BY <1>0, BacklogShrinks
<1>3. connections_[Lowest] = Free /\ listen_fd # Lowest
  BY <1>0, <1>1 DEF ServerInv, Types, Listens, Table, Listening
<1>4. connections_' = [connections_ EXCEPT ![Lowest] = c]
  BY <1>0, <1>3
<1> HIDE DEF c
<1>5. Types'
  <2>1. /\ kernel' \in [Fds -> Clients \cup {"listen", Free}]
        /\ connections_' \in [Fds -> Clients \cup {Free}]
        /\ conn' \in [Clients -> {"new", "backlog", "open", "dropped", "closed", "failed"}]
    BY <1>0, <1>1, <1>2, <1>4, SMTT(30) DEF ServerInv, Types
  <2> QED BY <1>0, <1>2, <2>1, Zenon DEF ServerInv, Types
<1>6. Listens'
  <2>1. \A f \in Fds : kernel'[f] = "listen" => f = listen_fd
    BY <1>0, <1>1, <1>2 DEF ServerInv, Types, Listens
  <2>2. listen_fd \in Fds => connections_'[listen_fd] = Free
    BY <1>1, <1>3, <1>4 DEF ServerInv, Types, Listens
  <2> QED BY <1>0, <2>1, <2>2 DEF ServerInv, Listens
<1>7. Table'
  <2>1. \A f \in Fds : connections_[f] # c
    BY <1>2 DEF ServerInv, Types, Table
  <2>2. /\ \A f \in Fds : f # Lowest => kernel'[f] = kernel[f] /\ connections_'[f] = connections_[f]
        /\ kernel'[Lowest] = c /\ connections_'[Lowest] = c
        /\ \A d \in Clients : d # c => conn'[d] = conn[d]
        /\ conn'[c] = "open"
    BY <1>0, <1>1, <1>2, <1>4 DEF ServerInv, Types
  <2>3. \A f \in Fds : kernel'[f] # "listen" => kernel'[f] = connections_'[f]
    BY <2>2 DEF ServerInv, Table
  <2>4. \A d \in Clients : conn'[d] = "open" <=> \E f \in Fds : connections_'[f] = d
    BY <1>1, <1>3, <2>1, <2>2 DEF ServerInv, Table
  <2>5. \A f, g \in Fds : connections_'[f] # Free /\ connections_'[f] = connections_'[g] => f = g
    BY <2>1, <2>2 DEF ServerInv, Table, InMap
  <2> QED BY <2>3, <2>4, <2>5 DEF Table, InMap
<1>8. Polled'
  <2>1. \A f \in poll_args : f # Lowest /\ connections_'[f] = connections_[f]
    BY <1>0, <1>1, <1>3, <1>4 DEF ServerInv, Types, Polled
  <2> QED BY <1>0, <2>1 DEF ServerInv, Types, Polled, Readable
<1>9. OnlyLeaversClosed'
  BY <1>0, <1>2 DEF ServerInv, Types, OnlyLeaversClosed
<1>10. Patience'
  <2>1. \A d \in Patient : /\ d \in Clients /\ Pending(d)' = Pending(d)
                           /\ conn'[d] \in {"new", "backlog", "open"} => Connected(d)' = Connected(d)
    BY <1>0, <1>2 DEF Clients, Pending, ServerInv, Types, Connected
  <2> QED BY <1>0, <1>2, <2>1 DEF ServerInv, Types, Patience, Awaits, OneUnderWay, Arrived, Connected
<1> QED BY <1>2, <1>5, <1>6, <1>7, <1>8, <1>9, <1>10 DEF ServerInv

LEMMA AcceptDropsKeeps == ServerInv /\ AcceptDrops => ServerInv'
<1> SUFFICES ASSUME ServerInv, AcceptDrops PROVE ServerInv'
  OBVIOUS
<1> DEFINE c == Head(backlog)
<1> USE ServerAssumption DEF sockets, loop, current, signals, client
<1>0. /\ pc = "accept" /\ backlog # << >> /\ backlog' = Tail(backlog)
      /\ conn' = [conn EXCEPT ![c] = "dropped"]
      /\ UNCHANGED <<sockets, loop, signals, client, inbuf, out>>
  BY DEF AcceptDrops
<1>1. backlog' \in Seq(Clients) /\ Waiting' /\ c \in Clients /\ conn[c] = "backlog"
  BY <1>0, BacklogShrinks
<1> HIDE DEF c
<1>2. Types'
  BY <1>0, <1>1 DEF ServerInv, Types
<1>3. Listens' /\ Table' /\ Polled' /\ OnlyLeaversClosed'
  <2>1. Listens'
    BY <1>0 DEF ServerInv, Listens
  <2>2. Table'
    <3>1. \A d \in Clients : conn'[d] = "open" <=> conn[d] = "open"
      BY <1>0, <1>1 DEF ServerInv, Types
    <3>2. kernel' = kernel /\ connections_' = connections_ /\ Table
      BY <1>0 DEF ServerInv
    <3> QED BY <3>1, <3>2 DEF Table, InMap
  <2>3. Polled'
    BY <1>0 DEF ServerInv, Polled, Readable
  <2>4. OnlyLeaversClosed'
    BY <1>0, <1>1 DEF ServerInv, Types, OnlyLeaversClosed
  <2> QED BY <2>1, <2>2, <2>3, <2>4
<1>4. Patience'
  <2>1. \A d \in Patient : d \in Clients /\ Pending(d)' = Pending(d)
    BY <1>0 DEF Clients, Pending
  <2> QED BY <1>0, <1>1, <2>1 DEF ServerInv, Types, Patience, Awaits, OneUnderWay, Arrived, Connected
<1> QED BY <1>1, <1>2, <1>3, <1>4 DEF ServerInv

\* A connection has one descriptor, which is not the one of the listening socket.
LEMMA OneDescriptor ==
    ASSUME ServerInv, NEW f \in Fds, connections_[f] \in Clients
    PROVE  /\ conn[connections_[f]] = "open" /\ f # listen_fd
           /\ \A g \in Fds : connections_[g] = connections_[f] => g = f
<1>1. connections_[f] # Free
  BY ServerAssumption
<1>2. f # listen_fd
  BY <1>1 DEF ServerInv, Listens
<1>3. conn[connections_[f]] = "open"
  BY DEF ServerInv, Table
<1>4. \A g \in Fds : connections_[g] = connections_[f] => g = f
  BY <1>1 DEF ServerInv, Table, InMap
<1> QED BY <1>2, <1>3, <1>4

(* remove_connection closes the descriptor with the connection, and what   *)
(* it removes was open.                                                    *)
LEMMA RemoveKeeps ==
    ASSUME ServerInv, NEW f \in Fds, connections_[f] \in Clients, pc = "process",
           NEW why \in {"closed", "failed"}, remove_connection(f, why),
           poll_args' = poll_args \ {f},
           inbuf' = [inbuf EXCEPT ![connections_[f]] = << >>],
           why = "closed" => left[connections_[f]] # "no",
           UNCHANGED <<pc, current, signals, backlog, client, out>>
    PROVE  ServerInv'
<1> DEFINE c == connections_[f]
<1> USE ServerAssumption DEF current, signals, client
<1>0. /\ connections_' = [connections_ EXCEPT ![f] = Free]
      /\ kernel' = [kernel EXCEPT ![f] = Free]
      /\ conn' = [conn EXCEPT ![c] = why]
      /\ listen_fd' = listen_fd
  BY DEF remove_connection
<1>1. /\ conn[c] = "open" /\ \A g \in Fds : connections_[g] = c => g = f
      /\ c \in Clients /\ f # listen_fd
  BY OneDescriptor
<1>2. /\ inbuf' \in [Clients -> Seq(Pieces)] /\ inbuf'[c] = << >>
      /\ \A d \in Clients : d # c => inbuf'[d] = inbuf[d] /\ conn'[d] = conn[d]
      /\ conn'[c] = why
  BY <1>0, <1>1, EmptyStep DEF ServerInv, Types
<1>3. /\ \A g \in Fds : g # f => kernel'[g] = kernel[g] /\ connections_'[g] = connections_[g]
      /\ kernel'[f] = Free /\ connections_'[f] = Free
  BY <1>0 DEF ServerInv, Types
<1>4. Types'
  BY <1>0, <1>2 DEF ServerInv, Types
<1>5. Listens'
  BY <1>0, <1>3 DEF ServerInv, Types, Listens
<1>6. Table'
  <2>1. \A g \in Fds : kernel'[g] # "listen" => kernel'[g] = connections_'[g]
    BY <1>3 DEF ServerInv, Table
  <2>2. \A d \in Clients : conn'[d] = "open" <=> \E g \in Fds : connections_'[g] = d
    BY <1>1, <1>2, <1>3 DEF ServerInv, Table
  <2>3. \A g, h \in Fds : connections_'[g] # Free /\ connections_'[g] = connections_'[h] => g = h
    BY <1>3 DEF ServerInv, Table, InMap
  <2> QED BY <2>1, <2>2, <2>3 DEF Table, InMap
<1>7. Waiting'
  <2>1. \A i \in 1..Len(backlog) : conn[backlog[i]] = "backlog" /\ backlog[i] \in Clients
    BY ElementOfSeq DEF ServerInv, Types, Waiting
  <2>2. \A i \in 1..Len(backlog) : conn'[backlog[i]] = "backlog"
    BY <1>1, <1>2, <2>1
  <2> QED BY <2>2 DEF ServerInv, Waiting
<1>8. Polled'
  <2>1. \A g \in poll_args' : /\ connections_'[g] = connections_[g] /\ connections_[g] # c
                              /\ connections_[g] \in Clients /\ Readable(connections_[g])
    BY <1>1, <1>3 DEF ServerInv, Types, Polled
  <2> QED BY <1>2, <2>1 DEF Polled, Readable
<1>9. OnlyLeaversClosed'
  BY <1>2 DEF ServerInv, OnlyLeaversClosed
<1>10. Patience'
  <2>1. \A d \in Patient : d \in Clients /\ Pending(d)' = 0 /\ Pending(d) = 0
    BY DEF Clients, Pending
  <2> QED BY <1>2, <2>1 DEF ServerInv, Patience, Awaits, OneUnderWay, Arrived, OneCommand, Connected
<1> QED BY <1>4, <1>5, <1>6, <1>7, <1>8, <1>9, <1>10 DEF ServerInv

LEMMA ReadKeeps ==
    ASSUME ServerInv, NEW f \in Fds, Read(f)
    PROVE  ServerInv'
<1> DEFINE c == connections_[f]
<1> USE ServerAssumption
<1>0. /\ pc = "process" /\ f \in poll_args
      /\ UNCHANGED <<signals, backlog, client, out>>
  BY DEF Read
<1>1. /\ c \in Clients /\ Readable(c) /\ \A g \in Fds : connections_[g] = c => g = f
  BY <1>0, OneDescriptor DEF ServerInv, Types, Polled
<1>2. CASE inbuf[c] = << >>
  <2>1. /\ remove_connection(f, "closed") /\ poll_args' = poll_args \ {f}
        /\ UNCHANGED <<pc, current, inbuf>>
    BY <1>2 DEF Read
  <2>2. left[c] # "no"
    BY <1>1, <1>2 DEF Readable
  <2>3. inbuf' = [inbuf EXCEPT ![c] = << >>]
    BY <1>1, <1>2, <2>1 DEF ServerInv, Types
  <2> QED BY <1>0, <1>1, <2>1, <2>2, <2>3, RemoveKeeps
<1>3. CASE inbuf[c] # << >>
  <2> USE DEF sockets, signals, client
  <2>0. /\ pc' = "write" /\ at' = f
        /\ reply' = Understood(Taken(inbuf[c]))
        /\ inbuf' = [inbuf EXCEPT ![c] = Remains(@)]
        /\ UNCHANGED <<sockets, conn, poll_args>>
    BY <1>3 DEF Read
  <2>1. /\ inbuf' \in [Clients -> Seq(Pieces)] /\ inbuf'[c] = Remains(inbuf[c])
        /\ \A d \in Clients : d # c => inbuf'[d] = inbuf[d]
    <3>1. inbuf[c] \in Seq(Pieces)
      BY <1>1 DEF ServerInv, Types
    <3>2. Len(inbuf[c]) \in Nat /\ ReadBuf + 1 \in Nat \ {0} /\ << >> \in Seq(Pieces)
      BY <3>1, LenProperties, EmptyStep
    <3>3. SubSeq(inbuf[c], ReadBuf + 1, Len(inbuf[c])) \in Seq(Pieces)
      BY <3>1, <3>2, SubSeqStep
    <3>4. Remains(inbuf[c]) \in Seq(Pieces)
      BY <3>2, <3>3 DEF Remains
    <3> QED BY <1>1, <2>0, <3>4 DEF ServerInv, Types
  <2>2. reply' \in {"answer", "misread"}
    BY <2>0 DEF Understood
  <2>3. Types'
    BY <1>0, <2>0, <2>1, <2>2 DEF ServerInv, Types
  <2>4. Listens' /\ Table' /\ Waiting' /\ OnlyLeaversClosed'
    BY <1>0, <2>0 DEF ServerInv, Types, Listens, Table, InMap, Waiting, OnlyLeaversClosed
  <2>5. Polled'
    <3>1. \A g \in poll_args : /\ connections_[g] \in Clients /\ Readable(connections_[g])
                               /\ g # f => connections_[g] # c
      BY <1>0, <1>1 DEF ServerInv, Types, Polled
    <3> QED BY <1>0, <1>1, <2>0, <2>1, <2>2, <3>1 DEF Polled, Readable
  <2>6. Patience'
    <3> SUFFICES ASSUME ReadWhole, NEW d \in Patient PROVE Awaits(d)'
      BY DEF Patience
    <3>0. /\ d \in Clients /\ Awaits(d) /\ Pending(d) = 0 /\ Pending(d)' = IF d = c THEN 1 ELSE 0
          /\ Connected(d)' => Connected(d)
      BY <1>0, <2>0 DEF Clients, Pending, Connected, ServerInv, Patience
    <3>1. CASE d = c
      <4>1. PICK n \in 1..PatientLen : inbuf[c] = Command(n)
        BY <1>3, <3>0, <3>1 DEF Awaits, OneCommand
      <4>2. n \in Nat \ {0} /\ n <= ReadBuf
        BY DEF ReadWhole
      <4>3. Len(inbuf[c]) = n
        BY <4>1, <4>2, CommandIs
      <4>4. Taken(inbuf[c]) = Command(n) /\ Remains(inbuf[c]) = << >>
        BY <4>1, <4>2, <4>3 DEF Taken, Remains
      <4>5. inbuf'[c] = << >> /\ reply' = "answer"
        BY <2>0, <2>1, <4>1, <4>3, <4>4 DEF Understood
      <4>6. Arrived(d) = 1 /\ Arrived(d)' = 0
        BY <1>3, <3>1, <4>5 DEF Arrived
      <4>7. Len(out[d]) \in Nat /\ out' = out /\ asked' = asked /\ got' = got
        BY <1>0, <3>0, LenOfSeq DEF ServerInv, Types
      <4>8. Connected(d) => /\ Arrived(d)' + Pending(d)' + Len(out'[d]) = asked'[d] - got'[d]
                            /\ asked'[d] - got'[d] <= 1
        BY <3>0, <3>1, <4>6, <4>7 DEF Awaits, OneUnderWay
      <4>9. conn[d] # "new" /\ conn' = conn /\ split' = split
        BY <1>0, <1>1, <2>0, <3>1, OneDescriptor
      <4>10. OneCommand(inbuf'[d])
        BY <3>1, <4>5 DEF OneCommand
      <4> QED BY <3>0, <4>5, <4>7, <4>8, <4>9, <4>10 DEF Awaits, OneUnderWay
    <3>2. CASE d # c
      BY <1>0, <2>0, <2>1, <3>0, <3>2 DEF Awaits, OneUnderWay, Arrived
    <3> QED BY <3>1, <3>2
  <2> QED BY <2>3, <2>4, <2>5, <2>6 DEF ServerInv
<1> QED BY <1>2, <1>3

LEMMA CommandThrowsKeeps ==
    ASSUME ServerInv, NEW f \in Fds, CommandThrows(f)
    PROVE  ServerInv'
<1>1. pc = "process" /\ connections_[f] \in Clients
  BY DEF CommandThrows, ServerInv, Polled
<1> QED BY <1>1, RemoveKeeps DEF CommandThrows

LEMMA WriteKeeps == ServerInv /\ Write => ServerInv'
<1> SUFFICES ASSUME ServerInv, Write PROVE ServerInv'
  OBVIOUS
<1> DEFINE c == connections_[at]
<1> USE ServerAssumption DEF sockets, signals
<1>0. /\ pc = "write" /\ pc' = "process" /\ at' = 0 /\ reply' = "none"
      /\ poll_args' = poll_args \ {at}
      /\ left' = [left EXCEPT ![c] = IF @ = "eof" THEN "rst" ELSE @]
      /\ UNCHANGED <<sockets, signals, conn, backlog, split, asked, got, inbuf>>
  BY DEF Write
<1>1. at \in Fds /\ c \in Clients /\ at \in poll_args
  BY <1>0 DEF ServerInv, Types, Polled
<1>2. reply \in {"answer", "misread"}
  BY <1>0 DEF ServerInv, Polled
<1> PICK sent \in Written(c) : out' = [out EXCEPT ![c] = sent]
  BY DEF Write
<1>3. /\ sent \in Seq(Replies) /\ Len(sent) <= SndBuf
      /\ left[c] = "no" /\ out[c] = << >> => sent = <<reply>>
      /\ left[c] # "no" => sent = out[c]
  <2>1. out[c] \in Seq(Replies) /\ Len(out[c]) <= SndBuf
    BY <1>1 DEF ServerInv, Types
  <2>2. \A x \in {reply, "cut"} : /\ Append(out[c], x) \in Seq(Replies)
                                  /\ Len(Append(out[c], x)) = Len(out[c]) + 1 /\ Len(out[c]) \in Nat
    BY <1>2, <2>1, AppendStep DEF Replies
  <2>3. <<reply>> \in Seq(Replies) /\ Len(<<reply>>) = 1 /\ Len(<< >>) = 0
    BY <1>2, EmptyStep DEF Replies
  <2>4. CASE left[c] # "no" \/ Len(out[c]) >= SndBuf
    <3>1. sent = out[c]
      BY <2>4 DEF Written
    <3> QED BY <2>1, <2>3, <2>4, <3>1
  <2>5. CASE left[c] = "no" /\ ~(Len(out[c]) >= SndBuf) /\ out[c] = << >>
    <3>1. sent = <<reply>>
      BY <2>5 DEF Written
    <3> QED BY <2>3, <2>5, <3>1
  <2>6. CASE left[c] = "no" /\ ~(Len(out[c]) >= SndBuf) /\ out[c] # << >>
    <3> DEFINE y == Append(out[c], reply)
               z == Append(out[c], "cut")
    <3>1. sent \in {out[c], y, z}
      BY <2>6 DEF Written
    <3>2. /\ y \in Seq(Replies) /\ Len(y) = Len(out[c]) + 1
          /\ z \in Seq(Replies) /\ Len(z) = Len(out[c]) + 1
      BY <2>2
    <3>3. Len(out[c]) \in Nat /\ Len(out[c]) + 1 <= SndBuf
      BY <2>2, <2>6
    <3> HIDE DEF y, z
    <3> QED BY <2>1, <2>6, <3>1, <3>2, <3>3
  <2> QED BY <2>4, <2>5, <2>6
<1>4. /\ out' \in [Clients -> Seq(Replies)] /\ out'[c] = sent
      /\ left' \in [Clients -> {"no", "eof", "rst"}]
      /\ \A d \in Clients : /\ d # c => out'[d] = out[d]
                            /\ left'[d] = "no" <=> left[d] = "no"
  BY <1>0, <1>1, <1>3 DEF ServerInv, Types
<1>5. Types'
  <2>1. 0 \in Fds
    BY DEF Fds
  <2>2. \A d \in Clients : Len(out'[d]) <= SndBuf
    BY <1>3, <1>4 DEF ServerInv, Types
  <2>3. poll_args' \subseteq Fds
    BY <1>0 DEF ServerInv, Types
  <2> QED BY <1>0, <1>4, <2>1, <2>2, <2>3, Zenon DEF ServerInv, Types
<1>6. Listens' /\ Table' /\ Waiting'
  BY <1>0 DEF ServerInv, Types, Listens, Table, InMap, Waiting
<1>7. Polled' /\ OnlyLeaversClosed'
  BY <1>0, <1>4 DEF ServerInv, Types, Polled, Readable, OnlyLeaversClosed
<1>8. Patience'
  <2> SUFFICES ASSUME ReadWhole, NEW d \in Patient PROVE Awaits(d)'
    BY DEF Patience
  <2>0. /\ d \in Clients /\ Awaits(d)
        /\ Pending(d)' = 0 /\ Pending(d) = (IF d = c THEN 1 ELSE 0)
        /\ Connected(d)' => Connected(d) /\ left[d] = "no"
        /\ Arrived(d)' = Arrived(d) /\ Arrived(d) \in {0, 1}
    BY <1>0, <1>4 DEF Clients, Pending, Connected, Arrived, ServerInv, Patience
  <2>1. CASE d = c
    <3>1. reply = "answer" /\ conn[d] = "open" /\ out[d] \in Seq({"answer"})
      BY <1>0, <1>1, <2>0, <2>1, OneDescriptor DEF Awaits
    <3>2. /\ Len(out[d]) \in Nat /\ (Len(out[d]) = 0 => out[d] = << >>)
          /\ asked[d] \in Nat /\ got[d] \in Nat
      BY <2>0, <3>1, LenOfSeq DEF ServerInv, Types
    <3>3. ASSUME left[d] = "no"
          PROVE  /\ out[d] = << >> /\ sent = <<"answer">>
                 /\ Connected(d) => Arrived(d) = 0 /\ asked[d] - got[d] = 1
      <4>1. Connected(d)
        BY <1>0, <3>1, <3>3 DEF Connected
      <4>2. /\ Arrived(d) + 1 + Len(out[d]) = asked[d] - got[d]
            /\ asked[d] - got[d] <= 1 /\ Arrived(d) \in Nat
        BY <2>0, <2>1, <4>1 DEF Awaits, OneUnderWay
      <4>3. Len(out[d]) = 0 /\ Arrived(d) = 0 /\ asked[d] - got[d] = 1
        BY <3>2, <4>2, OneAnswered
      <4> QED BY <1>3, <2>1, <3>1, <3>2, <3>3, <4>3
    <3>4. <<"answer">> \in Seq({"answer"}) /\ Len(<<"answer">>) = 1
      OBVIOUS
    <3>5. out'[d] \in Seq({"answer"})
      BY <1>3, <1>4, <2>1, <3>1, <3>3, <3>4
    <3>6. Connected(d)' => OneUnderWay(d)'
      <4> SUFFICES ASSUME Connected(d)' PROVE OneUnderWay(d)'
        OBVIOUS
      <4>1. left[d] = "no" /\ Connected(d)
        BY <2>0
      <4>2. Len(out'[d]) = 1 /\ Arrived(d)' = 0 /\ asked[d] - got[d] = 1
        BY <1>4, <2>0, <2>1, <3>3, <3>4, <4>1
      <4>3. asked' = asked /\ got' = got /\ Pending(d)' = 0
        BY <1>0, <2>0
      <4>4. Arrived(d)' + Pending(d)' + Len(out'[d]) = asked'[d] - got'[d] /\ asked'[d] - got'[d] <= 1
        <5>1. asked'[d] - got'[d] = 1
          BY <4>2, <4>3
        <5>2. Arrived(d)' + Pending(d)' + Len(out'[d]) = 0 + 0 + 1
          BY <4>2, <4>3
        <5> QED BY <5>1, <5>2
      <4> QED BY <4>4 DEF OneUnderWay
    <3> QED BY <1>0, <2>0, <3>1, <3>5, <3>6 DEF Awaits
  <2>2. CASE d # c
    BY <1>0, <1>4, <2>0, <2>2 DEF Awaits, OneUnderWay
  <2> QED BY <2>1, <2>2
<1> QED BY <1>5, <1>6, <1>7, <1>8 DEF ServerInv

\* However the process ends, nothing is left that could break a promise.
LEMMA ProcessEndsKeeps ==
    ASSUME ServerInv, pc # "init", ProcessEnds
    PROVE  ServerInv'
<1> USE ServerAssumption DEF ProcessEnds, signals, client
<1>1. Types'
  <2>1. 0 \in Fds /\ << >> \in Seq(Clients) /\ << >> \in Seq(Pieces) /\ << >> \in Seq(Replies)
    BY EmptyStep DEF Fds
  <2>2. /\ inbuf' \in [Clients -> Seq(Pieces)] /\ out' \in [Clients -> Seq(Replies)]
        /\ \A c \in Clients : Len(out'[c]) <= SndBuf
    BY <2>1
  <2>3. /\ kernel' \in [Fds -> Clients \cup {"listen", Free}]
        /\ connections_' \in [Fds -> Clients \cup {Free}]
        /\ conn' \in [Clients -> {"new", "backlog", "open", "dropped", "closed", "failed"}]
    BY DEF ServerInv, Types
  <2> QED BY <2>1, <2>2, <2>3, Zenon DEF ServerInv, Types
<1>2. Listens' /\ Waiting' /\ Polled' /\ OnlyLeaversClosed'
  BY DEF ServerInv, Types, Listens, Waiting, Polled, OnlyLeaversClosed
<1>3. Table'
  <2>1. \A c \in Clients : conn'[c] # "open"
    BY DEF ServerInv, Types
  <2> QED BY <2>1 DEF Table, InMap
<1>4. Patience'
  <2>1. << >> \in Seq({"answer"}) /\ OneCommand(<< >>)
    BY EmptyStep DEF OneCommand
  <2>2. \A c \in Patient : /\ c \in Clients /\ (conn'[c] = "new" => conn[c] = "new")
                           /\ inbuf'[c] = << >> /\ out'[c] = << >>
    BY DEF Clients, ServerInv, Types
  <2> QED BY <2>1, <2>2 DEF ServerInv, Patience, Awaits, OneUnderWay, Arrived, Connected
<1> QED BY <1>1, <1>2, <1>3, <1>4 DEF ServerInv

-----------------------------------------------------------------------------
\* The signal handler.

LEMMA StopFlagKeeps == ServerInv /\ StopFlag => ServerInv'
<1> SUFFICES ASSUME ServerInv, StopFlag PROVE ServerInv'
  OBVIOUS
<1> USE ServerAssumption DEF StopFlag, sockets, loop, current, client
<1>1. Types' /\ Listens' /\ Table' /\ Waiting' /\ Polled' /\ OnlyLeaversClosed'
  BY DEF ServerInv, Types, Listens, Table, InMap, Waiting, Polled, Readable, OnlyLeaversClosed,
         Running
<1>2. Patience'
  BY DEF ServerInv, Patience, Awaits, OneUnderWay, Arrived, Connected, Pending
<1> QED BY <1>1, <1>2 DEF ServerInv

LEMMA StopCloseKeeps == ServerInv /\ StopClose => ServerInv'
<1> SUFFICES ASSUME ServerInv, StopClose PROVE ServerInv'
  OBVIOUS
<1> USE ServerAssumption DEF StopClose, loop, current, client
<1>1. listen_fd \in Fds /\ connections_[listen_fd] = Free
  BY DEF ServerInv, Types, Listens
<1>2. /\ \A f \in Fds : f # listen_fd => kernel'[f] = kernel[f]
      /\ kernel'[listen_fd] = Free /\ kernel' \in [Fds -> Clients \cup {"listen", Free}]
  BY <1>1 DEF ServerInv, Types
<1>3. Types' /\ Listens' /\ Waiting' /\ Polled' /\ OnlyLeaversClosed'
  BY <1>2 DEF ServerInv, Types, Listens, Waiting, Polled, Readable, OnlyLeaversClosed
<1>4. Table'
  BY <1>1, <1>2 DEF ServerInv, Types, Table, InMap
<1>5. Patience'
  BY DEF ServerInv, Patience, Awaits, OneUnderWay, Arrived, Connected, Pending
<1> QED BY <1>3, <1>4, <1>5 DEF ServerInv

-----------------------------------------------------------------------------
\* Every step keeps the invariant.
LEMMA ServerStep == ServerInv /\ [Next]_vars => ServerInv'
<1> SUFFICES ASSUME ServerInv, [Next]_vars PROVE ServerInv'
  OBVIOUS
<1>1. CASE Initialize
  BY <1>1, InitializeKeeps
<1>2. CASE InitializeFails \/ AcceptEnds \/ RoundEnds
  BY <1>2, OnlyPlaceKeeps DEF InitializeFails, AcceptEnds, RoundEnds
<1>3. CASE Poll \/ Accept \/ AcceptDrops \/ Write
  BY <1>3, PollKeeps, AcceptKeeps, AcceptDropsKeeps, WriteKeeps
<1>4. CASE WriteKills \/ Destroy \/ Exit \/ \E f \in Fds : CommandKills(f)
  <2>1. pc # "init" /\ ProcessEnds
    BY <1>4 DEF WriteKills, Destroy, Exit, CommandKills, ServerInv, Listens
  <2> QED BY <2>1, ProcessEndsKeeps
<1>5. CASE \E f \in Fds : Read(f) \/ CommandThrows(f)
  BY <1>5, ReadKeeps, CommandThrowsKeeps
<1>6. CASE StopFlag \/ StopClose
  BY <1>6, StopFlagKeeps, StopCloseKeeps
<1>7. CASE \E c \in Clients : Client(c)
  BY <1>7, ConnectKeeps, SendKeeps, RestKeeps, ReceiveKeeps, LeaveKeeps DEF Client
<1>8. CASE UNCHANGED vars
  <2> USE <1>8 DEF vars, sockets, loop, current, signals, client
  <2>1. Types' /\ Listens' /\ Table' /\ Waiting' /\ Polled' /\ OnlyLeaversClosed'
    BY DEF ServerInv, Types, Listens, Table, InMap, Waiting, Polled, Readable, OnlyLeaversClosed
  <2>2. Patience'
    BY DEF ServerInv, Patience, Awaits, OneUnderWay, Arrived, Connected, Pending
  <2> QED BY <2>1, <2>2 DEF ServerInv
<1> QED BY <1>1, <1>2, <1>3, <1>4, <1>5, <1>6, <1>7, <1>8 DEF Next, Round, Handler

(* The invariant of the event loop: what it says of descriptors, of the    *)
(* queue of the kernel and of a round holds in every reachable state, for  *)
(* any clients, descriptors, lengths of commands and buffers; what it says *)
(* of a patient client, when one read takes the longest of its commands.   *)
THEOREM ServerInvariant == Spec => []ServerInv
<1> QED BY ServerInit, ServerStep, PTL DEF Spec

(* Descriptors agree with connections in every reachable state: none       *)
(* leaks, none is closed under a connection, and stop, which closes a      *)
(* number it does not own by then, never hits one that was given out again.*)
THEOREM NoDescriptorLost == Spec => []DescriptorsSound
<1>1. ServerInv => DescriptorsSound
  <2> SUFFICES ASSUME ServerInv PROVE DescriptorsSound
    OBVIOUS
  <2>1. \A c \in Clients : /\ Range(inbuf[c]) \subseteq {"whole", "head", "body", "tail"}
                           /\ Range(out[c]) \subseteq Replies
    <3>1. \A c \in Clients : inbuf[c] \in Seq(Pieces) /\ out[c] \in Seq(Replies)
      BY DEF ServerInv, Types
    <3>2. \A c \in Clients : Range(inbuf[c]) \subseteq Pieces /\ Range(out[c]) \subseteq Replies
      BY <3>1, RangeOfSeq
    <3> QED BY <3>2 DEF Pieces
  <2>2. TypeOK
    BY <2>1 DEF ServerInv, Types, TypeOK
  <2>3. DescriptorsExact
    BY DEF ServerInv, Table, DescriptorsExact
  <2> QED BY <2>2, <2>3 DEF DescriptorsSound
<1> QED BY <1>1, ServerInvariant, PTL

(* The server closes no connection of a client that stayed, unless the     *)
(* process ends: a read after a poll finds what the poll promised, however *)
(* many connections are accepted, removed and numbered again in between.   *)
THEOREM NobodyCutOff == Spec => []OnlyLeaversClosed
<1>1. ServerInv => OnlyLeaversClosed
  BY DEF ServerInv
<1> QED BY <1>1, ServerInvariant, PTL

(* When a read takes the longest command a patient client sends, the       *)
(* command it waits for is in exactly one place and the reply is whole: no *)
(* reply is lost, cut, doubled or given to somebody else, whatever the     *)
(* other clients send, in however many pieces.                             *)
THEOREM RepliesMatchCommands ==
    ASSUME PatientLen <= ReadBuf PROVE Spec => []OneReplyPerCommand
<1>1. ServerInv => OneReplyPerCommand
  <2> SUFFICES ASSUME ServerInv, NEW c \in Patient, Connected(c)
               PROVE  OneUnderWay(c) /\ Range(out[c]) \subseteq {"answer"}
    BY DEF OneReplyPerCommand, OneUnderWay
  <2>1. Awaits(c)
    BY DEF ServerInv, Patience, ReadWhole
  <2>2. Range(out[c]) \subseteq {"answer"}
    BY <2>1, RangeOfSeq DEF Awaits
  <2> QED BY <2>1, <2>2 DEF Awaits
<1> QED BY <1>1, ServerInvariant, PTL
=============================================================================
