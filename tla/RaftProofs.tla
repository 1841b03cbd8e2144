----------------------------- MODULE RaftProofs -----------------------------
(***************************************************************************)
(* Proofs about Raft for any number of servers and any losses and restarts *)
(* of these: the types, election safety, log matching and what is applied  *)
(* on any transport, ordered or duplicating and reordering; the commit     *)
(* rule, from which the agreement of the committed logs and the asserts of *)
(* the library follow, on the ordered transport it relies on.              *)
(***************************************************************************)
EXTENDS Raft, FiniteSetTheorems, SequenceTheorems, WellFoundedInduction, TLAPS

NetType == [Servers -> [Servers -> Seq(Message)]]

\* m is in channel q.
In(q, m) == \E k \in 1..Len(q) : q[k] = m

\* At most one message for every node.
OutType == {out \in [Servers -> Seq(Message)] : \A j \in Servers : Len(out[j]) <= 1}

-----------------------------------------------------------------------------
\* The transport only removes messages and adds those sent.

LEMMA WithoutProperties ==
    ASSUME NEW S, NEW q \in Seq(S), NEW n \in 1..Len(q)
    PROVE  /\ Without(q, n) \in Seq(S)
           /\ \A m : In(Without(q, n), m) => In(q, m)
<1> DEFINE a == SubSeq(q, 1, n - 1)
           b == SubSeq(q, n + 1, Len(q))
<1>0. Len(q) \in Nat /\ \A k \in 1..Len(q) : q[k] \in S
  BY LenProperties, ElementOfSeq
<1>1. a \in Seq(S) /\ Len(a) = n - 1 /\ \A k \in 1..(n - 1) : a[k] = q[k]
  BY <1>0, SubSeqProperties
<1>2. b \in Seq(S) /\ Len(b) = Len(q) - n /\ \A k \in 1..(Len(q) - n) : b[k] = q[n + k]
  <2>1. \A k \in (n + 1) .. Len(q) : q[k] \in S
    BY <1>0
  <2>2. /\ b \in Seq(S)
        /\ Len(b) = IF n + 1 <= Len(q) THEN Len(q) - (n + 1) + 1 ELSE 0
        /\ \A k \in 1..(Len(q) - (n + 1) + 1) : b[k] = q[n + 1 + k - 1]
    BY <1>0, <2>1, SubSeqProperties
  <2> QED BY <1>0, <2>2
<1>3. /\ a \o b \in Seq(S)
      /\ Len(a \o b) = Len(a) + Len(b)
      /\ \A k \in 1..(Len(a) + Len(b)) : (a \o b)[k] = IF k <= Len(a) THEN a[k] ELSE b[k - Len(a)]
  BY <1>1, <1>2, ConcatProperties
<1> HIDE DEF a, b
<1>4. \A k \in 1..Len(a \o b) : \E k2 \in 1..Len(q) : (a \o b)[k] = q[k2]
  <2> SUFFICES ASSUME NEW k \in 1..Len(a \o b) PROVE \E k2 \in 1..Len(q) : (a \o b)[k] = q[k2]
    OBVIOUS
  <2>1. CASE k <= n - 1
    BY <1>0, <1>1, <1>2, <1>3, <2>1
  <2>2. CASE k > n - 1
    <3>1. (a \o b)[k] = q[k + 1] /\ k + 1 \in 1..Len(q)
      BY <1>0, <1>1, <1>2, <1>3, <2>2
    <3> QED BY <3>1
  <2> QED BY <1>0, <2>1, <2>2
<1> QED BY <1>3, <1>4 DEF Without, In, a, b

LEMMA EnqueueProperties ==
    ASSUME NEW S, NEW q \in Seq(S), NEW ms \in Seq(S), Len(ms) <= 1
    PROVE  /\ Enqueue(q, ms) \in Seq(S)
           /\ \A m : In(Enqueue(q, ms), m) => In(q, m) \/ In(ms, m)
<1>0. Len(q) \in Nat /\ Len(ms) \in Nat
  BY LenProperties
<1>1. ASSUME NEW p \in Seq(S),
             \A k \in 1..Len(p) : \E k2 \in 1..Len(q) : p[k] = q[k2]
      PROVE  /\ p \o ms \in Seq(S)
             /\ \A m : In(p \o ms, m) => In(q, m) \/ In(ms, m)
  <2>1. /\ p \o ms \in Seq(S)
        /\ Len(p \o ms) = Len(p) + Len(ms) /\ Len(p) \in Nat
        /\ \A k \in 1..(Len(p) + Len(ms)) :
              (p \o ms)[k] = IF k <= Len(p) THEN p[k] ELSE ms[k - Len(p)]
    BY ConcatProperties, LenProperties
  <2>2. ASSUME NEW k \in 1..Len(p \o ms)
        PROVE \/ \E k2 \in 1..Len(q) : (p \o ms)[k] = q[k2]
              \/ \E k2 \in 1..Len(ms) : (p \o ms)[k] = ms[k2]
    <3>1. CASE k <= Len(p)
      BY <1>0, <1>1, <2>1, <2>2, <3>1
    <3>2. CASE k > Len(p)
      <4>1. (p \o ms)[k] = ms[k - Len(p)] /\ k - Len(p) \in 1..Len(ms)
        BY <1>0, <2>1, <2>2, <3>2
      <4> QED BY <4>1
    <3> QED BY <2>1, <2>2, <3>1, <3>2
  <2> QED BY <2>1, <2>2 DEF In
<1>2. CASE Len(q) + Len(ms) <= MaxInFlight
  BY <1>1, <1>2 DEF Enqueue
<1>3. CASE ~(Len(q) + Len(ms) <= MaxInFlight)
  <2>1. q # << >>
    BY <1>0, <1>3, RaftAssumption, EmptySeq
  <2>2. Tail(q) \in Seq(S) /\ Len(Tail(q)) = Len(q) - 1
        /\ \A k \in 1..Len(Tail(q)) : Tail(q)[k] = q[k + 1]
    BY <2>1, HeadTailProperties
  <2>3. \A k \in 1..Len(Tail(q)) : \E k2 \in 1..Len(q) : Tail(q)[k] = q[k2]
    <3> TAKE k \in 1..Len(Tail(q))
    <3>1. k + 1 \in 1..Len(q) /\ Tail(q)[k] = q[k + 1]
      BY <1>0, <2>2
    <3> QED BY <3>1
  <2> QED BY <1>1, <1>3, <2>2, <2>3 DEF Enqueue
<1> QED BY <1>2, <1>3

LEMMA TakenProperties ==
    ASSUME net \in NetType, NEW i \in Servers, NEW j \in Servers,
           NEW n \in 1..Len(net[j][i]), NEW base \in Taken(j, i, n)
    PROVE  /\ base \in NetType
           /\ \A a, b \in Servers : \A m : In(base[a][b], m) => In(net[a][b], m)
<1>0. net[j][i] \in Seq(Message)
  BY DEF NetType
<1>1. PICK q : /\ base = [net EXCEPT ![j][i] = q]
               /\ q = Without(net[j][i], n) \/ q = net[j][i]
  BY DEF Taken
<1>2. /\ Without(net[j][i], n) \in Seq(Message)
      /\ \A m : In(Without(net[j][i], n), m) => In(net[j][i], m)
  BY <1>0, WithoutProperties
<1>3. q \in Seq(Message) /\ \A m : In(q, m) => In(net[j][i], m)
  BY <1>0, <1>1, <1>2
<1>4. base \in NetType
  BY <1>1, <1>3 DEF NetType
<1>5. \A a, b \in Servers : base[a][b] = IF a = j /\ b = i THEN q ELSE net[a][b]
  BY <1>1 DEF NetType
<1> QED BY <1>3, <1>4, <1>5

LEMMA SentProperties ==
    ASSUME NEW base \in NetType, NEW i \in Servers, NEW out \in OutType
    PROVE  /\ Sent(base, i, out) \in NetType
           /\ \A a, b \in Servers : \A m : In(Sent(base, i, out)[a][b], m) =>
                 In(base[a][b], m) \/ (a = i /\ In(out[b], m))
<1> DEFINE row == [j \in Servers |-> Enqueue(base[i][j], out[j])]
<1>1. ASSUME NEW b \in Servers
      PROVE /\ Enqueue(base[i][b], out[b]) \in Seq(Message)
            /\ \A m : In(Enqueue(base[i][b], out[b]), m) => In(base[i][b], m) \/ In(out[b], m)
  <2>1. base[i][b] \in Seq(Message) /\ out[b] \in Seq(Message) /\ Len(out[b]) <= 1
    BY DEF NetType, OutType
  <2> QED BY <2>1, EnqueueProperties
<1>2. row \in [Servers -> Seq(Message)]
  BY <1>1
<1>3. Sent(base, i, out) = [base EXCEPT ![i] = row]
  BY DEF Sent
<1>4. Sent(base, i, out) \in NetType
  BY <1>2, <1>3 DEF NetType
<1>5. \A a, b \in Servers : Sent(base, i, out)[a][b] =
        IF a = i THEN Enqueue(base[i][b], out[b]) ELSE base[a][b]
  BY <1>3 DEF NetType
<1> QED BY <1>1, <1>4, <1>5

\* The two together: a step that takes a message and sends others.
LEMMA Delivered ==
    ASSUME net \in NetType, NEW i \in Servers, NEW j \in Servers,
           NEW n \in 1..Len(net[j][i]), NEW out \in OutType,
           \E base \in Taken(j, i, n) : net' = Sent(base, i, out)
    PROVE  /\ net' \in NetType
           /\ \A a, b \in Servers : \A m : In(net'[a][b], m) =>
                 In(net[a][b], m) \/ (a = i /\ In(out[b], m))
           /\ In(net[j][i], net[j][i][n]) /\ net[j][i][n] \in Message
<1>1. PICK base \in Taken(j, i, n) : net' = Sent(base, i, out)
  OBVIOUS
<1>2. base \in NetType
  BY TakenProperties
<1>6. \A a, b \in Servers : \A m : In(base[a][b], m) => In(net[a][b], m)
  BY TakenProperties
<1>3. Sent(base, i, out) \in NetType
  BY <1>2, SentProperties
<1>7. \A a, b \in Servers : \A m : In(Sent(base, i, out)[a][b], m) =>
            In(base[a][b], m) \/ (a = i /\ In(out[b], m))
  <2> SUFFICES ASSUME NEW a \in Servers, NEW b \in Servers, NEW m,
                      In(Sent(base, i, out)[a][b], m)
               PROVE  In(base[a][b], m) \/ (a = i /\ In(out[b], m))
    OBVIOUS
  <2> QED BY <1>2, SentProperties
<1>4. In(net[j][i], net[j][i][n])
  BY DEF In
<1>5. net[j][i][n] \in Message
  <2>1. net[j][i] \in Seq(Message)
    BY DEF NetType
  <2> QED BY <2>1, ElementOfSeq
<1> QED BY <1>1, <1>3, <1>4, <1>5, <1>6, <1>7

LEMMA EmptyChannel == << >> \in Seq(Message) /\ Len(<< >>) = 0 /\ \A m : ~In(<< >>, m)
BY EmptySeq DEF In

LEMMA NothingIsOut ==
    Nothing \in OutType /\ \A b \in Servers : Nothing[b] = << >>
BY EmptyChannel DEF Nothing, OutType

LEMMA OneMessage ==
    ASSUME NEW m \in Message, NEW q, q = <<m>>
    PROVE  q \in Seq(Message) /\ Len(q) = 1 /\ \A x : In(q, x) => x = m
BY DEF In

\* Only messages of type t are sent.
Sends(out, t) == \A b \in Servers : \A m : In(out[b], m) => m.type = t

LEMMA OutOfType ==
    ASSUME NEW out, NEW t, out = [b \in Servers |-> out[b]],
           \A b \in Servers : out[b] = << >> \/ \E m \in Message : m.type = t /\ out[b] = <<m>>
    PROVE  out \in OutType /\ Sends(out, t)
<1>1. ASSUME NEW b \in Servers
      PROVE  out[b] \in Seq(Message) /\ Len(out[b]) <= 1 /\ \A x : In(out[b], x) => x.type = t
  <2>1. CASE out[b] = << >>
    BY <2>1, EmptyChannel
  <2>2. CASE \E m \in Message : m.type = t /\ out[b] = <<m>>
    <3>1. PICK m \in Message : m.type = t /\ out[b] = <<m>>
      BY <2>2
    <3>2. out[b] \in Seq(Message) /\ Len(out[b]) = 1 /\ \A x : In(out[b], x) => x = m
      BY <3>1, OneMessage
    <3> QED BY <3>1, <3>2
  <2> QED BY <2>1, <2>2
<1> QED BY <1>1 DEF OutType, Sends

LEMMA ToIsOut ==
    ASSUME NEW j \in Servers, NEW m \in Message
    PROVE  /\ To(j, m) \in OutType
           /\ \A b \in Servers : \A x : In(To(j, m)[b], x) => b = j /\ x = m
<1>1. \A b \in Servers : To(j, m)[b] = IF b = j THEN <<m>> ELSE << >>
  BY DEF To, Nothing
<1>2. To(j, m) = [b \in Servers |-> To(j, m)[b]]
  BY DEF To, Nothing
<1>3. To(j, m) \in OutType
  BY <1>1, <1>2, OutOfType
<1>4. ASSUME NEW b \in Servers, NEW x, In(To(j, m)[b], x)
      PROVE  b = j /\ x = m
  BY <1>1, <1>4, OneMessage, EmptyChannel
<1> QED BY <1>3, <1>4

\* Only j gets something, and that is m.
Answers(out, j, m) == \A b \in Servers : \A x : In(out[b], x) => b = j /\ x = m

LEMMA NothingSends ==
    ASSUME NEW t
    PROVE  Nothing \in OutType /\ Sends(Nothing, t)
BY NothingIsOut, EmptyChannel DEF Sends

LEMMA ToSends ==
    ASSUME NEW j \in Servers, NEW m \in Message
    PROVE  To(j, m) \in OutType /\ Sends(To(j, m), m.type)
BY ToIsOut DEF Sends

-----------------------------------------------------------------------------
\* The messages and the logs.

LEMMA NatMin ==
    ASSUME NEW T \in SUBSET Nat, T # {}
    PROVE  \E x \in T : \A y \in T : x <= y
<1>1. PICK x \in T : \A y \in T : ~(<<y, x>> \in OpToRel(<, Nat))
  BY WFMin, NatLessThanWellFounded
<1>2. \A y \in T : ~(y < x)
  BY <1>1 DEF OpToRel
<1> QED BY <1>2

LEMMA SubSeqType ==
    ASSUME NEW S, NEW l \in Seq(S), NEW a \in Nat \ {0}, NEW b \in Int, b <= Len(l)
    PROVE  SubSeq(l, a, b) \in Seq(S)
<1>1. \A k \in a..b : l[k] \in S
  BY ElementOfSeq, LenProperties
<1> QED BY <1>1, SubSeqProperties

LEMMA TermAtType ==
    ASSUME NEW l \in Seq(Entry), NEW idx
    PROVE  TermAt(l, idx) \in Nat
<1>1. idx \in 1..Len(l) => l[idx] \in Entry
  BY ElementOfSeq
<1> QED BY <1>1 DEF TermAt, Entry

LEMMA AppendentriesType ==
    ASSUME NEW term \in Nat, NEW l \in Seq(Entry), NEW commit \in Nat, NEW next \in Nat \ {0}
    PROVE  /\ Appendentries(term, l, commit, next) \in Message
           /\ Appendentries(term, l, commit, next).type = "appendentries"
<1>1. SubSeq(l, next, Len(l)) \in Seq(Entry)
  BY SubSeqType, LenProperties
<1>2. TermAt(l, next - 1) \in Nat /\ next - 1 \in Nat
  BY TermAtType
<1> QED BY <1>1, <1>2 DEF Appendentries, Message

LEMMA MessageTerm ==
    ASSUME NEW m \in Message
    PROVE  m.term \in Nat
BY DEF Message

LEMMA AppendentriesFields ==
    ASSUME NEW m \in Message, m.type = "appendentries"
    PROVE  /\ m.leader_commit \in Nat /\ m.prev_log_idx \in Nat
           /\ m.prev_log_term \in Nat /\ m.entries \in Seq(Entry)
BY DEF Message

LEMMA ResponseFields ==
    ASSUME NEW m \in Message, m.type = "appendentries_response"
    PROVE  m.success \in BOOLEAN /\ m.current_idx \in Nat
BY DEF Message

LEMMA LogAfterType ==
    ASSUME NEW l \in Seq(Entry), NEW m \in Message, m.type = "appendentries",
           ~Missing(l, m)
    PROVE  LogAfter(l, m) \in Seq(Entry)
<1> DEFINE prev == m.prev_log_idx
           es == m.entries
           D == Differs(l, m)
           first == FirstDiff(l, m)
<1>0. /\ prev \in Nat /\ es \in Seq(Entry) /\ Len(l) \in Nat /\ Len(es) \in Nat
      /\ prev <= Len(l)
  BY AppendentriesFields, LenProperties DEF Missing
<1>1. ASSUME D # {}
      PROVE  first \in 1..Len(es) /\ prev + first <= Len(l) + 1
  <2>1. D \in SUBSET Nat
    BY <1>0 DEF Differs
  <2>2. first \in D /\ \A k \in D : first <= k
    <3>1. \E x \in D : \A y \in D : x <= y
      BY <1>1, <2>1, NatMin
    <3> QED BY <3>1 DEF FirstDiff
  <2>3. first \in 1..Len(es)
    BY <1>0, <2>2 DEF Differs
  <2>4. prev + first <= Len(l) + 1
    <3> SUFFICES ASSUME prev + first > Len(l) + 1 PROVE FALSE
      BY <1>0, <2>3
    <3>1. first - 1 \in 1..Len(es) /\ prev + (first - 1) > Len(l)
      BY <1>0, <2>3
    <3>2. first - 1 \in D
      BY <3>1 DEF Differs
    <3> QED BY <1>0, <2>2, <2>3, <3>2
  <2> QED BY <2>3, <2>4
<1>2. DeletedFrom(l, m) \in 1..(Len(l) + 1)
  BY <1>0, <1>1 DEF DeletedFrom, Mismatch, Trims
<1>3. SubSeq(l, 1, DeletedFrom(l, m) - 1) \in Seq(Entry)
  BY <1>0, <1>2, SubSeqType
<1>4. D # {} => SubSeq(es, first, Len(es)) \in Seq(Entry)
  <2> SUFFICES ASSUME D # {} PROVE SubSeq(es, first, Len(es)) \in Seq(Entry)
    OBVIOUS
  <2>1. first \in Nat \ {0}
    BY <1>0, <1>1
  <2> QED BY <1>0, <2>1, SubSeqType
<1>5. D # {} =>
        SubSeq(l, 1, DeletedFrom(l, m) - 1) \o SubSeq(es, first, Len(es)) \in Seq(Entry)
  BY <1>3, <1>4, ConcatProperties
<1> QED BY <1>3, <1>5 DEF LogAfter

-----------------------------------------------------------------------------
\* Type correctness, one lemma per action.

LEMMA InitType == Init => TypeOK
BY EmptySeq DEF Init, TypeOK, States, Nothing

LEMMA NetIsTyped == TypeOK => net \in NetType
BY DEF TypeOK, NetType

LEMMA ApplyType ==
    ASSUME TypeOK, NEW i \in Servers, raft_apply_entry(i)
    PROVE  last_applied_idx' \in [Servers -> Nat]
BY DEF TypeOK, raft_apply_entry

LEMMA PeriodicApplyType ==
    ASSUME TypeOK, NEW i \in Servers, raft_periodic_apply(i)
    PROVE  TypeOK'
BY ApplyType DEF TypeOK, raft_periodic_apply, electionVars, progressVars

\* What a leader sends to all is well typed.
LEMMA SendAllType ==
    ASSUME TypeOK, NEW i \in Servers
    PROVE  /\ raft_send_appendentries_all(i) \in OutType
           /\ Sends(raft_send_appendentries_all(i), "appendentries")
<1> DEFINE out == raft_send_appendentries_all(i)
<1>1. ASSUME NEW b \in Servers
      PROVE  out[b] = << >> \/ \E m \in Message : m.type = "appendentries" /\ out[b] = <<m>>
  <2> DEFINE m == Appendentries(current_term[i], log[i], commit_idx[i], next_idx[i][b])
  <2>1. /\ current_term[i] \in Nat /\ commit_idx[i] \in Nat
        /\ next_idx[i][b] \in Nat \ {0} /\ log[i] \in Seq(Entry)
    BY DEF TypeOK
  <2>2. m \in Message /\ m.type = "appendentries"
    BY <2>1, AppendentriesType
  <2>3. out[b] = IF b = i THEN << >> ELSE <<m>>
    BY DEF raft_send_appendentries_all
  <2> HIDE DEF m, out
  <2> QED BY <2>2, <2>3
<1>2. out = [b \in Servers |-> out[b]]
  BY DEF raft_send_appendentries_all
<1> HIDE DEF out
<1>3. out \in OutType /\ Sends(out, "appendentries")
  BY <1>1, <1>2, OutOfType
<1> QED BY <1>3 DEF out

LEMMA PeriodicLeaderType ==
    ASSUME TypeOK, NEW i \in Servers, raft_periodic_leader(i)
    PROVE  TypeOK'
<1>1. net' \in NetType
  <2>1. net \in NetType /\ raft_send_appendentries_all(i) \in OutType
    BY NetIsTyped, SendAllType
  <2>2. Sent(net, i, raft_send_appendentries_all(i)) \in NetType
    BY <2>1, SentProperties
  <2> QED BY <2>2 DEF raft_periodic_leader
<1> QED BY <1>1, ApplyType DEF TypeOK, raft_periodic_leader, electionVars, progressVars, NetType

\* The vote requests of a candidate.
VoteRequest(i) ==
    [type |-> "requestvote", term |-> current_term[i] + 1, last_log_idx |-> Len(log[i]),
     last_log_term |-> raft_get_last_log_term(log[i])]
VoteRequests(i) == [j \in Servers |-> IF j = i THEN << >> ELSE <<VoteRequest(i)>>]

LEMMA VoteRequestsType ==
    ASSUME TypeOK, NEW i \in Servers
    PROVE  /\ VoteRequests(i) \in OutType
           /\ Sends(VoteRequests(i), "requestvote")
<1>1. VoteRequest(i) \in Message /\ VoteRequest(i).type = "requestvote"
  <2>1. Len(log[i]) \in Nat /\ raft_get_last_log_term(log[i]) \in Nat
    BY TermAtType, LenProperties DEF TypeOK, raft_get_last_log_term
  <2>2. current_term[i] + 1 \in Nat
    BY DEF TypeOK
  <2> QED BY <2>1, <2>2 DEF VoteRequest, Message
<1>2. /\ VoteRequests(i) = [b \in Servers |-> VoteRequests(i)[b]]
      /\ \A b \in Servers : VoteRequests(i)[b] = IF b = i THEN << >> ELSE <<VoteRequest(i)>>
  BY DEF VoteRequests
<1> QED BY <1>1, <1>2, OutOfType

LEMMA PeriodicElectionType ==
    ASSUME TypeOK, NEW i \in Servers, raft_periodic_election(i)
    PROVE  TypeOK'
<1>1. net' \in NetType
  <2>1. net \in NetType /\ VoteRequests(i) \in OutType
    BY NetIsTyped, VoteRequestsType
  <2>2. Sent(net, i, VoteRequests(i)) \in NetType
    BY <2>1, SentProperties
  <2> QED BY <2>2 DEF raft_periodic_election, VoteRequests, VoteRequest
<1>2. last_applied_idx' \in [Servers -> Nat]
  BY ApplyType DEF raft_periodic_election
<1>3. /\ current_term' \in [Servers -> Nat]
      /\ state' \in [Servers -> States]
      /\ votes' \in [Servers -> SUBSET Servers]
  BY DEF TypeOK, raft_periodic_election, States
<1>4. /\ voted_for' \in [Servers -> Servers \cup {None}]
      /\ disk_vote' \in [Servers -> Servers \cup {None}]
  BY DEF TypeOK, raft_periodic_election
<1>5. UNCHANGED <<log, commit_idx, next_idx, match_idx>>
  BY DEF raft_periodic_election, progressVars
<1> QED BY <1>1, <1>2, <1>3, <1>4, <1>5 DEF TypeOK, NetType

\* The log of the leader with a client's entry, and what it sends then.
EntryLog(i, id) == IF id = 0 THEN log[i] ELSE Append(log[i], [term |-> current_term[i], id |-> id])
EntryOut(i, id) ==
    [j \in Servers |->
        IF j # i /\ next_idx[i][j] = Len(EntryLog(i, id))
        THEN <<Appendentries(current_term[i], EntryLog(i, id), commit_idx[i], Len(EntryLog(i, id)))>>
        ELSE << >>]

LEMMA EntryOutType ==
    ASSUME TypeOK, NEW i \in Servers, NEW id \in Ids
    PROVE  /\ EntryLog(i, id) \in Seq(Entry)
           /\ EntryOut(i, id) \in OutType
           /\ Sends(EntryOut(i, id), "appendentries")
<1> DEFINE l == EntryLog(i, id)
           out == EntryOut(i, id)
<1>1. l \in Seq(Entry)
  BY RaftAssumption, AppendProperties DEF EntryLog, TypeOK, Entry
<1> HIDE DEF l
<1>2. ASSUME NEW b \in Servers
      PROVE  out[b] = << >> \/ \E m \in Message : m.type = "appendentries" /\ out[b] = <<m>>
  <2> DEFINE m == Appendentries(current_term[i], l, commit_idx[i], next_idx[i][b])
  <2>1. /\ current_term[i] \in Nat /\ commit_idx[i] \in Nat
        /\ next_idx[i][b] \in Nat \ {0}
    BY DEF TypeOK
  <2>2. m \in Message /\ m.type = "appendentries"
    BY <1>1, <2>1, AppendentriesType
  <2>3. out[b] = IF b # i /\ next_idx[i][b] = Len(l) THEN <<m>> ELSE << >>
    BY DEF EntryOut, l
  <2> HIDE DEF m, out
  <2> QED BY <2>2, <2>3
<1>3. out = [b \in Servers |-> out[b]]
  BY DEF EntryOut
<1> HIDE DEF out
<1>4. out \in OutType /\ Sends(out, "appendentries")
  BY <1>2, <1>3, OutOfType
<1> QED BY <1>1, <1>4 DEF l, out

LEMMA RecvEntryType ==
    ASSUME TypeOK, NEW i \in Servers, NEW id \in Ids, raft_recv_entry(i, id)
    PROVE  TypeOK'
<1>1. net' \in NetType
  <2>1. net \in NetType /\ EntryOut(i, id) \in OutType
    BY NetIsTyped, EntryOutType
  <2>2. Sent(net, i, EntryOut(i, id)) \in NetType
    BY <2>1, SentProperties
  <2> QED BY <2>2 DEF raft_recv_entry, EntryOut, EntryLog
<1>2. log' \in [Servers -> Seq(Entry)]
  <2>1. log' = [log EXCEPT ![i] = EntryLog(i, id)]
    BY DEF raft_recv_entry, EntryLog
  <2> QED BY <2>1, EntryOutType DEF TypeOK
<1>3. commit_idx' \in [Servers -> Nat]
  <2>1. Len(EntryLog(i, id)) \in Nat
    BY EntryOutType, LenProperties
  <2>2. commit_idx' = [commit_idx EXCEPT ![i] =
                         IF Cardinality(Servers) = 1 THEN Len(EntryLog(i, id)) ELSE @]
    BY DEF raft_recv_entry, EntryLog
  <2> QED BY <2>1, <2>2 DEF TypeOK
<1> QED BY <1>1, <1>2, <1>3 DEF TypeOK, raft_recv_entry, electionVars, progressVars, NetType

\* The answer to a vote request and the condition for granting it.
Role(i, m) == IF m.term > current_term[i] THEN "follower" ELSE state[i]
Granting(i, m) == should_grant_vote(i, m) /\ Role(i, m) = "follower"
VoteRefusedByAssert(i, m) == should_grant_vote(i, m) /\ Role(i, m) # "follower"
VoteAnswer(i, m) ==
    [type |-> "requestvote_response", term |-> MaxOf(current_term[i], m.term),
     vote_granted |-> Granting(i, m)]

LEMMA VoteAnswerType ==
    ASSUME TypeOK, NEW i \in Servers, NEW m \in Message
    PROVE  /\ VoteAnswer(i, m) \in Message
           /\ VoteAnswer(i, m).type = "requestvote_response"
           /\ VoteAnswer(i, m).term = MaxOf(current_term[i], m.term)
           /\ MaxOf(current_term[i], m.term) \in Nat
           /\ VoteAnswer(i, m).vote_granted = Granting(i, m)
<1>1. MaxOf(current_term[i], m.term) \in Nat
  BY MessageTerm DEF TypeOK, MaxOf
<1>2. Granting(i, m) \in BOOLEAN
  BY DEF Granting
<1> HIDE DEF Granting
<1> QED BY <1>1, <1>2 DEF VoteAnswer, Message

LEMMA RecvRequestvoteNet ==
    ASSUME TypeOK, NEW i \in Servers, NEW j \in Servers, NEW n,
           raft_recv_requestvote(i, j, n)
    PROVE  LET m == net[j][i][n] IN
           /\ m \in Message /\ In(net[j][i], m) /\ m.type = "requestvote"
           /\ net' \in NetType
           /\ \A a, b \in Servers : \A x : In(net'[a][b], x) =>
                 In(net[a][b], x) \/ (a = i /\ b = j /\ x = VoteAnswer(i, m))
<1> DEFINE m == net[j][i][n]
           out == IF VoteRefusedByAssert(i, m) THEN Nothing ELSE To(j, VoteAnswer(i, m))
<1>1. n \in 1..Len(net[j][i]) /\ m.type = "requestvote"
  BY DEF raft_recv_requestvote
<1>2. m \in Message
  <2>1. net[j][i] \in Seq(Message)
    BY DEF TypeOK
  <2> QED BY <1>1, <2>1, ElementOfSeq
<1>3. \E base \in Taken(j, i, n) : net' = Sent(base, i, out)
  BY DEF raft_recv_requestvote, VoteRefusedByAssert, VoteAnswer, Granting, Role
<1>4. out \in OutType /\ \A b \in Servers : \A x : In(out[b], x) => b = j /\ x = VoteAnswer(i, m)
  <2>1. VoteAnswer(i, m) \in Message
    BY <1>2, VoteAnswerType
  <2>2. CASE VoteRefusedByAssert(i, m)
    <3>1. out = Nothing
      BY <2>2
    <3> HIDE DEF out
    <3> QED BY <3>1, NothingIsOut, EmptyChannel
  <2>3. CASE ~VoteRefusedByAssert(i, m)
    <3>1. out = To(j, VoteAnswer(i, m))
      BY <2>3
    <3> HIDE DEF out, m
    <3> QED BY <2>1, <3>1, ToIsOut
  <2> QED BY <2>2, <2>3
<1> HIDE DEF out, m
<1>5. net \in NetType
  BY NetIsTyped
<1>6. /\ net' \in NetType
      /\ \A a, b \in Servers : \A x : In(net'[a][b], x) =>
            In(net[a][b], x) \/ (a = i /\ In(out[b], x))
      /\ In(net[j][i], net[j][i][n])
  BY <1>1, <1>3, <1>4, <1>5, Delivered, ZenonT(30)
<1>7. /\ m \in Message /\ In(net[j][i], m) /\ m.type = "requestvote"
      /\ net' \in NetType
      /\ \A a, b \in Servers : \A x : In(net'[a][b], x) =>
            In(net[a][b], x) \/ (a = i /\ b = j /\ x = VoteAnswer(i, m))
  BY <1>1, <1>2, <1>4, <1>6 DEF m
<1> QED BY <1>7 DEF m

LEMMA RecvRequestvoteType ==
    ASSUME TypeOK, NEW i \in Servers, NEW j \in Servers, NEW n,
           raft_recv_requestvote(i, j, n)
    PROVE  TypeOK'
<1> DEFINE m == net[j][i][n]
<1>1. m \in Message /\ net' \in NetType
  BY RecvRequestvoteNet
<1>2. current_term' \in [Servers -> Nat]
  <2>1. current_term' = [current_term EXCEPT ![i] = MaxOf(@, m.term)]
    BY DEF raft_recv_requestvote
  <2> QED BY <1>1, <2>1, MessageTerm DEF TypeOK, MaxOf
<1>3. /\ voted_for' \in [Servers -> Servers \cup {None}]
      /\ disk_vote' \in [Servers -> Servers \cup {None}]
  <2>1. \E g, w \in BOOLEAN :
          /\ voted_for' = [voted_for EXCEPT ![i] = IF g THEN j ELSE IF w THEN None ELSE @]
          /\ disk_vote' = [disk_vote EXCEPT ![i] = IF g THEN j ELSE @]
    BY DEF raft_recv_requestvote
  <2>2. PICK g, w \in BOOLEAN :
          /\ voted_for' = [voted_for EXCEPT ![i] = IF g THEN j ELSE IF w THEN None ELSE @]
          /\ disk_vote' = [disk_vote EXCEPT ![i] = IF g THEN j ELSE @]
    BY <2>1
  <2>3. voted_for' \in [Servers -> Servers \cup {None}]
    BY <2>2 DEF TypeOK
  <2>4. disk_vote' \in [Servers -> Servers \cup {None}]
    BY <2>2 DEF TypeOK
  <2> QED BY <2>3, <2>4
<1>4. state' \in [Servers -> States]
  BY DEF raft_recv_requestvote, TypeOK, States
<1>5. UNCHANGED <<votes, log, commit_idx, last_applied_idx, next_idx, match_idx>>
  BY DEF raft_recv_requestvote, progressVars
<1> QED BY <1>1, <1>2, <1>3, <1>4, <1>5 DEF TypeOK, NetType

\* The messages a new leader sends.
Elected(i, j, m) ==
    /\ state[i] = "candidate" /\ m.term = current_term[i] /\ m.vote_granted
    /\ raft_votes_is_majority(raft_get_nvotes_for_me(i, votes[i] \cup {j}))
LeaderOut(i, j, m) ==
    [k \in Servers |->
        IF Elected(i, j, m) /\ k # i
        THEN <<Appendentries(current_term[i], log[i], commit_idx[i], Len(log[i]) + 1)>>
        ELSE << >>]

LEMMA LeaderOutType ==
    ASSUME TypeOK, NEW i \in Servers, NEW j, NEW m
    PROVE  LeaderOut(i, j, m) \in OutType /\ Sends(LeaderOut(i, j, m), "appendentries")
<1> DEFINE ae == Appendentries(current_term[i], log[i], commit_idx[i], Len(log[i]) + 1)
<1>1. ae \in Message /\ ae.type = "appendentries"
  <2>1. /\ current_term[i] \in Nat /\ commit_idx[i] \in Nat
        /\ log[i] \in Seq(Entry) /\ Len(log[i]) + 1 \in Nat \ {0}
    BY LenProperties DEF TypeOK
  <2> QED BY <2>1, AppendentriesType
<1>2. /\ LeaderOut(i, j, m) = [b \in Servers |-> LeaderOut(i, j, m)[b]]
      /\ \A b \in Servers : LeaderOut(i, j, m)[b] = << >> \/ LeaderOut(i, j, m)[b] = <<ae>>
  BY DEF LeaderOut
<1> HIDE DEF ae
<1> QED BY <1>1, <1>2, OutOfType

LEMMA RecvVoteNet ==
    ASSUME TypeOK, NEW i \in Servers, NEW j \in Servers, NEW n,
           raft_recv_requestvote_response(i, j, n)
    PROVE  LET m == net[j][i][n] IN
           /\ m \in Message /\ In(net[j][i], m) /\ m.type = "requestvote_response"
           /\ net' \in NetType
           /\ \A a, b \in Servers : \A x : In(net'[a][b], x) =>
                 In(net[a][b], x) \/ x.type = "appendentries"
<1> DEFINE m == net[j][i][n]
           out == LeaderOut(i, j, m)
<1>1. n \in 1..Len(net[j][i]) /\ m.type = "requestvote_response"
  BY DEF raft_recv_requestvote_response
<1>3. \E base \in Taken(j, i, n) : net' = Sent(base, i, out)
  BY DEF raft_recv_requestvote_response, LeaderOut, Elected
<1>4. out \in OutType /\ Sends(out, "appendentries")
  BY LeaderOutType
<1> HIDE DEF out
<1>5. net \in NetType
  BY NetIsTyped
<1>6. /\ net' \in NetType
      /\ \A a, b \in Servers : \A x : In(net'[a][b], x) =>
            In(net[a][b], x) \/ (a = i /\ In(out[b], x))
      /\ In(net[j][i], net[j][i][n]) /\ net[j][i][n] \in Message
  BY <1>1, <1>3, <1>4, <1>5, Delivered
<1> QED BY <1>1, <1>4, <1>6 DEF Sends

\* The step with its conditions as parameters: a newer term, elected, a vote.
VoteStep(i, j, m, newer, elected, vote) ==
    /\ current_term' = [current_term EXCEPT ![i] = IF newer THEN m.term ELSE @]
    /\ voted_for' = [voted_for EXCEPT ![i] = IF newer THEN None ELSE @]
    /\ votes' = [votes EXCEPT ![i] = IF vote THEN votes[i] \cup {j} ELSE @]
    /\ state' = [state EXCEPT ![i] = IF newer THEN "follower"
                                     ELSE IF elected THEN "leader" ELSE @]
    /\ next_idx' = [next_idx EXCEPT ![i] =
                      IF elected THEN [k \in Servers |-> Len(log[i]) + 1] ELSE @]
    /\ match_idx' = [match_idx EXCEPT ![i] =
                       IF elected THEN [k \in Servers |-> 0] ELSE @]

LEMMA RecvVoteType ==
    ASSUME TypeOK, NEW i \in Servers, NEW j \in Servers, NEW n,
           raft_recv_requestvote_response(i, j, n)
    PROVE  TypeOK'
<1> DEFINE m == net[j][i][n]
<1>1. m \in Message /\ net' \in NetType
  BY RecvVoteNet
<1>0. \E g, w, v \in BOOLEAN : VoteStep(i, j, m, g, w, v)
  BY DEF raft_recv_requestvote_response, VoteStep
<1>2. PICK g, w, v \in BOOLEAN : VoteStep(i, j, m, g, w, v)
  BY <1>0
<1> HIDE DEF m
<1>3. current_term' \in [Servers -> Nat]
  BY <1>1, <1>2, MessageTerm DEF TypeOK, VoteStep
<1>4. voted_for' \in [Servers -> Servers \cup {None}]
  BY <1>2 DEF TypeOK, VoteStep
<1>5. votes' \in [Servers -> SUBSET Servers]
  BY <1>2 DEF TypeOK, VoteStep
<1>6. state' \in [Servers -> States]
  BY <1>2 DEF TypeOK, VoteStep, States
<1>7. next_idx' \in [Servers -> [Servers -> Nat \ {0}]]
  <2>0. log[i] \in Seq(Entry)
    BY DEF TypeOK
  <2>1. Len(log[i]) + 1 \in Nat \ {0}
    BY <2>0, LenProperties
  <2> QED BY <1>2, <2>1 DEF TypeOK, VoteStep
<1>8. match_idx' \in [Servers -> [Servers -> Nat]]
  BY <1>2 DEF TypeOK, VoteStep
<1>9. UNCHANGED <<disk_vote, log, commit_idx, last_applied_idx>>
  BY DEF raft_recv_requestvote_response
<1> QED BY <1>1, <1>3, <1>4, <1>5, <1>6, <1>7, <1>8, <1>9 DEF TypeOK, NetType

\* raft_recv_appendentries: its answer, and the step with its conditions and
\* values as parameters.
AppendAnswer(term, ok, current) ==
    [type |-> "appendentries_response", term |-> term, success |-> ok,
     current_idx |-> current]
AppendStep(i, j, n, m, reset, role, l, commit, out) ==
    /\ current_term' = [current_term EXCEPT ![i] = MaxOf(@, m.term)]
    /\ voted_for' = [voted_for EXCEPT ![i] = IF reset THEN None ELSE @]
    /\ state' = [state EXCEPT ![i] = role]
    /\ log' = [log EXCEPT ![i] = l]
    /\ commit_idx' = [commit_idx EXCEPT ![i] = commit]
    /\ \E base \in Taken(j, i, n) : net' = Sent(base, i, out)

LEMMA RecvAppendStep ==
    ASSUME TypeOK, NEW i \in Servers, NEW j \in Servers, NEW n,
           raft_recv_appendentries(i, j, n)
    PROVE  LET m == net[j][i][n] IN
           /\ n \in 1..Len(net[j][i]) /\ m \in Message /\ m.type = "appendentries"
           /\ \E reset \in BOOLEAN, role \in States, l \in Seq(Entry), commit \in Nat,
                 out \in OutType :
                /\ AppendStep(i, j, n, m, reset, role, l, commit, out)
                /\ Sends(out, "appendentries_response")
                /\ \E x : Answers(out, j, x)
                /\ m.term > current_term[i] => reset /\ role \in {"follower", "aborted"}
                /\ reset => \/ m.term > current_term[i]
                            \/ m.term = current_term[i] /\ state[i] = "candidate"
                /\ reset => role \in {"follower", "aborted"}
                /\ ~reset => role \in {state[i], "aborted"}
<1> DEFINE m == net[j][i][n]
           newer == m.term > current_term[i]
           rival == state[i] = "candidate" /\ m.term = current_term[i]
           fresh == m.term >= current_term[i] /\ ~Missing(log[i], m)
           ok == fresh /\ ~Mismatch(log[i], m)
           l == IF fresh THEN LogAfter(log[i], m) ELSE log[i]
           commit == IF ok /\ commit_idx[i] < m.leader_commit
                     THEN MinOf(MaxOf(Len(l), 1), m.leader_commit) ELSE commit_idx[i]
           delete_fails == /\ fresh /\ DeletedFrom(log[i], m) <= Len(log[i])
                           /\ DeletedFrom(log[i], m) <= commit_idx[i]
           commit_fails == /\ commit # commit_idx[i]
                           /\ ~(commit_idx[i] <= commit /\ commit <= Len(l))
           aborts == delete_fails \/ commit_fails
           current == IF ok THEN m.prev_log_idx + Len(m.entries)
                      ELSE IF fresh THEN m.prev_log_idx - 1 ELSE Len(log[i])
           answer == AppendAnswer(MaxOf(current_term[i], m.term), ok, current)
           out == IF aborts THEN Nothing ELSE To(j, answer)
           role == IF aborts THEN "aborted"
                   ELSE IF newer \/ rival THEN "follower" ELSE state[i]
           reset == newer \/ rival
           l2 == IF delete_fails THEN log[i] ELSE l
           commit2 == IF aborts THEN commit_idx[i] ELSE commit
<1>1. n \in 1..Len(net[j][i]) /\ m.type = "appendentries"
  BY DEF raft_recv_appendentries
<1>2. m \in Message
  <2>1. net[j][i] \in Seq(Message)
    BY DEF TypeOK
  <2> QED BY <1>1, <2>1, ElementOfSeq
<1>3. AppendStep(i, j, n, m, reset, role, l2, commit2, out)
  BY DEF raft_recv_appendentries, AppendStep, AppendAnswer
<1> HIDE DEF m
<1>4. /\ m.leader_commit \in Nat /\ m.prev_log_idx \in Nat
      /\ m.prev_log_term \in Nat /\ m.entries \in Seq(Entry) /\ m.term \in Nat
      /\ current_term[i] \in Nat /\ commit_idx[i] \in Nat /\ state[i] \in States
  BY <1>1, <1>2, AppendentriesFields, MessageTerm DEF TypeOK
<1>5. log[i] \in Seq(Entry) /\ Len(log[i]) \in Nat /\ Len(m.entries) \in Nat
  <2>1. log[i] \in Seq(Entry)
    BY DEF TypeOK
  <2> QED BY <1>4, <2>1, LenProperties
<1>6. l \in Seq(Entry) /\ l2 \in Seq(Entry)
  BY <1>1, <1>2, <1>5, LogAfterType
<1>7. Len(l) \in Nat
  BY <1>6, LenProperties
<1>8. commit \in Nat /\ commit2 \in Nat
  <2> HIDE DEF l, delete_fails
  <2> QED BY <1>4, <1>7 DEF MinOf, MaxOf
<1>9. current \in Nat
  <2>1. CASE ok
    BY <1>4, <1>5, <2>1
  <2>2. CASE ~ok /\ fresh
    <3>1. m.prev_log_idx \in 1..Len(log[i])
      BY <2>2 DEF Mismatch
    <3> QED BY <1>4, <1>5, <2>2, <3>1
  <2>3. CASE ~ok /\ ~fresh
    BY <1>5, <2>3
  <2> QED BY <2>1, <2>2, <2>3
<1>10. answer \in Message /\ answer.type = "appendentries_response"
  <2>1. MaxOf(current_term[i], m.term) \in Nat
    BY <1>4 DEF MaxOf
  <2>2. ok \in BOOLEAN
    OBVIOUS
  <2> HIDE DEF ok, current
  <2> QED BY <1>9, <2>1, <2>2 DEF AppendAnswer, Message
<1>11. out \in OutType /\ Sends(out, "appendentries_response") /\ Answers(out, j, answer)
  <2>1. CASE aborts
    <3>1. out = Nothing
      BY <2>1
    <3> HIDE DEF out
    <3> QED BY <3>1, NothingSends, NothingIsOut, EmptyChannel DEF Answers
  <2>2. CASE ~aborts
    <3>1. out = To(j, answer)
      BY <2>2
    <3> HIDE DEF out, answer
    <3> QED BY <1>10, <3>1, ToSends, ToIsOut DEF Answers
  <2> QED BY <2>1, <2>2
<1>12. /\ reset \in BOOLEAN /\ role \in States
       /\ m.term > current_term[i] => reset /\ role \in {"follower", "aborted"}
       /\ reset => m.term > current_term[i] \/ (m.term = current_term[i] /\ state[i] = "candidate")
       /\ reset => role \in {"follower", "aborted"}
       /\ ~reset => role \in {state[i], "aborted"}
  <2> HIDE DEF aborts
  <2> QED BY <1>4 DEF States
<1> HIDE DEF reset, role, l2, commit2, out
<1>13. \E r \in BOOLEAN, ro \in States, ll \in Seq(Entry), c \in Nat, o \in OutType :
         /\ AppendStep(i, j, n, m, r, ro, ll, c, o)
         /\ Sends(o, "appendentries_response")
         /\ \E x : Answers(o, j, x)
         /\ m.term > current_term[i] => r /\ ro \in {"follower", "aborted"}
         /\ r => m.term > current_term[i] \/ (m.term = current_term[i] /\ state[i] = "candidate")
         /\ r => ro \in {"follower", "aborted"}
         /\ ~r => ro \in {state[i], "aborted"}
  BY <1>3, <1>6, <1>8, <1>11, <1>12
<1> QED BY <1>1, <1>2, <1>13 DEF m

\* A step that takes a message and sends messages of one type leaves a well
\* typed net with no other new messages.
LEMMA DeliveredOfType ==
    ASSUME TypeOK, NEW i \in Servers, NEW j \in Servers, NEW n \in 1..Len(net[j][i]),
           NEW out \in OutType, NEW t, Sends(out, t),
           \E base \in Taken(j, i, n) : net' = Sent(base, i, out)
    PROVE  /\ net' \in NetType
           /\ \A a, b \in Servers : \A x : In(net'[a][b], x) => In(net[a][b], x) \/ x.type = t
<1>1. net \in NetType
  BY NetIsTyped
<1>2. /\ net' \in NetType
      /\ \A a, b \in Servers : \A x : In(net'[a][b], x) =>
            In(net[a][b], x) \/ (a = i /\ In(out[b], x))
  BY <1>1, Delivered, ZenonT(30)
<1> QED BY <1>2 DEF Sends

LEMMA RecvAppendType ==
    ASSUME TypeOK, NEW i \in Servers, NEW j \in Servers, NEW n,
           raft_recv_appendentries(i, j, n)
    PROVE  TypeOK'
<1> DEFINE m == net[j][i][n]
<1>1. /\ n \in 1..Len(net[j][i]) /\ m \in Message
      /\ \E reset \in BOOLEAN, role \in States, l \in Seq(Entry), commit \in Nat, out \in OutType :
            /\ AppendStep(i, j, n, m, reset, role, l, commit, out)
            /\ Sends(out, "appendentries_response")
  BY RecvAppendStep
<1>2. PICK reset \in BOOLEAN, role \in States, l \in Seq(Entry), commit \in Nat, out \in OutType :
        /\ AppendStep(i, j, n, m, reset, role, l, commit, out)
        /\ Sends(out, "appendentries_response")
  BY <1>1
<1> HIDE DEF m
<1>3. net' \in NetType
  BY <1>1, <1>2, DeliveredOfType DEF AppendStep
<1>4. current_term' \in [Servers -> Nat]
  BY <1>1, <1>2, MessageTerm DEF TypeOK, AppendStep, MaxOf
<1>5. voted_for' \in [Servers -> Servers \cup {None}]
  BY <1>2 DEF TypeOK, AppendStep
<1>6. state' \in [Servers -> States]
  BY <1>2 DEF TypeOK, AppendStep
<1>7. log' \in [Servers -> Seq(Entry)]
  BY <1>2 DEF TypeOK, AppendStep
<1>8. commit_idx' \in [Servers -> Nat]
  BY <1>2 DEF TypeOK, AppendStep
<1>9. UNCHANGED <<votes, disk_vote, last_applied_idx, next_idx, match_idx>>
  BY DEF raft_recv_appendentries, progressVars
<1> QED BY <1>3, <1>4, <1>5, <1>6, <1>7, <1>8, <1>9 DEF TypeOK, NetType

\* raft_recv_appendentries_response with its conditions and values as parameters.
AckStep(i, j, n, m, newer, role, nexts, match, commit, out) ==
    /\ current_term' = [current_term EXCEPT ![i] = IF newer THEN m.term ELSE @]
    /\ voted_for' = [voted_for EXCEPT ![i] = IF newer THEN None ELSE @]
    /\ state' = [state EXCEPT ![i] = role]
    /\ next_idx' = [next_idx EXCEPT ![i][j] = nexts]
    /\ match_idx' = [match_idx EXCEPT ![i] = match]
    /\ commit_idx' = [commit_idx EXCEPT ![i] = commit]
    /\ \E base \in Taken(j, i, n) : net' = Sent(base, i, out)

\* Only a leader sends something then: from its log, to j.
AckSends(i, j, newer, role, nexts, commit, out) ==
    \/ \A b \in Servers : \A x : ~In(out[b], x)
    \/ /\ ~newer /\ state[i] = "leader" /\ role = "leader"
       /\ Answers(out, j, Appendentries(current_term[i], log[i], commit, nexts))

LEMMA RecvAckStep ==
    ASSUME TypeOK, NEW i \in Servers, NEW j \in Servers, NEW n,
           raft_recv_appendentries_response(i, j, n)
    PROVE  LET m == net[j][i][n] IN
           /\ n \in 1..Len(net[j][i]) /\ m \in Message
           /\ \E newer \in BOOLEAN, role \in States, nexts \in Nat \ {0},
                 match \in [Servers -> Nat], commit \in Nat, out \in OutType :
                /\ AckStep(i, j, n, m, newer, role, nexts, match, commit, out)
                /\ Sends(out, "appendentries")
                /\ AckSends(i, j, newer, role, nexts, commit, out)
                /\ newer => m.term > current_term[i] /\ role = "follower"
                /\ ~newer => role \in {state[i], "aborted"}
<1> DEFINE m == net[j][i][n]
           stale == m.current_idx # 0 /\ m.current_idx <= match_idx[i][j]
           newer == ~stale /\ state[i] = "leader" /\ m.term > current_term[i]
           mine == ~stale /\ state[i] = "leader" /\ m.term = current_term[i]
           aborts == mine /\ m.success /\ m.current_idx > Len(log[i])
           next == IF m.success THEN m.current_idx + 1
                   ELSE IF m.current_idx < next_idx[i][j] - 1
                   THEN MaxOf(1, MinOf(m.current_idx + 1, Len(log[i])))
                   ELSE MaxOf(1, next_idx[i][j] - 1)
           match == [match_idx[i] EXCEPT ![j] = IF m.success THEN m.current_idx ELSE @]
           commits == /\ mine /\ m.success
                      /\ Cardinality(Servers) \div 2 <
                            1 + Cardinality(Holders(i, match, m.current_idx))
                      /\ commit_idx[i] < m.current_idx
           commit == IF commits THEN m.current_idx ELSE commit_idx[i]
           ae == Appendentries(current_term[i], log[i], commit, next)
           out == IF mine /\ ~aborts /\ (~m.success \/ next <= Len(log[i]))
                  THEN To(j, ae) ELSE Nothing
           role == IF aborts THEN "aborted" ELSE IF newer THEN "follower" ELSE state[i]
           nexts == IF mine /\ ~aborts THEN next ELSE next_idx[i][j]
           match2 == IF mine /\ ~aborts THEN match ELSE match_idx[i]
           commit2 == IF aborts THEN commit_idx[i] ELSE commit
<1>1. n \in 1..Len(net[j][i]) /\ m.type = "appendentries_response"
  BY DEF raft_recv_appendentries_response
<1>2. m \in Message
  <2>1. net[j][i] \in Seq(Message)
    BY DEF TypeOK
  <2> QED BY <1>1, <2>1, ElementOfSeq
<1>3. AckStep(i, j, n, m, newer, role, nexts, match2, commit2, out)
  <2>1. net \in NetType /\ next_idx[i] = [next_idx[i] EXCEPT ![j] = @]
    BY NetIsTyped DEF TypeOK
  <2> QED BY <2>1 DEF raft_recv_appendentries_response, AckStep
<1> HIDE DEF m
<1>4. /\ m.success \in BOOLEAN /\ m.current_idx \in Nat /\ m.term \in Nat
      /\ current_term[i] \in Nat /\ commit_idx[i] \in Nat /\ state[i] \in States
      /\ next_idx[i][j] \in Nat \ {0} /\ match_idx[i] \in [Servers -> Nat]
  BY <1>1, <1>2, ResponseFields, MessageTerm DEF TypeOK
<1>5. log[i] \in Seq(Entry) /\ Len(log[i]) \in Nat
  <2>1. log[i] \in Seq(Entry)
    BY DEF TypeOK
  <2> QED BY <2>1, LenProperties
<1>6. next \in Nat \ {0} /\ nexts \in Nat \ {0}
  <2> HIDE DEF mine, aborts
  <2>1. CASE m.success
    BY <1>4, <2>1
  <2>2. CASE ~m.success
    <3>1. /\ MaxOf(1, MinOf(m.current_idx + 1, Len(log[i]))) \in Nat \ {0}
          /\ MaxOf(1, next_idx[i][j] - 1) \in Nat \ {0}
      BY <1>4, <1>5, SMTT(30) DEF MaxOf, MinOf
    <3> QED BY <1>4, <2>2, <3>1
  <2> QED BY <1>4, <2>1, <2>2
<1>7. match \in [Servers -> Nat] /\ match2 \in [Servers -> Nat]
  BY <1>4
<1>8. commit \in Nat /\ commit2 \in Nat
  <2> HIDE DEF commits, aborts
  <2> QED BY <1>4
<1>9. ae \in Message /\ ae.type = "appendentries"
  <2> HIDE DEF commit, next
  <2> QED BY <1>4, <1>5, <1>6, <1>8, AppendentriesType, SMTT(30)
<1>10. out \in OutType /\ Sends(out, "appendentries")
  <2>1. CASE out = Nothing
    <3> HIDE DEF out
    <3> QED BY <2>1, NothingSends
  <2>2. CASE out = To(j, ae)
    <3> HIDE DEF out, ae
    <3> QED BY <1>9, <2>2, ToSends
  <2>3. out = Nothing \/ out = To(j, ae)
    <3> HIDE DEF ae, mine, aborts, next
    <3> QED OBVIOUS
  <2> QED BY <2>1, <2>2, <2>3
<1>13. AckSends(i, j, newer, role, nexts, commit2, out)
  <2>1. CASE mine /\ ~aborts /\ (~m.success \/ next <= Len(log[i]))
    <3>1. ~newer /\ state[i] = "leader" /\ role = "leader"
      BY <1>4, <2>1
    <3>2. out = To(j, ae) /\ commit2 = commit /\ nexts = next
      <4> HIDE DEF ae, mine, aborts, next, commit
      <4> QED BY <2>1
    <3>3. ae = Appendentries(current_term[i], log[i], commit2, nexts)
      <4> HIDE DEF commit2, nexts, next, commit
      <4> QED BY <3>2
    <3>4. Answers(out, j, ae)
      <4> HIDE DEF out, ae
      <4> QED BY <1>9, <3>2, ToIsOut DEF Answers
    <3> HIDE DEF out, ae, newer, role, commit2, nexts
    <3> QED BY <3>1, <3>3, <3>4 DEF AckSends
  <2>2. CASE ~(mine /\ ~aborts /\ (~m.success \/ next <= Len(log[i])))
    <3>1. out = Nothing
      <4> HIDE DEF ae, mine, aborts, next
      <4> QED BY <2>2
    <3> HIDE DEF out
    <3>2. \A b \in Servers : \A x : ~In(out[b], x)
      BY <3>1, NothingIsOut, EmptyChannel
    <3> QED BY <3>2 DEF AckSends
  <2> QED BY <2>1, <2>2
<1>11. /\ newer \in BOOLEAN /\ role \in States
       /\ newer => m.term > current_term[i] /\ role = "follower"
       /\ ~newer => role \in {state[i], "aborted"}
  BY <1>4 DEF States
<1> HIDE DEF newer, role, nexts, match2, commit2, out
<1>12. \E w \in BOOLEAN, ro \in States, ns \in Nat \ {0}, ma \in [Servers -> Nat],
          c \in Nat, o \in OutType :
         /\ AckStep(i, j, n, m, w, ro, ns, ma, c, o)
         /\ Sends(o, "appendentries")
         /\ AckSends(i, j, w, ro, ns, c, o)
         /\ w => m.term > current_term[i] /\ ro = "follower"
         /\ ~w => ro \in {state[i], "aborted"}
  BY <1>3, <1>6, <1>7, <1>8, <1>10, <1>11, <1>13
<1> QED BY <1>1, <1>2, <1>12 DEF m

LEMMA RecvAckType ==
    ASSUME TypeOK, NEW i \in Servers, NEW j \in Servers, NEW n,
           raft_recv_appendentries_response(i, j, n)
    PROVE  TypeOK'
<1> DEFINE m == net[j][i][n]
<1>1. /\ n \in 1..Len(net[j][i]) /\ m \in Message
      /\ \E newer \in BOOLEAN, role \in States, nexts \in Nat \ {0},
            match \in [Servers -> Nat], commit \in Nat, out \in OutType :
            /\ AckStep(i, j, n, m, newer, role, nexts, match, commit, out)
            /\ Sends(out, "appendentries")
  BY RecvAckStep
<1>2. PICK newer \in BOOLEAN, role \in States, nexts \in Nat \ {0},
           match \in [Servers -> Nat], commit \in Nat, out \in OutType :
        /\ AckStep(i, j, n, m, newer, role, nexts, match, commit, out)
        /\ Sends(out, "appendentries")
  BY <1>1
<1> HIDE DEF m
<1>3. net' \in NetType
  BY <1>1, <1>2, DeliveredOfType DEF AckStep
<1>4. current_term' \in [Servers -> Nat]
  BY <1>1, <1>2, MessageTerm DEF TypeOK, AckStep
<1>5. voted_for' \in [Servers -> Servers \cup {None}]
  BY <1>2 DEF TypeOK, AckStep
<1>6. state' \in [Servers -> States]
  BY <1>2 DEF TypeOK, AckStep
<1>7. next_idx' \in [Servers -> [Servers -> Nat \ {0}]]
  BY <1>2 DEF TypeOK, AckStep
<1>8. match_idx' \in [Servers -> [Servers -> Nat]]
  BY <1>2 DEF TypeOK, AckStep
<1>9. commit_idx' \in [Servers -> Nat]
  BY <1>2 DEF TypeOK, AckStep
<1>10. UNCHANGED <<votes, disk_vote, log, last_applied_idx>>
  BY DEF raft_recv_appendentries_response
<1> QED BY <1>3, <1>4, <1>5, <1>6, <1>7, <1>8, <1>9, <1>10 DEF TypeOK, NetType

LEMMA RebornType ==
    ASSUME TypeOK, NEW i \in Servers, NEW term \in Nat, Reborn(i, term)
    PROVE  TypeOK'
<1>1. /\ current_term' \in [Servers -> Nat]
      /\ commit_idx' \in [Servers -> Nat]
      /\ last_applied_idx' \in [Servers -> Nat]
      /\ next_idx' \in [Servers -> [Servers -> Nat \ {0}]]
      /\ match_idx' \in [Servers -> [Servers -> Nat]]
  BY DEF TypeOK, Reborn
<1>2. voted_for' \in [Servers -> Servers \cup {None}]
  BY DEF TypeOK, Reborn
<1>3. state' \in [Servers -> States] /\ votes' \in [Servers -> SUBSET Servers]
  BY DEF TypeOK, Reborn, States
<1> QED BY <1>1, <1>2, <1>3 DEF TypeOK, Reborn

LEMMA NextType == TypeOK /\ [Next]_vars => TypeOK'
<1> SUFFICES ASSUME TypeOK, [Next]_vars PROVE TypeOK'
  OBVIOUS
<1>1. CASE UNCHANGED vars
  BY <1>1 DEF TypeOK, vars
<1>2. ASSUME NEW i \in Servers, Restart(i) \/ RestartBetweenSaves(i)
      PROVE  TypeOK'
  <2>1. current_term[i] \in Nat /\ current_term[i] + 1 \in Nat
    BY DEF TypeOK
  <2> QED BY <1>2, <2>1, RebornType DEF Restart, RestartBetweenSaves
<1> QED BY <1>1, <1>2, PeriodicApplyType, PeriodicLeaderType, PeriodicElectionType,
      RecvEntryType, RecvRequestvoteType, RecvVoteType, RecvAppendType, RecvAckType DEF Next

\* Every reachable state is well typed: in particular raft_send_appendentries
\* never computes an index below 0, whatever order the answers of
\* raft_recv_appendentries_response arrive in.
THEOREM RaftTypeCorrect == Spec => []TypeOK
<1>1. Init => TypeOK
  BY InitType
<1>2. TypeOK /\ [Next]_vars => TypeOK'
  BY NextType
<1> QED BY <1>1, <1>2, PTL DEF Spec

-----------------------------------------------------------------------------
\* Election safety.

InOffice(s) == s \in {"candidate", "leader"}

\* Node k has given i its vote in term t: the answer is on its way, or i counts
\* it and is still candidate or leader of the term.
Grant(k, t, i) ==
    \/ /\ k # i
       /\ \E m : /\ In(net[k][i], m) /\ m.type = "requestvote_response"
                 /\ m.term = t /\ m.vote_granted
    \/ InOffice(state[i]) /\ current_term[i] = t /\ k \in votes[i] \cup {i}

\* A node remembers the vote of its term, in memory and on disk.
VoteKept ==
    \A k, i \in Servers : \A t \in Nat : Grant(k, t, i) =>
        /\ t <= current_term[k]
        /\ t = current_term[k] => voted_for[k] = i /\ disk_vote[k] = i
OneVote ==
    \A k, i, j \in Servers : \A t \in Nat : Grant(k, t, i) /\ Grant(k, t, j) => i = j
LeaderHasMajority ==
    \A i \in Servers : state[i] = "leader" =>
        Cardinality(Servers) < 2 * Cardinality(votes[i] \cup {i})

\* The inductive invariant: ElectionSafety says nothing of the votes that are
\* still on the way, which decide the elections to come.
ElectionInv == TypeOK /\ VoteKept /\ OneVote /\ LeaderHasMajority

LEMMA MajoritiesMeet ==
    ASSUME NEW S \in SUBSET Servers, NEW T \in SUBSET Servers,
           Cardinality(Servers) < 2 * Cardinality(S),
           Cardinality(Servers) < 2 * Cardinality(T)
    PROVE  \E k \in S : k \in T
<1>1. IsFiniteSet(Servers) /\ IsFiniteSet(S) /\ IsFiniteSet(T)
  BY RaftAssumption, FS_Subset
<1>2. IsFiniteSet(S \cup T) /\ Cardinality(S \cup T) <= Cardinality(Servers)
  BY <1>1, FS_Subset
<1>3. /\ Cardinality(S) \in Nat /\ Cardinality(T) \in Nat /\ Cardinality(Servers) \in Nat
      /\ Cardinality(S \cap T) \in Nat
  BY <1>1, FS_CardinalityType, FS_Intersection
<1>4. Cardinality(S \cup T) = Cardinality(S) + Cardinality(T) - Cardinality(S \cap T)
  BY <1>1, FS_Union
<1>5. Cardinality(S \cap T) # 0
  BY <1>2, <1>3, <1>4
<1>6. S \cap T # {}
  BY <1>5, FS_EmptySet
<1> QED BY <1>6

LEMMA InvImpliesElectionSafety == ElectionInv => ElectionSafety
<1> SUFFICES ASSUME ElectionInv, NEW i \in Servers, NEW j \in Servers,
                    state[i] = "leader", state[j] = "leader", current_term[i] = current_term[j]
             PROVE  i = j
  BY DEF ElectionSafety
<1>1. votes[i] \cup {i} \in SUBSET Servers /\ votes[j] \cup {j} \in SUBSET Servers
  BY DEF ElectionInv, TypeOK
<1>2. /\ Cardinality(Servers) < 2 * Cardinality(votes[i] \cup {i})
      /\ Cardinality(Servers) < 2 * Cardinality(votes[j] \cup {j})
  BY DEF ElectionInv, LeaderHasMajority
<1>3. PICK k \in votes[i] \cup {i} : k \in votes[j] \cup {j}
  BY <1>1, <1>2, MajoritiesMeet
<1>4. k \in Servers /\ current_term[i] \in Nat
  BY <1>1, <1>3 DEF ElectionInv, TypeOK
<1>5. Grant(k, current_term[i], i) /\ Grant(k, current_term[i], j)
  BY <1>3 DEF Grant, InOffice
<1> QED BY <1>4, <1>5 DEF ElectionInv, OneVote

LEMMA InitElection == Init => ElectionInv
<1> SUFFICES ASSUME Init PROVE ElectionInv
  OBVIOUS
<1>1. \A i \in Servers : state[i] = "follower"
  BY DEF Init
<1>2. \A k, i \in Servers : \A m : ~In(net[k][i], m)
  BY EmptyChannel DEF Init, Nothing
<1>3. \A k, i \in Servers : \A t \in Nat : ~Grant(k, t, i)
  BY <1>1, <1>2 DEF Grant, InOffice
<1> QED BY <1>1, <1>3, InitType DEF ElectionInv, VoteKept, OneVote, LeaderHasMajority

\* No answer to a vote request is added to the net.
NoNewVotes ==
    \A a, b \in Servers : \A x : In(net'[a][b], x) =>
        In(net[a][b], x) \/ x.type # "requestvote_response"
OthersUntouched(i) ==
    \A k \in Servers \ {i} :
        /\ current_term'[k] = current_term[k] /\ voted_for'[k] = voted_for[k]
        /\ disk_vote'[k] = disk_vote[k] /\ state'[k] = state[k] /\ votes'[k] = votes[k]

\* A step of i that grants and counts no vote: i stays in office, or its term
\* grows, or it keeps its vote, or it stops being a candidate.
Quiet(i) ==
    /\ NoNewVotes
    /\ OthersUntouched(i)
    /\ InOffice(state'[i]) => /\ state'[i] = state[i] /\ current_term'[i] = current_term[i]
                              /\ votes'[i] = votes[i]
    /\ \/ current_term'[i] > current_term[i]
       \/ /\ current_term'[i] = current_term[i] /\ disk_vote'[i] = disk_vote[i]
          /\ \/ voted_for'[i] \in {voted_for[i], disk_vote[i]}
             \/ state[i] = "candidate" /\ ~InOffice(state'[i])

LEMMA QuietGrants ==
    ASSUME NEW i \in Servers, Quiet(i), NEW k \in Servers, NEW t \in Nat, NEW j \in Servers,
           Grant(k, t, j)'
    PROVE  Grant(k, t, j)
<1>1. CASE k # j /\ \E m : /\ In(net'[k][j], m) /\ m.type = "requestvote_response"
                           /\ m.term = t /\ m.vote_granted
  BY <1>1 DEF Grant, Quiet, NoNewVotes
<1>2. CASE InOffice(state'[j]) /\ current_term'[j] = t /\ k \in votes'[j] \cup {j}
  BY <1>2 DEF Grant, Quiet, OthersUntouched
<1> QED BY <1>1, <1>2 DEF Grant

LEMMA QuietStep ==
    ASSUME ElectionInv, TypeOK', NEW i \in Servers, Quiet(i)
    PROVE  ElectionInv'
<1>1. OneVote'
  BY QuietGrants DEF OneVote, ElectionInv
<1>2. VoteKept'
  <2> SUFFICES ASSUME NEW k \in Servers, NEW j \in Servers, NEW t \in Nat, Grant(k, t, j)'
               PROVE  /\ t <= current_term'[k]
                      /\ t = current_term'[k] => voted_for'[k] = j /\ disk_vote'[k] = j
    BY DEF VoteKept
  <2>1. Grant(k, t, j)
    BY QuietGrants
  <2>2. /\ t <= current_term[k]
        /\ t = current_term[k] => voted_for[k] = j /\ disk_vote[k] = j
    BY <2>1 DEF ElectionInv, VoteKept
  <2>3. CASE k # i
    BY <2>2, <2>3 DEF Quiet, OthersUntouched
  <2>4. CASE k = i /\ current_term'[i] > current_term[i]
    <3>1. current_term[i] \in Nat /\ current_term'[i] \in Nat
      BY DEF ElectionInv, TypeOK
    <3> QED BY <2>2, <2>4, <3>1
  <2>5. CASE /\ k = i /\ current_term'[i] = current_term[i] /\ disk_vote'[i] = disk_vote[i]
             /\ voted_for'[i] \in {voted_for[i], disk_vote[i]}
    BY <2>2, <2>5
  <2>6. CASE /\ k = i /\ current_term'[i] = current_term[i] /\ disk_vote'[i] = disk_vote[i]
             /\ state[i] = "candidate" /\ ~InOffice(state'[i])
    <3> SUFFICES ASSUME t = current_term[i] PROVE FALSE
      BY <2>2, <2>6
    <3>1. Grant(i, t, i)
      BY <2>6 DEF Grant, InOffice
    <3>2. j = i
      BY <2>1, <2>6, <3>1 DEF ElectionInv, OneVote
    <3> QED BY <2>6, <3>2 DEF Grant
  <2> QED BY <2>3, <2>4, <2>5, <2>6 DEF Quiet
<1>3. LeaderHasMajority'
  <2> SUFFICES ASSUME NEW j \in Servers, state'[j] = "leader"
               PROVE  Cardinality(Servers) < 2 * Cardinality(votes'[j] \cup {j})
    BY DEF LeaderHasMajority
  <2>1. state[j] = "leader" /\ votes'[j] = votes[j]
    BY DEF Quiet, OthersUntouched, InOffice
  <2> QED BY <2>1 DEF ElectionInv, LeaderHasMajority
<1> QED BY <1>1, <1>2, <1>3 DEF ElectionInv

LEMMA SentOfType ==
    ASSUME TypeOK, NEW i \in Servers, NEW out \in OutType, NEW t, Sends(out, t),
           t # "requestvote_response", net' = Sent(net, i, out)
    PROVE  NoNewVotes
<1>1. net \in NetType
  BY NetIsTyped
<1>2. \A a, b \in Servers : \A x : In(net'[a][b], x) =>
        In(net[a][b], x) \/ (a = i /\ In(out[b], x))
  <2> SUFFICES ASSUME NEW a \in Servers, NEW b \in Servers, NEW x, In(Sent(net, i, out)[a][b], x)
               PROVE  In(net[a][b], x) \/ (a = i /\ In(out[b], x))
    OBVIOUS
  <2> QED BY <1>1, SentProperties
<1> QED BY <1>2 DEF Sends, NoNewVotes

LEMMA ApplyQuiet ==
    ASSUME ElectionInv, NEW i \in Servers, raft_periodic_apply(i)
    PROVE  Quiet(i)
BY DEF raft_periodic_apply, Quiet, NoNewVotes, OthersUntouched, electionVars

LEMMA LeaderQuiet ==
    ASSUME ElectionInv, NEW i \in Servers, raft_periodic_leader(i)
    PROVE  Quiet(i)
<1>1. NoNewVotes
  <2>1. TypeOK
    BY DEF ElectionInv
  <2>2. net' = Sent(net, i, raft_send_appendentries_all(i))
    BY DEF raft_periodic_leader
  <2> QED BY <2>1, <2>2, SendAllType, SentOfType
<1> QED BY <1>1 DEF raft_periodic_leader, Quiet, OthersUntouched, electionVars

LEMMA EntryQuiet ==
    ASSUME ElectionInv, NEW i \in Servers, NEW id \in Ids, raft_recv_entry(i, id)
    PROVE  Quiet(i)
<1>1. NoNewVotes
  <2>1. TypeOK
    BY DEF ElectionInv
  <2>2. net' = Sent(net, i, EntryOut(i, id))
    BY DEF raft_recv_entry, EntryOut, EntryLog
  <2> QED BY <2>1, <2>2, EntryOutType, SentOfType
<1> QED BY <1>1 DEF raft_recv_entry, Quiet, OthersUntouched, electionVars

LEMMA AppendQuiet ==
    ASSUME ElectionInv, NEW i \in Servers, NEW j \in Servers, NEW n,
           raft_recv_appendentries(i, j, n)
    PROVE  Quiet(i)
<1> DEFINE m == net[j][i][n]
           Part(reset, role, l, commit, out) ==
                /\ AppendStep(i, j, n, m, reset, role, l, commit, out)
                /\ Sends(out, "appendentries_response")
                /\ m.term > current_term[i] => reset /\ role \in {"follower", "aborted"}
                /\ reset => \/ m.term > current_term[i]
                            \/ m.term = current_term[i] /\ state[i] = "candidate"
                /\ reset => role \in {"follower", "aborted"}
                /\ ~reset => role \in {state[i], "aborted"}
<1>0. TypeOK
  BY DEF ElectionInv
<1>1. /\ n \in 1..Len(net[j][i]) /\ m \in Message
      /\ \E reset \in BOOLEAN, role \in States, l \in Seq(Entry), commit \in Nat, out \in OutType :
            Part(reset, role, l, commit, out)
  BY <1>0, RecvAppendStep
<1>2. PICK reset \in BOOLEAN, role \in States, l \in Seq(Entry), commit \in Nat, out \in OutType :
        Part(reset, role, l, commit, out)
  BY <1>1
<1>3. UNCHANGED <<votes, disk_vote>>
  BY DEF raft_recv_appendentries
<1> HIDE DEF m
<1>4. NoNewVotes
  <2>1. Sends(out, "appendentries_response") /\ \E base \in Taken(j, i, n) : net' = Sent(base, i, out)
    BY <1>2 DEF AppendStep
  <2>2. \A a, b \in Servers : \A x : In(net'[a][b], x) =>
          In(net[a][b], x) \/ x.type = "appendentries_response"
    BY <1>0, <1>1, <2>1, DeliveredOfType
  <2> QED BY <2>2 DEF NoNewVotes
<1>5. m.term \in Nat /\ current_term[i] \in Nat
  BY <1>0, <1>1, MessageTerm DEF TypeOK
<1>6. /\ current_term'[i] = MaxOf(current_term[i], m.term)
      /\ voted_for'[i] = IF reset THEN None ELSE voted_for[i]
      /\ state'[i] = role
      /\ OthersUntouched(i)
  BY <1>0, <1>2, <1>3 DEF AppendStep, TypeOK, OthersUntouched
<1>7. CASE m.term > current_term[i]
  <2>1. current_term'[i] > current_term[i] /\ ~InOffice(state'[i])
    BY <1>2, <1>5, <1>6, <1>7 DEF MaxOf, InOffice
  <2> QED BY <1>4, <1>6, <2>1 DEF Quiet
<1>8. CASE ~(m.term > current_term[i])
  <2>1. current_term'[i] = current_term[i]
    BY <1>5, <1>6, <1>8 DEF MaxOf
  <2>2. reset => state[i] = "candidate" /\ ~InOffice(state'[i])
    BY <1>2, <1>6, <1>8 DEF InOffice
  <2>3. ~reset => voted_for'[i] = voted_for[i] /\ (InOffice(state'[i]) => state'[i] = state[i])
    BY <1>2, <1>6 DEF InOffice
  <2> QED BY <1>3, <1>4, <1>6, <2>1, <2>2, <2>3 DEF Quiet
<1> QED BY <1>7, <1>8

LEMMA AckQuiet ==
    ASSUME ElectionInv, NEW i \in Servers, NEW j \in Servers, NEW n,
           raft_recv_appendentries_response(i, j, n)
    PROVE  Quiet(i)
<1> DEFINE m == net[j][i][n]
           Part(newer, role, nexts, match, commit, out) ==
                /\ AckStep(i, j, n, m, newer, role, nexts, match, commit, out)
                /\ Sends(out, "appendentries")
                /\ newer => m.term > current_term[i] /\ role = "follower"
                /\ ~newer => role \in {state[i], "aborted"}
<1>0. TypeOK
  BY DEF ElectionInv
<1>1. /\ n \in 1..Len(net[j][i]) /\ m \in Message
      /\ \E newer \in BOOLEAN, role \in States, nexts \in Nat \ {0},
            match \in [Servers -> Nat], commit \in Nat, out \in OutType :
            Part(newer, role, nexts, match, commit, out)
  BY <1>0, RecvAckStep
<1>2. PICK newer \in BOOLEAN, role \in States, nexts \in Nat \ {0},
           match \in [Servers -> Nat], commit \in Nat, out \in OutType :
        Part(newer, role, nexts, match, commit, out)
  BY <1>1
<1>3. UNCHANGED <<votes, disk_vote>>
  BY DEF raft_recv_appendentries_response
<1> HIDE DEF m
<1>4. NoNewVotes
  <2>1. Sends(out, "appendentries") /\ \E base \in Taken(j, i, n) : net' = Sent(base, i, out)
    BY <1>2 DEF AckStep
  <2>2. \A a, b \in Servers : \A x : In(net'[a][b], x) =>
          In(net[a][b], x) \/ x.type = "appendentries"
    <3>1. n \in 1..Len(net[j][i])
      BY <1>1
    <3> HIDE DEF Part
    <3> QED BY <1>0, <2>1, <3>1, DeliveredOfType
  <2> QED BY <2>2 DEF NoNewVotes
<1>6. /\ current_term'[i] = IF newer THEN m.term ELSE current_term[i]
      /\ voted_for'[i] = IF newer THEN None ELSE voted_for[i]
      /\ state'[i] = role
      /\ OthersUntouched(i)
  BY <1>0, <1>2, <1>3 DEF AckStep, TypeOK, OthersUntouched
<1>7. newer => current_term'[i] > current_term[i] /\ ~InOffice(state'[i])
  BY <1>2, <1>6 DEF InOffice
<1>8. ~newer => /\ current_term'[i] = current_term[i] /\ voted_for'[i] = voted_for[i]
                /\ InOffice(state'[i]) => state'[i] = state[i]
  BY <1>2, <1>6 DEF InOffice
<1> QED BY <1>3, <1>4, <1>6, <1>7, <1>8 DEF Quiet

LEMMA RebornQuiet ==
    ASSUME ElectionInv, NEW i \in Servers, NEW term \in Nat, Reborn(i, term),
           term >= current_term[i]
    PROVE  Quiet(i)
<1>1. /\ current_term'[i] = term /\ voted_for'[i] = disk_vote[i] /\ state'[i] = "follower"
      /\ disk_vote' = disk_vote /\ net' = net /\ OthersUntouched(i)
  BY DEF Reborn, ElectionInv, TypeOK, OthersUntouched
<1>2. current_term[i] \in Nat
  BY DEF ElectionInv, TypeOK
<1>3. term > current_term[i] \/ term = current_term[i]
  BY <1>2
<1> QED BY <1>1, <1>3 DEF Quiet, NoNewVotes, InOffice

\* A step in which k gives its vote of term t to c, and nothing else is granted,
\* keeps the invariant, if k had given no vote in the term.
LEMMA OneMoreGrant ==
    ASSUME ElectionInv, TypeOK', NEW k \in Servers, NEW t \in Nat, NEW c \in Servers,
           \A a, b \in Servers : \A u \in Nat : Grant(a, u, b)' =>
               Grant(a, u, b) \/ (a = k /\ u = t /\ b = c),
           \A b \in Servers : ~Grant(k, t, b),
           \A a \in Servers \ {k} : /\ current_term'[a] = current_term[a]
                                    /\ voted_for'[a] = voted_for[a]
                                    /\ disk_vote'[a] = disk_vote[a],
           current_term'[k] = t, current_term[k] <= t,
           voted_for'[k] = c, disk_vote'[k] = c
    PROVE  OneVote' /\ VoteKept'
<1>1. OneVote'
  <2> SUFFICES ASSUME NEW a \in Servers, NEW b \in Servers, NEW d \in Servers, NEW u \in Nat,
                      Grant(a, u, b)', Grant(a, u, d)'
               PROVE  b = d
    BY DEF OneVote
  <2>1. /\ Grant(a, u, b) \/ (a = k /\ u = t /\ b = c)
        /\ Grant(a, u, d) \/ (a = k /\ u = t /\ d = c)
    OBVIOUS
  <2> QED BY <2>1 DEF ElectionInv, OneVote
<1>2. VoteKept'
  <2> SUFFICES ASSUME NEW a \in Servers, NEW b \in Servers, NEW u \in Nat, Grant(a, u, b)'
               PROVE  /\ u <= current_term'[a]
                      /\ u = current_term'[a] => voted_for'[a] = b /\ disk_vote'[a] = b
    BY DEF VoteKept
  <2>1. CASE a = k /\ u = t /\ b = c
    BY <2>1
  <2>2. CASE Grant(a, u, b)
    <3>1. /\ u <= current_term[a]
          /\ u = current_term[a] => voted_for[a] = b /\ disk_vote[a] = b
      BY <2>2 DEF ElectionInv, VoteKept
    <3>2. CASE a # k
      BY <3>1, <3>2
    <3>3. CASE a = k
      <4>1. u # t
        BY <2>2, <3>3
      <4>2. current_term[k] \in Nat
        BY DEF ElectionInv, TypeOK
      <4> QED BY <3>1, <3>3, <4>1, <4>2
    <3> QED BY <3>2, <3>3
  <2> QED BY <2>1, <2>2
<1> QED BY <1>1, <1>2

\* Nobody is granted a vote but c, by k in term t.
OnlyNewGrant(k, t, c) ==
    \A a, b \in Servers : \A u \in Nat : Grant(a, u, b)' =>
        Grant(a, u, b) \/ (a = k /\ u = t /\ b = c)

LEMMA ElectionEffect ==
    ASSUME TypeOK, NEW i \in Servers, raft_periodic_election(i)
    PROVE  /\ current_term'[i] = current_term[i] + 1 /\ voted_for'[i] = i /\ disk_vote'[i] = i
           /\ votes'[i] = {} /\ state'[i] = "candidate" /\ OthersUntouched(i)
           /\ OnlyNewGrant(i, current_term[i] + 1, i)
<1> DEFINE t == current_term[i] + 1
<1>1. NoNewVotes
  <2>1. net' = Sent(net, i, VoteRequests(i))
    BY DEF raft_periodic_election, VoteRequests, VoteRequest
  <2> QED BY <2>1, VoteRequestsType, SentOfType
<1>2. /\ current_term'[i] = t /\ voted_for'[i] = i /\ disk_vote'[i] = i
      /\ votes'[i] = {} /\ state'[i] = "candidate" /\ OthersUntouched(i)
  BY DEF raft_periodic_election, TypeOK, OthersUntouched
<1> HIDE DEF t
<1>3. ASSUME NEW a \in Servers, NEW b \in Servers, NEW u \in Nat, Grant(a, u, b)'
      PROVE  Grant(a, u, b) \/ (a = i /\ u = t /\ b = i)
  <2>1. CASE a # b /\ \E m : /\ In(net'[a][b], m) /\ m.type = "requestvote_response"
                             /\ m.term = u /\ m.vote_granted
    BY <1>1, <2>1 DEF Grant, NoNewVotes
  <2>2. CASE InOffice(state'[b]) /\ current_term'[b] = u /\ a \in votes'[b] \cup {b}
    <3>1. CASE b = i
      BY <1>2, <2>2, <3>1
    <3>2. CASE b # i
      BY <1>2, <2>2, <3>2 DEF Grant, OthersUntouched
    <3> QED BY <3>1, <3>2
  <2> QED BY <1>3, <2>1, <2>2 DEF Grant
<1> QED BY <1>2, <1>3 DEF t, OnlyNewGrant

LEMMA ElectionStep ==
    ASSUME ElectionInv, TypeOK', NEW i \in Servers, raft_periodic_election(i)
    PROVE  ElectionInv'
<1> DEFINE t == current_term[i] + 1
<1>0. TypeOK /\ current_term[i] \in Nat /\ t \in Nat
  BY SMTT(30) DEF ElectionInv, TypeOK
<1>2. /\ current_term'[i] = t /\ voted_for'[i] = i /\ disk_vote'[i] = i
      /\ votes'[i] = {} /\ state'[i] = "candidate" /\ OthersUntouched(i)
      /\ OnlyNewGrant(i, t, i)
  BY <1>0, ElectionEffect
<1> HIDE DEF t
<1>3. \A a, b \in Servers : \A u \in Nat : Grant(a, u, b)' =>
        Grant(a, u, b) \/ (a = i /\ u = t /\ b = i)
  BY <1>2 DEF OnlyNewGrant
<1>4. \A b \in Servers : ~Grant(i, t, b)
  BY <1>0 DEF ElectionInv, VoteKept, t
<1>5. current_term[i] <= t
  BY <1>0 DEF t
<1>6. OneVote' /\ VoteKept'
  BY <1>0, <1>2, <1>3, <1>4, <1>5, OneMoreGrant DEF OthersUntouched
<1>7. LeaderHasMajority'
  <2> SUFFICES ASSUME NEW j \in Servers, state'[j] = "leader"
               PROVE  Cardinality(Servers) < 2 * Cardinality(votes'[j] \cup {j})
    BY DEF LeaderHasMajority
  <2>1. state[j] = "leader" /\ votes'[j] = votes[j]
    BY <1>2 DEF OthersUntouched
  <2> QED BY <2>1 DEF ElectionInv, LeaderHasMajority
<1> QED BY <1>6, <1>7 DEF ElectionInv

\* What raft_recv_requestvote does at i with the request m of j.
RequestvoteEffect(i, j, m) ==
    /\ m \in Message
    /\ current_term'[i] = MaxOf(current_term[i], m.term)
    /\ voted_for'[i] = IF Granting(i, m) THEN j ELSE
                       IF m.term > current_term[i] THEN None ELSE voted_for[i]
    /\ disk_vote'[i] = IF Granting(i, m) THEN j ELSE disk_vote[i]
    /\ votes' = votes
    /\ OthersUntouched(i)
    /\ InOffice(state'[i]) =>
          state'[i] = state[i] /\ current_term'[i] = current_term[i] /\ ~Granting(i, m)
    /\ \A a, b \in Servers : \A u \in Nat : Grant(a, u, b)' =>
          \/ Grant(a, u, b)
          \/ Granting(i, m) /\ a = i /\ u = MaxOf(current_term[i], m.term) /\ b = j

LEMMA RecvRequestvoteEffect ==
    ASSUME TypeOK, NEW i \in Servers, NEW j \in Servers, NEW n,
           raft_recv_requestvote(i, j, n)
    PROVE  RequestvoteEffect(i, j, net[j][i][n])
<1> DEFINE m == net[j][i][n]
           t == MaxOf(current_term[i], m.term)
           grant == Granting(i, m)
<1>0. TypeOK
  OBVIOUS
<1>1. /\ m \in Message /\ m.type = "requestvote"
      /\ \A a, b \in Servers : \A x : In(net'[a][b], x) =>
            In(net[a][b], x) \/ (a = i /\ b = j /\ x = VoteAnswer(i, m))
  BY <1>0, RecvRequestvoteNet
<1>2. /\ current_term'[i] = t
      /\ voted_for'[i] = IF grant THEN j ELSE
                         IF m.term > current_term[i] THEN None ELSE voted_for[i]
      /\ disk_vote'[i] = IF grant THEN j ELSE disk_vote[i]
      /\ state'[i] = IF VoteRefusedByAssert(i, m) THEN "aborted" ELSE Role(i, m)
      /\ votes' = votes
      /\ OthersUntouched(i)
  <2>1. /\ current_term' = [current_term EXCEPT ![i] = t]
        /\ voted_for' = [voted_for EXCEPT ![i] =
                           IF grant THEN j ELSE IF m.term > current_term[i] THEN None ELSE @]
        /\ disk_vote' = [disk_vote EXCEPT ![i] = IF grant THEN j ELSE @]
        /\ state' = [state EXCEPT ![i] =
                       IF VoteRefusedByAssert(i, m) THEN "aborted" ELSE Role(i, m)]
        /\ votes' = votes
    BY DEF raft_recv_requestvote, Granting, VoteRefusedByAssert, Role
  <2> HIDE DEF m, t, grant
  <2> QED BY <1>0, <2>1 DEF TypeOK, OthersUntouched
<1> HIDE DEF m
<1>3. m.term \in Nat /\ current_term[i] \in Nat /\ t \in Nat /\ current_term[i] <= t
  <2>1. m.term \in Nat /\ current_term[i] \in Nat
    BY <1>0, <1>1, MessageTerm DEF TypeOK
  <2> QED BY <2>1 DEF MaxOf
<1>4. /\ VoteAnswer(i, m).type = "requestvote_response"
      /\ VoteAnswer(i, m).term = t /\ VoteAnswer(i, m).vote_granted = grant
  BY <1>0, <1>1, VoteAnswerType
<1> HIDE DEF grant
<1>5. InOffice(state'[i]) => state'[i] = state[i] /\ current_term'[i] = current_term[i] /\ ~grant
  <2>1. m.term > current_term[i] => ~InOffice(state'[i])
    BY <1>2 DEF Role, InOffice
  <2>2. InOffice(state'[i]) => state'[i] = Role(i, m)
    BY <1>2 DEF InOffice
  <2>3. grant => Role(i, m) = "follower"
    BY DEF grant, Granting
  <2> QED BY <1>2, <1>3, <2>1, <2>2, <2>3 DEF Role, InOffice, MaxOf
<1>6. ASSUME NEW a \in Servers, NEW b \in Servers, NEW u \in Nat, Grant(a, u, b)'
      PROVE  Grant(a, u, b) \/ (grant /\ a = i /\ u = t /\ b = j)
  <2>1. CASE a # b /\ \E x : /\ In(net'[a][b], x) /\ x.type = "requestvote_response"
                             /\ x.term = u /\ x.vote_granted
    <3>1. PICK x : /\ In(net'[a][b], x) /\ x.type = "requestvote_response"
                   /\ x.term = u /\ x.vote_granted
      BY <2>1
    <3>2. CASE In(net[a][b], x)
      BY <2>1, <3>1, <3>2 DEF Grant
    <3>3. CASE a = i /\ b = j /\ x = VoteAnswer(i, m)
      <4> HIDE DEF t
      <4> QED BY <1>4, <3>1, <3>3
    <3> QED BY <1>1, <3>1, <3>2, <3>3
  <2>2. CASE InOffice(state'[b]) /\ current_term'[b] = u /\ a \in votes'[b] \cup {b}
    <3>1. state'[b] = state[b] /\ current_term'[b] = current_term[b] /\ votes'[b] = votes[b]
      BY <1>2, <1>5, <2>2 DEF OthersUntouched
    <3> QED BY <2>2, <3>1 DEF Grant
  <2> QED BY <1>6, <2>1, <2>2 DEF Grant
<1> QED BY <1>1, <1>2, <1>5, <1>6 DEF RequestvoteEffect, m, grant

LEMMA RequestvoteStep ==
    ASSUME ElectionInv, TypeOK', NEW i \in Servers, NEW j \in Servers, NEW n,
           raft_recv_requestvote(i, j, n)
    PROVE  ElectionInv'
<1> DEFINE m == net[j][i][n]
           t == MaxOf(current_term[i], m.term)
           grant == Granting(i, m)
<1>0. TypeOK
  BY DEF ElectionInv
<1>1. RequestvoteEffect(i, j, m)
  BY <1>0, RecvRequestvoteEffect
<1> HIDE DEF m
<1>2. /\ current_term'[i] = t
      /\ voted_for'[i] = IF grant THEN j ELSE
                         IF m.term > current_term[i] THEN None ELSE voted_for[i]
      /\ disk_vote'[i] = IF grant THEN j ELSE disk_vote[i]
      /\ votes' = votes
      /\ OthersUntouched(i)
  BY <1>1 DEF RequestvoteEffect
<1>3. m.term \in Nat /\ current_term[i] \in Nat /\ t \in Nat /\ current_term[i] <= t
  <2>1. m.term \in Nat /\ current_term[i] \in Nat
    BY <1>0, <1>1, MessageTerm DEF TypeOK, RequestvoteEffect
  <2> QED BY <2>1 DEF MaxOf
<1>5. InOffice(state'[i]) => state'[i] = state[i] /\ current_term'[i] = current_term[i]
  BY <1>1 DEF RequestvoteEffect
<1>6. \A a, b \in Servers : \A u \in Nat : Grant(a, u, b)' =>
        Grant(a, u, b) \/ (grant /\ a = i /\ u = t /\ b = j)
  BY <1>1 DEF RequestvoteEffect
<1> HIDE DEF grant
<1>7. OneVote' /\ VoteKept'
  <2>1. CASE grant
    <3>1. \A b \in Servers : ~Grant(i, t, b)
      <4> SUFFICES ASSUME NEW b \in Servers, Grant(i, t, b) PROVE FALSE
        OBVIOUS
      <4>1. t <= current_term[i] /\ (t = current_term[i] => voted_for[i] = b)
        BY <1>3 DEF ElectionInv, VoteKept
      <4>2. t = current_term[i] /\ voted_for[i] = b
        BY <1>3, <4>1
      <4>3. m.term > current_term[i] \/ voted_for[i] = None
        BY <2>1 DEF grant, Granting, should_grant_vote
      <4>4. ~(m.term > current_term[i])
        BY <1>3, <4>2 DEF MaxOf
      <4> QED BY <4>2, <4>3, <4>4, RaftAssumption
    <3>2. /\ voted_for'[i] = j /\ disk_vote'[i] = j /\ current_term'[i] = t
          /\ \A a \in Servers \ {i} : /\ current_term'[a] = current_term[a]
                                      /\ voted_for'[a] = voted_for[a]
                                      /\ disk_vote'[a] = disk_vote[a]
      BY <1>2, <2>1 DEF OthersUntouched
    <3>3. \A a, b \in Servers : \A u \in Nat : Grant(a, u, b)' =>
            Grant(a, u, b) \/ (a = i /\ u = t /\ b = j)
      BY <1>6
    <3> HIDE DEF t
    <3> QED BY <1>3, <3>1, <3>2, <3>3, OneMoreGrant
  <2>2. CASE ~grant
    <3>1. \A a, b \in Servers : \A u \in Nat : Grant(a, u, b)' => Grant(a, u, b)
      BY <1>6, <2>2
    <3>2. OneVote'
      BY <3>1 DEF OneVote, ElectionInv
    <3>3. VoteKept'
      <4> SUFFICES ASSUME NEW a \in Servers, NEW b \in Servers, NEW u \in Nat, Grant(a, u, b)'
                   PROVE  /\ u <= current_term'[a]
                          /\ u = current_term'[a] => voted_for'[a] = b /\ disk_vote'[a] = b
        BY DEF VoteKept
      <4>1. /\ u <= current_term[a]
            /\ u = current_term[a] => voted_for[a] = b /\ disk_vote[a] = b
        BY <3>1 DEF ElectionInv, VoteKept
      <4>2. CASE a # i
        BY <1>2, <4>1, <4>2 DEF OthersUntouched
      <4>3. CASE a = i
        <5>1. m.term > current_term[i] => current_term'[i] > current_term[i]
          BY <1>2, <1>3 DEF MaxOf
        <5>2. ~(m.term > current_term[i]) => current_term'[i] = current_term[i]
          BY <1>2, <1>3 DEF MaxOf
        <5>3. disk_vote'[i] = disk_vote[i]
              /\ (~(m.term > current_term[i]) => voted_for'[i] = voted_for[i])
          BY <1>2, <2>2
        <5>4. current_term'[i] \in Nat
          BY <1>2, <1>3
        <5> HIDE DEF t
        <5> QED BY <1>3, <4>1, <4>3, <5>1, <5>2, <5>3, <5>4
      <4> QED BY <4>2, <4>3
    <3> QED BY <3>2, <3>3
  <2> QED BY <2>1, <2>2
<1>8. LeaderHasMajority'
  <2> SUFFICES ASSUME NEW k \in Servers, state'[k] = "leader"
               PROVE  Cardinality(Servers) < 2 * Cardinality(votes'[k] \cup {k})
    BY DEF LeaderHasMajority
  <2>1. state[k] = "leader" /\ votes'[k] = votes[k]
    BY <1>2, <1>5 DEF OthersUntouched, InOffice
  <2> QED BY <2>1 DEF ElectionInv, LeaderHasMajority
<1> QED BY <1>7, <1>8 DEF ElectionInv

\* The count of raft_get_nvotes_for_me, checked by raft_votes_is_majority.
LEMMA CountIsMajority ==
    ASSUME NEW i \in Servers, NEW S \in SUBSET Servers, voted_for[i] = i,
           raft_votes_is_majority(raft_get_nvotes_for_me(i, S))
    PROVE  Cardinality(Servers) < 2 * Cardinality(S \cup {i})
<1>1. IsFiniteSet(Servers) /\ IsFiniteSet(S \ {i}) /\ i \notin S \ {i}
  BY RaftAssumption, FS_Subset
<1>2. Cardinality(Servers) \in Nat /\ Cardinality(S \ {i}) \in Nat
  BY <1>1, FS_CardinalityType
<1>3. Cardinality((S \ {i}) \cup {i}) = Cardinality(S \ {i}) + 1
  BY <1>1, FS_AddElement
<1>4. (S \ {i}) \cup {i} = S \cup {i}
  OBVIOUS
<1>5. Cardinality(Servers) \div 2 + 1 <= Cardinality(S \ {i}) + 1
  BY DEF raft_votes_is_majority, raft_get_nvotes_for_me
<1>6. \A c, d \in Nat : c \div 2 + 1 <= d + 1 => c < 2 * (d + 1)
  OBVIOUS
<1>7. Cardinality(S \cup {i}) = Cardinality(S \ {i}) + 1
  BY <1>3, <1>4
<1>8. Cardinality(Servers) < 2 * (Cardinality(S \ {i}) + 1)
  BY <1>2, <1>5, <1>6
<1> QED BY <1>7, <1>8

\* What raft_recv_requestvote_response does at i with the answer m of j.
VoteEffect(i, j, m) ==
    /\ NoNewVotes /\ OthersUntouched(i) /\ disk_vote' = disk_vote
    /\ \A a, b \in Servers : \A u \in Nat : Grant(a, u, b)' => Grant(a, u, b)
    /\ \/ current_term'[i] > current_term[i] /\ ~InOffice(state'[i])
       \/ /\ current_term'[i] = current_term[i] /\ voted_for'[i] = voted_for[i]
          /\ \/ state'[i] = state[i]
             \/ Elected(i, j, m) /\ state'[i] = "leader" /\ votes'[i] = votes[i] \cup {j}

LEMMA RecvVoteEffect ==
    ASSUME TypeOK, NEW i \in Servers, NEW j \in Servers, NEW n,
           raft_recv_requestvote_response(i, j, n)
    PROVE  VoteEffect(i, j, net[j][i][n])
<1> DEFINE m == net[j][i][n]
           newer == state[i] = "candidate" /\ m.term > current_term[i]
           vote == state[i] = "candidate" /\ m.term = current_term[i] /\ m.vote_granted
           elected == Elected(i, j, m)
<1> SUFFICES VoteEffect(i, j, m)
  OBVIOUS
<1>0. TypeOK
  OBVIOUS
<1>1. /\ m \in Message /\ In(net[j][i], m) /\ m.type = "requestvote_response"
      /\ NoNewVotes
  BY <1>0, RecvVoteNet DEF NoNewVotes
<1>2. /\ current_term'[i] = IF newer THEN m.term ELSE current_term[i]
      /\ voted_for'[i] = IF newer THEN None ELSE voted_for[i]
      /\ votes'[i] = IF vote THEN votes[i] \cup {j} ELSE votes[i]
      /\ state'[i] = IF newer THEN "follower" ELSE IF elected THEN "leader" ELSE state[i]
      /\ disk_vote' = disk_vote
      /\ OthersUntouched(i)
  <2>1. /\ current_term' = [current_term EXCEPT ![i] = IF newer THEN m.term ELSE @]
        /\ voted_for' = [voted_for EXCEPT ![i] = IF newer THEN None ELSE @]
        /\ votes' = [votes EXCEPT ![i] = IF vote THEN votes[i] \cup {j} ELSE @]
        /\ state' = [state EXCEPT ![i] = IF newer THEN "follower"
                                         ELSE IF elected THEN "leader" ELSE @]
        /\ disk_vote' = disk_vote
    BY DEF raft_recv_requestvote_response, Elected
  <2> HIDE DEF m, newer, vote, elected
  <2> QED BY <1>0, <2>1 DEF TypeOK, OthersUntouched
<1> HIDE DEF m
<1>3. m.term \in Nat /\ current_term[i] \in Nat
  BY <1>0, <1>1, MessageTerm DEF TypeOK
<1>4. elected => vote
  BY DEF Elected
<1>5. CASE newer
  <2>1. current_term'[i] > current_term[i] /\ ~InOffice(state'[i])
    BY <1>2, <1>5 DEF InOffice
  <2>2. Quiet(i)
    BY <1>1, <1>2, <2>1 DEF Quiet
  <2>3. \A a, b \in Servers : \A u \in Nat : Grant(a, u, b)' => Grant(a, u, b)
    BY <2>2, QuietGrants
  <2> QED BY <1>1, <1>2, <2>1, <2>3 DEF VoteEffect
<1>6. CASE ~newer /\ ~vote
  <2>1. /\ current_term'[i] = current_term[i] /\ voted_for'[i] = voted_for[i]
        /\ votes'[i] = votes[i] /\ state'[i] = state[i]
    BY <1>2, <1>4, <1>6
  <2> HIDE DEF newer, vote, elected
  <2>2. Quiet(i)
    BY <1>1, <1>2, <2>1 DEF Quiet
  <2>3. \A a, b \in Servers : \A u \in Nat : Grant(a, u, b)' => Grant(a, u, b)
    BY <2>2, QuietGrants
  <2> QED BY <1>1, <1>2, <2>1, <2>3 DEF VoteEffect
<1>7. CASE vote
  <2>1. /\ ~newer /\ state[i] = "candidate" /\ m.term = current_term[i] /\ m.vote_granted
    BY <1>3, <1>7
  <2>2. /\ current_term'[i] = current_term[i] /\ voted_for'[i] = voted_for[i]
        /\ votes'[i] = votes[i] \cup {j} /\ InOffice(state'[i])
        /\ (elected /\ state'[i] = "leader") \/ state'[i] = state[i]
    BY <1>2, <1>7, <2>1 DEF InOffice
  <2>3. Grant(j, current_term[i], i) /\ Grant(i, current_term[i], i)
    BY <1>1, <2>1 DEF Grant, InOffice
  <2> HIDE DEF newer, vote, elected
  <2>4. ASSUME NEW a \in Servers, NEW b \in Servers, NEW u \in Nat, Grant(a, u, b)'
        PROVE  Grant(a, u, b)
    <3>1. CASE a # b /\ \E x : /\ In(net'[a][b], x) /\ x.type = "requestvote_response"
                               /\ x.term = u /\ x.vote_granted
      BY <1>1, <3>1 DEF Grant, NoNewVotes
    <3>2. CASE InOffice(state'[b]) /\ current_term'[b] = u /\ a \in votes'[b] \cup {b}
      <4>1. CASE b # i
        BY <1>2, <3>2, <4>1 DEF Grant, OthersUntouched
      <4>2. CASE b = i /\ a = j
        BY <2>2, <2>3, <3>2, <4>2
      <4>3. CASE b = i /\ a # j
        BY <2>1, <2>2, <3>2, <4>3 DEF Grant, InOffice
      <4> QED BY <4>1, <4>2, <4>3
    <3> QED BY <2>4, <3>1, <3>2 DEF Grant
  <2>5. (Elected(i, j, m) /\ state'[i] = "leader") \/ state'[i] = state[i]
    BY <2>2 DEF elected
  <2> QED BY <1>1, <1>2, <2>2, <2>4, <2>5 DEF VoteEffect
<1> QED BY <1>5, <1>6, <1>7

LEMMA VoteStepKeeps ==
    ASSUME ElectionInv, TypeOK', NEW i \in Servers, NEW j \in Servers, NEW n,
           raft_recv_requestvote_response(i, j, n)
    PROVE  ElectionInv'
<1> DEFINE m == net[j][i][n]
           newer == state[i] = "candidate" /\ m.term > current_term[i]
           vote == state[i] = "candidate" /\ m.term = current_term[i] /\ m.vote_granted
           elected == Elected(i, j, m)
<1>0. TypeOK
  BY DEF ElectionInv
<1>1. /\ m \in Message /\ In(net[j][i], m) /\ m.type = "requestvote_response"
      /\ NoNewVotes
  BY <1>0, RecvVoteNet DEF NoNewVotes
<1>2. /\ current_term'[i] = IF newer THEN m.term ELSE current_term[i]
      /\ voted_for'[i] = IF newer THEN None ELSE voted_for[i]
      /\ votes'[i] = IF vote THEN votes[i] \cup {j} ELSE votes[i]
      /\ state'[i] = IF newer THEN "follower" ELSE IF elected THEN "leader" ELSE state[i]
      /\ disk_vote' = disk_vote
      /\ OthersUntouched(i)
  <2>1. /\ current_term' = [current_term EXCEPT ![i] = IF newer THEN m.term ELSE @]
        /\ voted_for' = [voted_for EXCEPT ![i] = IF newer THEN None ELSE @]
        /\ votes' = [votes EXCEPT ![i] = IF vote THEN votes[i] \cup {j} ELSE @]
        /\ state' = [state EXCEPT ![i] = IF newer THEN "follower"
                                         ELSE IF elected THEN "leader" ELSE @]
        /\ disk_vote' = disk_vote
    BY DEF raft_recv_requestvote_response, Elected
  <2> HIDE DEF m, newer, vote, elected
  <2> QED BY <1>0, <2>1 DEF TypeOK, OthersUntouched
<1> HIDE DEF m
<1>3. m.term \in Nat /\ current_term[i] \in Nat
  BY <1>0, <1>1, MessageTerm DEF TypeOK
<1>4. elected => vote
  BY DEF Elected
<1>5. CASE newer
  <2>1. current_term'[i] > current_term[i] /\ ~InOffice(state'[i])
    BY <1>2, <1>5 DEF InOffice
  <2>2. Quiet(i)
    BY <1>1, <1>2, <2>1 DEF Quiet
  <2> QED BY <2>2, QuietStep
<1>6. CASE ~newer /\ ~vote
  <2>1. /\ current_term'[i] = current_term[i] /\ voted_for'[i] = voted_for[i]
        /\ votes'[i] = votes[i] /\ state'[i] = state[i]
    BY <1>2, <1>4, <1>6
  <2>2. Quiet(i)
    <3> HIDE DEF newer, vote, elected
    <3> QED BY <1>1, <1>2, <2>1 DEF Quiet
  <2> QED BY <2>2, QuietStep
<1>7. CASE vote
  <2>1. /\ ~newer /\ state[i] = "candidate" /\ m.term = current_term[i] /\ m.vote_granted
    BY <1>3, <1>7
  <2>2. /\ current_term'[i] = current_term[i] /\ voted_for'[i] = voted_for[i]
        /\ votes'[i] = votes[i] \cup {j} /\ InOffice(state'[i])
        /\ elected \/ state'[i] = "candidate"
    BY <1>2, <1>7, <2>1 DEF InOffice
  <2>3. Grant(j, current_term[i], i) /\ Grant(i, current_term[i], i)
    BY <1>1, <2>1 DEF Grant, InOffice
  <2> HIDE DEF newer, vote, elected
  <2>4. \A a, b \in Servers : \A u \in Nat : Grant(a, u, b)' => Grant(a, u, b)
    BY <1>0, RecvVoteEffect DEF VoteEffect
  <2>5. OneVote'
    BY <2>4 DEF OneVote, ElectionInv
  <2>6. VoteKept'
    <3>1. \A k \in Servers : /\ current_term'[k] = current_term[k]
                             /\ voted_for'[k] = voted_for[k] /\ disk_vote'[k] = disk_vote[k]
      BY <1>2, <2>2 DEF OthersUntouched
    <3> QED BY <2>4, <3>1 DEF VoteKept, ElectionInv
  <2>7. LeaderHasMajority'
    <3> SUFFICES ASSUME NEW k \in Servers, state'[k] = "leader"
                 PROVE  Cardinality(Servers) < 2 * Cardinality(votes'[k] \cup {k})
      BY DEF LeaderHasMajority
    <3>1. CASE k # i
      <4>1. state[k] = "leader" /\ votes'[k] = votes[k]
        BY <1>2, <3>1 DEF OthersUntouched
      <4> QED BY <4>1 DEF ElectionInv, LeaderHasMajority
    <3>2. CASE k = i
      <4>1. raft_votes_is_majority(raft_get_nvotes_for_me(i, votes[i] \cup {j}))
        BY <2>2, <3>2 DEF elected, Elected
      <4>2. voted_for[i] = i
        BY <1>3, <2>3 DEF ElectionInv, VoteKept
      <4>3. votes[i] \cup {j} \in SUBSET Servers
        BY <1>0 DEF TypeOK
      <4> QED BY <2>2, <3>2, <4>1, <4>2, <4>3, CountIsMajority
    <3> QED BY <3>1, <3>2
  <2> QED BY <2>5, <2>6, <2>7 DEF ElectionInv
<1> QED BY <1>5, <1>6, <1>7

LEMMA NextElection == ElectionInv /\ [Next]_vars => ElectionInv'
<1> SUFFICES ASSUME ElectionInv, [Next]_vars PROVE ElectionInv'
  OBVIOUS
<1>0. TypeOK'
  BY NextType DEF ElectionInv
<1>1. CASE UNCHANGED vars
  BY <1>1 DEF ElectionInv, TypeOK, VoteKept, OneVote, LeaderHasMajority, Grant, In, vars
<1>2. ASSUME NEW i \in Servers, Restart(i) \/ RestartBetweenSaves(i)
      PROVE  Quiet(i)
  <2>1. /\ current_term[i] \in Nat /\ current_term[i] + 1 \in Nat
        /\ current_term[i] >= current_term[i] /\ current_term[i] + 1 >= current_term[i]
    BY DEF ElectionInv, TypeOK
  <2> QED BY <1>2, <2>1, RebornQuiet DEF Restart, RestartBetweenSaves
<1>3. ASSUME NEW i \in Servers, NEW j \in Servers, NEW n,
             raft_recv_appendentries(i, j, n) \/ raft_recv_appendentries_response(i, j, n)
      PROVE  Quiet(i)
  BY <1>3, AppendQuiet, AckQuiet
<1>4. ASSUME NEW i \in Servers, NEW id \in Ids,
             raft_periodic_apply(i) \/ raft_periodic_leader(i) \/ raft_recv_entry(i, id)
      PROVE  Quiet(i)
  BY <1>4, ApplyQuiet, LeaderQuiet, EntryQuiet
<1>5. ASSUME NEW i \in Servers, raft_periodic_apply(i) \/ raft_periodic_leader(i)
      PROVE  Quiet(i)
  BY <1>5, ApplyQuiet, LeaderQuiet
<1> QED BY <1>0, <1>1, <1>2, <1>3, <1>4, <1>5, QuietStep, ElectionStep, RequestvoteStep,
      VoteStepKeeps DEF Next

\* Two servers are never leaders of the same term: for any number of servers, on
\* a transport that loses, and if it is not Ordered reorders and duplicates
\* messages, with restarts, also between persist_term and persist_vote.
THEOREM OneLeaderPerTerm == Spec => []ElectionSafety
<1>1. Init => ElectionInv
  BY InitElection
<1>2. ElectionInv /\ [Next]_vars => ElectionInv'
  BY NextElection
<1>3. ElectionInv => ElectionSafety
  BY InvImpliesElectionSafety
<1> QED BY <1>1, <1>2, <1>3, PTL DEF Spec
-----------------------------------------------------------------------------
\* What raft_recv_appendentries leaves of the log.

\* Entry k of the new log r is an old one before the deleted part, or one of the
\* message; the first of these follows an entry with the term the message says.
KeptEntry(l, m, r, k) ==
    k < DeletedFrom(l, m) /\ k <= Len(l) /\ r[k] = l[k]
TermBefore(m, n) == IF n = 1 THEN m.prev_log_term ELSE m.entries[n - 1].term
NewEntry(l, m, r, k) ==
    /\ DeletedFrom(l, m) <= k
    /\ k - m.prev_log_idx \in 1..Len(m.entries)
    /\ r[k] = m.entries[k - m.prev_log_idx]
    /\ k = DeletedFrom(l, m) /\ k > 1 => l[k - 1].term = TermBefore(m, k - m.prev_log_idx)

LEMMA LogAfterShape ==
    ASSUME NEW l \in Seq(Entry), NEW m \in Message, m.type = "appendentries",
           ~Missing(l, m)
    PROVE  /\ DeletedFrom(l, m) \in 1..(Len(l) + 1)
           /\ DeletedFrom(l, m) - 1 <= Len(LogAfter(l, m))
           /\ \A k \in 1..Len(LogAfter(l, m)) :
                KeptEntry(l, m, LogAfter(l, m), k) \/ NewEntry(l, m, LogAfter(l, m), k)
<1> DEFINE prev == m.prev_log_idx
           es == m.entries
           D == Differs(l, m)
           first == FirstDiff(l, m)
           d == DeletedFrom(l, m)
           kept == SubSeq(l, 1, d - 1)
           added == SubSeq(es, first, Len(es))
           r == LogAfter(l, m)
<1>0. /\ prev \in Nat /\ es \in Seq(Entry) /\ Len(l) \in Nat /\ Len(es) \in Nat
      /\ prev <= Len(l)
  BY AppendentriesFields, LenProperties DEF Missing
<1>1. ASSUME D # {}
      PROVE  /\ first \in 1..Len(es) /\ prev + first <= Len(l) + 1
             /\ first > 1 => l[prev + first - 1].term = es[first - 1].term
  <2>1. D \in SUBSET Nat
    BY <1>0 DEF Differs
  <2>2. first \in D /\ \A k \in D : first <= k
    <3>1. \E x \in D : \A y \in D : x <= y
      BY <1>1, <2>1, NatMin
    <3> QED BY <3>1 DEF FirstDiff
  <2>3. first \in 1..Len(es)
    BY <1>0, <2>2 DEF Differs
  <2>4. first > 1 => first - 1 \in 1..Len(es) /\ first - 1 \notin D
    BY <1>0, <2>2, <2>3
  <2>5. first > 1 => /\ ~(prev + (first - 1) > Len(l))
                     /\ l[prev + (first - 1)].term = es[first - 1].term
    BY <2>4 DEF Differs
  <2> QED BY <1>0, <2>3, <2>5
<1>2. d \in 1..(Len(l) + 1)
  BY <1>0, <1>1 DEF DeletedFrom, Mismatch, Trims
<1>3. /\ kept \in Seq(Entry) /\ Len(kept) = d - 1
      /\ \A k \in 1..(d - 1) : kept[k] = l[k]
  <2>1. \A k \in 1..(d - 1) : l[k] \in Entry
    BY <1>0, <1>2, ElementOfSeq
  <2> HIDE DEF d
  <2>2. /\ SubSeq(l, 1, d - 1) \in Seq(Entry)
        /\ Len(SubSeq(l, 1, d - 1)) = IF 1 <= d - 1 THEN (d - 1) - 1 + 1 ELSE 0
        /\ \A k \in 1..((d - 1) - 1 + 1) : SubSeq(l, 1, d - 1)[k] = l[1 + k - 1]
    BY <1>0, <1>2, <2>1, SubSeqProperties
  <2> QED BY <1>0, <1>2, <2>2
<1>4. CASE Mismatch(l, m) \/ D = {}
  <2>1. r = kept
    BY <1>4 DEF LogAfter
  <2> HIDE DEF r, d, kept
  <2>2. \A k \in 1..Len(r) : k < d /\ k <= Len(l) /\ r[k] = l[k]
    BY <1>0, <1>2, <1>3, <2>1
  <2>3. \A k \in 1..Len(r) : KeptEntry(l, m, r, k)
    BY <2>2 DEF KeptEntry, d
  <2> QED BY <1>2, <1>3, <2>1, <2>3 DEF r, d
<1>5. CASE ~Mismatch(l, m) /\ D # {}
  <2>1. /\ first \in 1..Len(es) /\ prev + first <= Len(l) + 1
        /\ first > 1 => l[prev + first - 1].term = es[first - 1].term
    BY <1>1, <1>5
  <2>2. d = prev + first
    <3>1. Len(es) # 0
      BY <1>0, <2>1
    <3>2. ~Trims(l, m)
      BY <3>1, EmptySeq DEF Trims
    <3> QED BY <1>5, <3>2 DEF DeletedFrom
  <2>3. r = kept \o added
    BY <1>5 DEF LogAfter
  <2>4. /\ added \in Seq(Entry) /\ Len(added) = Len(es) - first + 1
        /\ \A k \in 1..(Len(es) - first + 1) : added[k] = es[first + k - 1]
    <3>1. \A k \in first..Len(es) : es[k] \in Entry
      BY <1>0, <2>1, ElementOfSeq
    <3> HIDE DEF first
    <3>2. /\ SubSeq(es, first, Len(es)) \in Seq(Entry)
          /\ Len(SubSeq(es, first, Len(es))) = IF first <= Len(es) THEN Len(es) - first + 1 ELSE 0
          /\ \A k \in 1..(Len(es) - first + 1) : SubSeq(es, first, Len(es))[k] = es[first + k - 1]
      BY <1>0, <2>1, <3>1, SubSeqProperties
    <3> QED BY <1>0, <2>1, <3>2
  <2>5. /\ Len(r) = (d - 1) + (Len(es) - first + 1)
        /\ \A k \in 1..Len(r) : r[k] = IF k <= d - 1 THEN kept[k] ELSE added[k - (d - 1)]
    <3> HIDE DEF r, d, kept, added, first
    <3> QED BY <1>3, <2>3, <2>4, ConcatProperties
  <2> HIDE DEF r, d, kept, added, first
  <2>11. /\ first \in Nat /\ 1 <= first /\ first <= Len(es) /\ d \in Nat /\ d = prev + first
         /\ Len(r) = prev + Len(es) /\ prev \in Nat /\ Len(es) \in Nat /\ Len(l) \in Nat
         /\ d <= Len(l) + 1
    <3>1. first \in 1..Len(es) /\ prev + first <= Len(l) + 1
      BY <2>1
    <3>2. Len(r) = (d - 1) + (Len(es) - first + 1)
      BY <2>5
    <3> HIDE DEF prev, es
    <3> QED BY <1>0, <2>2, <3>1, <3>2
  <2>6. ASSUME NEW k \in 1..Len(r), k <= d - 1
        PROVE  k < d /\ k <= Len(l) /\ r[k] = l[k]
    BY <1>0, <1>2, <1>3, <2>5, <2>6
  <2>7. ASSUME NEW k \in 1..Len(r), ~(k <= d - 1)
        PROVE  d <= k /\ k - prev \in 1..Len(es) /\ r[k] = es[k - prev]
    <3>0. k \in Int /\ k <= Len(r)
      BY <2>7, <2>11
    <3>1. /\ k - (d - 1) \in 1..(Len(es) - first + 1) /\ d <= k /\ k - prev \in 1..Len(es)
          /\ first + (k - (d - 1)) - 1 = k - prev
      <4> HIDE DEF prev, es
      <4> QED BY <2>7, <2>11, <3>0
    <3>2. r[k] = es[first + (k - (d - 1)) - 1]
      BY <2>4, <2>5, <2>7, <3>1
    <3>3. r[k] = es[k - prev]
      <4> HIDE DEF prev, es
      <4> QED BY <3>1, <3>2
    <3> QED BY <3>1, <3>3
  <2>8. ASSUME d > 1 PROVE l[d - 1].term = TermBefore(m, d - prev)
    <3>1. CASE first = 1
      <4>1. prev \in 1..Len(l) /\ d - 1 = prev /\ d - prev = 1
        <5> HIDE DEF prev, es
        <5> QED BY <2>8, <2>11, <3>1
      <4>2. l[prev].term = m.prev_log_term
        BY <1>5, <4>1 DEF Mismatch
      <4>3. TermBefore(m, 1) = m.prev_log_term
        BY DEF TermBefore
      <4> HIDE DEF prev
      <4> QED BY <4>1, <4>2, <4>3
    <3>2. CASE first # 1
      <4>1. first > 1 /\ d - prev = first /\ d - 1 = prev + first - 1
        <5> HIDE DEF prev, es
        <5> QED BY <2>11, <3>2
      <4>2. TermBefore(m, first) = es[first - 1].term
        BY <3>2 DEF TermBefore
      <4> HIDE DEF prev, es
      <4> QED BY <2>1, <4>1, <4>2
    <3> QED BY <3>1, <3>2
  <2>9. \A k \in 1..Len(r) : KeptEntry(l, m, r, k) \/ NewEntry(l, m, r, k)
    <3> SUFFICES ASSUME NEW k \in 1..Len(r) PROVE KeptEntry(l, m, r, k) \/ NewEntry(l, m, r, k)
      OBVIOUS
    <3>1. CASE k <= d - 1
      BY <2>6, <3>1 DEF KeptEntry, d
    <3>2. CASE ~(k <= d - 1)
      <4>1. d <= k /\ k - prev \in 1..Len(es) /\ r[k] = es[k - prev]
        BY <2>7, <3>2
      <4>2. k = d /\ k > 1 => l[k - 1].term = TermBefore(m, k - prev)
        BY <2>8
      <4> QED BY <4>1, <4>2 DEF NewEntry, d
    <3> QED BY <3>1, <3>2
  <2>10. d - 1 <= Len(r)
    BY <1>0, <1>2, <2>1, <2>5
  <2> QED BY <1>2, <2>9, <2>10 DEF r, d
<1> QED BY <1>4, <1>5
\* The log and commit_idx after raft_recv_appendentries: what the asserts on
\* deletion and on commit_idx leave standing.
LEMMA AppendLog ==
    ASSUME TypeOK, NEW i \in Servers, NEW j \in Servers, NEW n,
           raft_recv_appendentries(i, j, n)
    PROVE  LET m == net[j][i][n] IN
           /\ n \in 1..Len(net[j][i]) /\ m \in Message /\ m.type = "appendentries"
           /\ \A k \in Servers \ {i} : log'[k] = log[k] /\ commit_idx'[k] = commit_idx[k]
           /\ \/ log'[i] = log[i]
              \/ /\ m.term >= current_term[i] /\ ~Missing(log[i], m)
                 /\ log'[i] = LogAfter(log[i], m)
           /\ commit_idx[i] <= Len(log[i]) =>
                commit_idx[i] <= commit_idx'[i] /\ commit_idx'[i] <= Len(log'[i])
<1> DEFINE m == net[j][i][n]
           fresh == m.term >= current_term[i] /\ ~Missing(log[i], m)
           ok == fresh /\ ~Mismatch(log[i], m)
           l == IF fresh THEN LogAfter(log[i], m) ELSE log[i]
           commit == IF ok /\ commit_idx[i] < m.leader_commit
                     THEN MinOf(MaxOf(Len(l), 1), m.leader_commit) ELSE commit_idx[i]
           delete_fails == /\ fresh /\ DeletedFrom(log[i], m) <= Len(log[i])
                           /\ DeletedFrom(log[i], m) <= commit_idx[i]
           commit_fails == /\ commit # commit_idx[i]
                           /\ ~(commit_idx[i] <= commit /\ commit <= Len(l))
           aborts == delete_fails \/ commit_fails
<1>1. n \in 1..Len(net[j][i]) /\ m.type = "appendentries"
  BY DEF raft_recv_appendentries
<1>2. m \in Message
  <2>1. net[j][i] \in Seq(Message)
    BY DEF TypeOK
  <2> QED BY <1>1, <2>1, ElementOfSeq
<1>3. /\ log' = [log EXCEPT ![i] = IF delete_fails THEN @ ELSE l]
      /\ commit_idx' = [commit_idx EXCEPT ![i] = IF aborts THEN @ ELSE commit]
  BY DEF raft_recv_appendentries
<1> HIDE DEF m
<1>4. /\ m.leader_commit \in Nat /\ commit_idx[i] \in Nat
      /\ log[i] \in Seq(Entry) /\ Len(log[i]) \in Nat
  <2>1. m.leader_commit \in Nat /\ commit_idx[i] \in Nat /\ log[i] \in Seq(Entry)
    BY <1>1, <1>2, AppendentriesFields DEF TypeOK
  <2> QED BY <2>1, LenProperties
<1>5. l \in Seq(Entry) /\ Len(l) \in Nat
  <2>1. l \in Seq(Entry)
    BY <1>1, <1>2, <1>4, LogAfterType
  <2> QED BY <2>1, LenProperties
<1>6. fresh => /\ DeletedFrom(log[i], m) \in 1..(Len(log[i]) + 1)
               /\ DeletedFrom(log[i], m) - 1 <= Len(l)
  BY <1>1, <1>2, <1>4, LogAfterShape
<1>7. /\ log'[i] = IF delete_fails THEN log[i] ELSE l
      /\ commit_idx'[i] = IF aborts THEN commit_idx[i] ELSE commit
      /\ \A k \in Servers \ {i} : log'[k] = log[k] /\ commit_idx'[k] = commit_idx[k]
  <2> HIDE DEF delete_fails, aborts, l, commit
  <2> QED BY <1>3 DEF TypeOK
<1>8. \/ log'[i] = log[i]
      \/ /\ m.term >= current_term[i] /\ ~Missing(log[i], m)
         /\ log'[i] = LogAfter(log[i], m)
  <2> HIDE DEF delete_fails
  <2> QED BY <1>7
<1>9. ASSUME commit_idx[i] <= Len(log[i])
      PROVE  commit_idx[i] <= commit_idx'[i] /\ commit_idx'[i] <= Len(log'[i])
  <2>1. CASE delete_fails
    <3> HIDE DEF delete_fails, l, commit, commit_fails
    <3> QED BY <1>4, <1>7, <1>9, <2>1
  <2>2. CASE ~delete_fails
    <3>1. commit_idx[i] <= Len(l)
      <4>1. CASE ~fresh
        BY <1>9, <4>1
      <4>2. CASE fresh
        <5> HIDE DEF l
        <5> QED BY <1>4, <1>5, <1>6, <1>9, <2>2, <4>2
      <4> QED BY <4>1, <4>2
    <3>2. log'[i] = l /\ commit_idx'[i] = IF commit_fails THEN commit_idx[i] ELSE commit
      BY <1>7, <2>2
    <3> HIDE DEF delete_fails, l, commit
    <3> QED BY <1>4, <1>5, <3>1, <3>2
  <2> QED BY <2>1, <2>2
<1> QED BY <1>1, <1>2, <1>7, <1>8, <1>9 DEF m

\* commit_idx after raft_recv_appendentries_response.
LEMMA AckCommit ==
    ASSUME TypeOK, NEW i \in Servers, NEW j \in Servers, NEW n,
           raft_recv_appendentries_response(i, j, n), commit_idx[i] <= Len(log[i])
    PROVE  /\ \A k \in Servers \ {i} : commit_idx'[k] = commit_idx[k]
           /\ commit_idx[i] <= commit_idx'[i] /\ commit_idx'[i] <= Len(log[i])
<1> DEFINE m == net[j][i][n]
           stale == m.current_idx # 0 /\ m.current_idx <= match_idx[i][j]
           mine == ~stale /\ state[i] = "leader" /\ m.term = current_term[i]
           aborts == mine /\ m.success /\ m.current_idx > Len(log[i])
           match == [match_idx[i] EXCEPT ![j] = IF m.success THEN m.current_idx ELSE @]
           held == Cardinality(Servers) \div 2 <
                       1 + Cardinality(Holders(i, match, m.current_idx))
           commits == mine /\ m.success /\ held /\ commit_idx[i] < m.current_idx
           commit == IF commits THEN m.current_idx ELSE commit_idx[i]
<1>1. n \in 1..Len(net[j][i]) /\ m.type = "appendentries_response"
  BY DEF raft_recv_appendentries_response
<1>2. m \in Message
  <2>1. net[j][i] \in Seq(Message)
    BY DEF TypeOK
  <2> QED BY <1>1, <2>1, ElementOfSeq
<1>3. commit_idx' = [commit_idx EXCEPT ![i] = IF aborts THEN @ ELSE commit]
  BY DEF raft_recv_appendentries_response
<1> HIDE DEF m
<1>4. m.current_idx \in Nat /\ commit_idx[i] \in Nat /\ Len(log[i]) \in Nat
  <2>1. log[i] \in Seq(Entry) /\ commit_idx[i] \in Nat
    BY DEF TypeOK
  <2> QED BY <1>1, <1>2, <2>1, ResponseFields, LenProperties
<1>5. /\ commit_idx'[i] = IF aborts THEN commit_idx[i] ELSE commit
      /\ \A k \in Servers \ {i} : commit_idx'[k] = commit_idx[k]
  <2> HIDE DEF aborts, commit
  <2> QED BY <1>3 DEF TypeOK
<1>6. ~aborts /\ commits => commit_idx[i] < m.current_idx /\ m.current_idx <= Len(log[i])
  <2> HIDE DEF held, mine
  <2> QED BY <1>4
<1> HIDE DEF aborts, commits
<1> QED BY <1>4, <1>5, <1>6

\* raft_apply_entry applies committed entries only.
LEMMA ApplyCommitted ==
    ASSUME TypeOK, AppliedCommitted, NEW i \in Servers, raft_apply_entry(i),
           UNCHANGED <<log, commit_idx>>
    PROVE  AppliedCommitted'
<1> SUFFICES ASSUME NEW k \in Servers
             PROVE  last_applied_idx'[k] <= commit_idx[k] /\ commit_idx[k] <= Len(log[k])
  BY DEF AppliedCommitted
<1>1. last_applied_idx[k] \in Nat /\ commit_idx[k] \in Nat
  BY DEF TypeOK
<1>2. \/ last_applied_idx'[k] = last_applied_idx[k]
      \/ last_applied_idx[k] < commit_idx[k] /\ last_applied_idx'[k] = last_applied_idx[k] + 1
  BY DEF TypeOK, raft_apply_entry
<1> QED BY <1>1, <1>2 DEF AppliedCommitted

LEMMA RebornCommitted ==
    ASSUME TypeOK, AppliedCommitted, NEW i \in Servers, NEW term, Reborn(i, term)
    PROVE  AppliedCommitted'
<1>1. /\ log' = log /\ last_applied_idx'[i] = 0 /\ commit_idx'[i] = 0
      /\ \A k \in Servers \ {i} : /\ last_applied_idx'[k] = last_applied_idx[k]
                                  /\ commit_idx'[k] = commit_idx[k]
  BY DEF Reborn, TypeOK
<1>2. log[i] \in Seq(Entry)
  BY DEF TypeOK
<1>3. Len(log[i]) >= 0
  BY <1>2, LenProperties
<1> QED BY <1>1, <1>3 DEF AppliedCommitted

LEMMA EntryCommitted ==
    ASSUME TypeOK, AppliedCommitted, NEW i \in Servers, NEW id \in Ids, raft_recv_entry(i, id)
    PROVE  AppliedCommitted'
<1> DEFINE l == EntryLog(i, id)
<1>1. /\ log' = [log EXCEPT ![i] = l]
      /\ commit_idx' = [commit_idx EXCEPT ![i] = IF Cardinality(Servers) = 1 THEN Len(l) ELSE @]
      /\ last_applied_idx' = last_applied_idx
  BY DEF raft_recv_entry, EntryLog
<1>2. Len(l) \in Nat /\ Len(log[i]) <= Len(l)
  <2>1. log[i] \in Seq(Entry) /\ [term |-> current_term[i], id |-> id] \in Entry
    BY RaftAssumption DEF TypeOK, Entry
  <2>2. Len(log[i]) \in Nat /\ Len(Append(log[i], [term |-> current_term[i], id |-> id])) = Len(log[i]) + 1
    BY <2>1, AppendProperties, LenProperties
  <2> QED BY <2>2 DEF EntryLog
<1> HIDE DEF l
<1>3. /\ log'[i] = l /\ commit_idx'[i] \in {Len(l), commit_idx[i]}
      /\ \A k \in Servers \ {i} : log'[k] = log[k] /\ commit_idx'[k] = commit_idx[k]
  BY <1>1 DEF TypeOK
<1>4. \A k \in Servers : last_applied_idx[k] \in Nat /\ commit_idx[k] \in Nat
  BY DEF TypeOK
<1>5. log[i] \in Seq(Entry)
  BY DEF TypeOK
<1>6. Len(log[i]) \in Nat
  BY <1>5, LenProperties
<1>7. last_applied_idx'[i] <= commit_idx'[i] /\ commit_idx'[i] <= Len(log'[i])
  BY <1>1, <1>2, <1>3, <1>4, <1>6 DEF AppliedCommitted
<1> QED BY <1>1, <1>3, <1>7 DEF AppliedCommitted

LEMMA NextCommitted == TypeOK /\ AppliedCommitted /\ [Next]_vars => AppliedCommitted'
<1> SUFFICES ASSUME TypeOK, AppliedCommitted, [Next]_vars PROVE AppliedCommitted'
  OBVIOUS
<1>0. \A k \in Servers : last_applied_idx[k] \in Nat /\ commit_idx[k] \in Nat
  BY DEF TypeOK
<1>1. CASE UNCHANGED vars
  BY <1>1 DEF AppliedCommitted, vars
<1>2. ASSUME NEW i \in Servers,
             \/ raft_periodic_apply(i) \/ raft_periodic_leader(i) \/ raft_periodic_election(i)
      PROVE  AppliedCommitted'
  <2>1. raft_apply_entry(i) /\ UNCHANGED <<log, commit_idx>>
    BY <1>2 DEF raft_periodic_apply, raft_periodic_leader, raft_periodic_election
  <2> QED BY <2>1, ApplyCommitted
<1>3. ASSUME NEW i \in Servers, NEW j \in Servers, NEW n,
             raft_recv_requestvote(i, j, n) \/ raft_recv_requestvote_response(i, j, n)
      PROVE  AppliedCommitted'
  <2>1. UNCHANGED <<log, commit_idx, last_applied_idx>>
    BY <1>3 DEF raft_recv_requestvote, raft_recv_requestvote_response
  <2> QED BY <2>1 DEF AppliedCommitted
<1>4. ASSUME NEW i \in Servers, NEW j \in Servers, NEW n, raft_recv_appendentries(i, j, n)
      PROVE  AppliedCommitted'
  <2>1. /\ \A k \in Servers \ {i} : log'[k] = log[k] /\ commit_idx'[k] = commit_idx[k]
        /\ commit_idx[i] <= commit_idx'[i] /\ commit_idx'[i] <= Len(log'[i])
    BY <1>4, AppendLog DEF AppliedCommitted
  <2>2. last_applied_idx' = last_applied_idx /\ TypeOK'
    BY <1>4, RecvAppendType DEF raft_recv_appendentries
  <2>3. commit_idx'[i] \in Nat
    BY <2>2 DEF TypeOK
  <2>4. last_applied_idx'[i] <= commit_idx'[i]
    BY <1>0, <2>1, <2>2, <2>3 DEF AppliedCommitted
  <2> QED BY <2>1, <2>2, <2>4 DEF AppliedCommitted
<1>5. ASSUME NEW i \in Servers, NEW j \in Servers, NEW n, raft_recv_appendentries_response(i, j, n)
      PROVE  AppliedCommitted'
  <2>1. /\ \A k \in Servers \ {i} : commit_idx'[k] = commit_idx[k]
        /\ commit_idx[i] <= commit_idx'[i] /\ commit_idx'[i] <= Len(log[i])
    BY <1>5, AckCommit DEF AppliedCommitted
  <2>2. UNCHANGED <<log, last_applied_idx>> /\ TypeOK'
    BY <1>5, RecvAckType DEF raft_recv_appendentries_response
  <2>3. commit_idx'[i] \in Nat
    BY <2>2 DEF TypeOK
  <2>4. last_applied_idx'[i] <= commit_idx'[i]
    BY <1>0, <2>1, <2>2, <2>3 DEF AppliedCommitted
  <2> QED BY <2>1, <2>2, <2>4 DEF AppliedCommitted
<1> QED BY <1>1, <1>2, <1>3, <1>4, <1>5, EntryCommitted, RebornCommitted
      DEF Next, Restart, RestartBetweenSaves

\* A server applies only committed entries and these are in its log, on any
\* transport: commit_idx goes past the log neither when raft_recv_appendentries
\* deletes entries nor when raft_recv_appendentries_response counts a late answer.
THEOREM AppliedAreCommitted == Spec => []AppliedCommitted
<1>1. Init => TypeOK /\ AppliedCommitted
  <2>1. Init => AppliedCommitted
    BY EmptySeq DEF Init, AppliedCommitted
  <2> QED BY <2>1, InitType
<1>2. TypeOK /\ AppliedCommitted /\ [Next]_vars => (TypeOK /\ AppliedCommitted)'
  BY NextType, NextCommitted
<1> QED BY <1>1, <1>2, PTL DEF Spec
-----------------------------------------------------------------------------
\* Log matching.  First, a term that has had a leader never gets another one.

\* k can give no vote of term t to anybody but L.
Settled(k, t, L) ==
    /\ t <= current_term[k]
    /\ t = current_term[k] => voted_for[k] = L /\ disk_vote[k] = L
    /\ \A c \in Servers \ {L} : ~Grant(k, t, c)

\* L has been the leader of term t: a majority is settled, and L is past the
\* election.  Unlike LeaderHasMajority this outlives the leader.
Led(t, L) ==
    /\ t <= current_term[L] /\ ~(state[L] = "candidate" /\ current_term[L] = t)
    /\ \E Q \in SUBSET Servers :
          /\ Cardinality(Servers) < 2 * Cardinality(Q)
          /\ \A k \in Q : Settled(k, t, L)

\* What a step of i may do to the votes.
VoteMove(i) ==
    /\ OthersUntouched(i)
    /\ \A a, b \in Servers : \A u \in Nat : Grant(a, u, b)' =>
          \/ Grant(a, u, b)
          \/ a = i /\ current_term[i] < u
          \/ a = i /\ u = current_term[i] /\ voted_for[i] = None
    /\ state'[i] = "candidate" =>
          \/ current_term'[i] > current_term[i]
          \/ state[i] = "candidate" /\ current_term'[i] = current_term[i]
    /\ \/ current_term'[i] > current_term[i]
       \/ /\ current_term'[i] = current_term[i]
          /\ \/ voted_for[i] = None
             \/ state[i] = "candidate" /\ disk_vote'[i] = disk_vote[i]
             \/ disk_vote'[i] = disk_vote[i] /\ voted_for'[i] \in {voted_for[i], disk_vote[i]}

LEMMA SettledKept ==
    ASSUME TypeOK, TypeOK', NEW i \in Servers, VoteMove(i), NEW t \in Nat, NEW L \in Servers,
           NEW k \in Servers, Settled(k, t, L), ~(state[L] = "candidate" /\ current_term[L] = t)
    PROVE  Settled(k, t, L)'
<1>0. /\ current_term[k] \in Nat /\ current_term'[k] \in Nat
      /\ L # None
  BY RaftAssumption DEF TypeOK
<1>1. CASE k # i
  <2>1. /\ current_term'[k] = current_term[k] /\ voted_for'[k] = voted_for[k]
        /\ disk_vote'[k] = disk_vote[k]
    BY <1>1 DEF VoteMove, OthersUntouched
  <2>2. \A c \in Servers : Grant(k, t, c)' => Grant(k, t, c)
    BY <1>1 DEF VoteMove
  <2> QED BY <2>1, <2>2 DEF Settled
<1>2. CASE k = i
  <2>1. /\ t <= current_term[i]
        /\ t = current_term[i] => voted_for[i] = L /\ disk_vote[i] = L
    BY <1>2 DEF Settled
  <2>2. \A c \in Servers \ {L} : ~Grant(i, t, c)'
    <3> SUFFICES ASSUME NEW c \in Servers \ {L}, Grant(i, t, c)' PROVE FALSE
      OBVIOUS
    <3>1. ~Grant(i, t, c)
      BY <1>2 DEF Settled
    <3>2. current_term[i] < t \/ (t = current_term[i] /\ voted_for[i] = None)
      BY <3>1 DEF VoteMove
    <3> QED BY <1>0, <1>2, <2>1, <3>2
  <2>3. CASE current_term'[i] > current_term[i]
    <3>1. t < current_term'[i]
      BY <1>0, <1>2, <2>1, <2>3
    <3> QED BY <1>0, <1>2, <2>2, <3>1 DEF Settled
  <2>4. CASE ~(current_term'[i] > current_term[i])
    <3>1. /\ current_term'[i] = current_term[i]
          /\ \/ voted_for[i] = None
             \/ state[i] = "candidate" /\ disk_vote'[i] = disk_vote[i]
             \/ disk_vote'[i] = disk_vote[i] /\ voted_for'[i] \in {voted_for[i], disk_vote[i]}
      BY <2>4 DEF VoteMove
    <3>2. t = current_term[i] => state[i] # "candidate"
      <4> SUFFICES ASSUME t = current_term[i], state[i] = "candidate" PROVE FALSE
        OBVIOUS
      <4>1. Grant(i, t, i)
        BY DEF Grant, InOffice
      <4>2. i = L
        BY <1>2, <4>1 DEF Settled
      <4> QED BY <4>2
    <3>3. t = current_term'[i] => voted_for'[i] = L /\ disk_vote'[i] = L
      BY <1>0, <2>1, <3>1, <3>2
    <3> QED BY <1>2, <2>1, <2>2, <3>1, <3>3 DEF Settled
  <2> QED BY <2>3, <2>4
<1> QED BY <1>1, <1>2

LEMMA LedKept ==
    ASSUME TypeOK, TypeOK', NEW i \in Servers, VoteMove(i), NEW t \in Nat, NEW L \in Servers,
           Led(t, L)
    PROVE  Led(t, L)'
<1>0. current_term[L] \in Nat /\ current_term'[L] \in Nat
  BY DEF TypeOK
<1>1. PICK Q \in SUBSET Servers :
        Cardinality(Servers) < 2 * Cardinality(Q) /\ \A k \in Q : Settled(k, t, L)
  BY DEF Led
<1>2. ~(state[L] = "candidate" /\ current_term[L] = t) /\ t <= current_term[L]
  BY DEF Led
<1>3. \A k \in Q : Settled(k, t, L)'
  <2> TAKE k \in Q
  <2> QED BY <1>1, <1>2, SettledKept
<1>4. t <= current_term'[L] /\ ~(state'[L] = "candidate" /\ current_term'[L] = t)
  <2>1. CASE L # i
    BY <1>2, <2>1 DEF VoteMove, OthersUntouched
  <2>2. CASE L = i
    BY <1>0, <1>2, <2>2 DEF VoteMove
  <2> QED BY <2>1, <2>2
<1> QED BY <1>1, <1>3, <1>4 DEF Led

LEMMA QuietMove ==
    ASSUME NEW i \in Servers, Quiet(i)
    PROVE  VoteMove(i)
<1>1. \A a, b \in Servers : \A u \in Nat : Grant(a, u, b)' => Grant(a, u, b)
  BY QuietGrants
<1>2. /\ OthersUntouched(i)
      /\ InOffice(state'[i]) => state'[i] = state[i] /\ current_term'[i] = current_term[i]
      /\ \/ current_term'[i] > current_term[i]
         \/ /\ current_term'[i] = current_term[i] /\ disk_vote'[i] = disk_vote[i]
            /\ \/ voted_for'[i] \in {voted_for[i], disk_vote[i]}
               \/ state[i] = "candidate"
  BY DEF Quiet
<1> QED BY <1>1, <1>2 DEF VoteMove, InOffice

LEMMA ElectionMove ==
    ASSUME TypeOK, NEW i \in Servers, raft_periodic_election(i)
    PROVE  VoteMove(i)
<1>1. /\ current_term'[i] = current_term[i] + 1 /\ OthersUntouched(i)
      /\ OnlyNewGrant(i, current_term[i] + 1, i)
  BY ElectionEffect
<1>2. current_term[i] \in Nat
  BY DEF TypeOK
<1>3. current_term'[i] > current_term[i] /\ current_term[i] < current_term[i] + 1
  BY <1>1, <1>2
<1> QED BY <1>1, <1>3 DEF VoteMove, OnlyNewGrant

LEMMA RequestvoteMove ==
    ASSUME TypeOK, NEW i \in Servers, NEW j \in Servers, NEW n, raft_recv_requestvote(i, j, n)
    PROVE  VoteMove(i)
<1> DEFINE m == net[j][i][n]
           t == MaxOf(current_term[i], m.term)
<1>1. RequestvoteEffect(i, j, m)
  BY RecvRequestvoteEffect
<1> HIDE DEF m
<1>2. m.term \in Nat /\ current_term[i] \in Nat
  BY <1>1, MessageTerm DEF TypeOK, RequestvoteEffect
<1>3. Granting(i, m) => m.term > current_term[i] \/ voted_for[i] = None
  BY DEF Granting, should_grant_vote
<1>4. \/ t > current_term[i] /\ m.term > current_term[i]
      \/ t = current_term[i] /\ ~(m.term > current_term[i])
  BY <1>2 DEF MaxOf
<1>5. /\ current_term'[i] = t /\ OthersUntouched(i)
      /\ voted_for'[i] = IF Granting(i, m) THEN j ELSE
                         IF m.term > current_term[i] THEN None ELSE voted_for[i]
      /\ disk_vote'[i] = IF Granting(i, m) THEN j ELSE disk_vote[i]
      /\ InOffice(state'[i]) => state'[i] = state[i] /\ current_term'[i] = current_term[i]
  BY <1>1 DEF RequestvoteEffect
<1>6. \A a, b \in Servers : \A u \in Nat : Grant(a, u, b)' =>
        Grant(a, u, b) \/ (Granting(i, m) /\ a = i /\ u = t)
  BY <1>1 DEF RequestvoteEffect
<1> HIDE DEF t
<1>7. \A a, b \in Servers : \A u \in Nat : Grant(a, u, b)' =>
          \/ Grant(a, u, b)
          \/ a = i /\ current_term[i] < u
          \/ a = i /\ u = current_term[i] /\ voted_for[i] = None
  BY <1>2, <1>3, <1>4, <1>6
<1>8. \/ current_term'[i] > current_term[i]
      \/ /\ current_term'[i] = current_term[i]
         /\ \/ voted_for[i] = None
            \/ disk_vote'[i] = disk_vote[i] /\ voted_for'[i] = voted_for[i]
  BY <1>3, <1>4, <1>5
<1> QED BY <1>5, <1>7, <1>8 DEF VoteMove, InOffice

LEMMA VoteCountMove ==
    ASSUME TypeOK, NEW i \in Servers, NEW j \in Servers, NEW n,
           raft_recv_requestvote_response(i, j, n)
    PROVE  VoteMove(i)
<1> DEFINE m == net[j][i][n]
<1>1. VoteEffect(i, j, m)
  BY RecvVoteEffect
<1> HIDE DEF m
<1> QED BY <1>1 DEF VoteMove, VoteEffect, InOffice
\* Entry e stands at index k after an entry of term p (0 at the beginning), in a
\* log or in an appendentries message.
EntryAt(l, k, e, p) ==
    /\ k \in 1..Len(l) /\ e = l[k]
    /\ p = IF k = 1 THEN 0 ELSE l[k - 1].term
SentAt(m, k, e, p) ==
    /\ k - m.prev_log_idx \in 1..Len(m.entries)
    /\ e = m.entries[k - m.prev_log_idx]
    /\ p = IF k = 1 THEN 0 ELSE TermBefore(m, k - m.prev_log_idx)

Occurs(k, e, p) ==
    \/ \E s \in Servers : EntryAt(log[s], k, e, p)
    \/ \E a, b \in Servers : \E m :
          In(net[a][b], m) /\ m.type = "appendentries" /\ SentAt(m, k, e, p)
HasEntry(t) == \E k \in Nat : \E e, p : Occurs(k, e, p) /\ e.term = t

\* a is, or has been, leader of term t.
Rules(t, a) ==
    \/ state[a] = "leader" /\ current_term[a] = t
    \/ \E b \in Servers : \E m : In(net[a][b], m) /\ m.type = "appendentries" /\ m.term = t

OneReign ==
    \A t \in Nat : HasEntry(t) \/ (\E a \in Servers : Rules(t, a)) =>
        \E L \in Servers : Led(t, L) /\ \A a \in Servers : Rules(t, a) => a = L
NoSelf == \A a \in Servers : \A m : ~In(net[a][a], m)
\* Index and term determine the entry and the term before it.
OneEntry ==
    \A k \in Nat : \A e, f, p, q :
        Occurs(k, e, p) /\ Occurs(k, f, q) /\ e.term = f.term => e = f /\ p = q
LeaderHolds ==
    \A i \in Servers : state[i] = "leader" =>
        \A k \in Nat : \A e, p :
            Occurs(k, e, p) /\ e.term = current_term[i] => k <= Len(log[i])

\* The inductive invariant for LogMatching, which says nothing of the entries on
\* the way, nor of who may write entries of a term.
LogInv == ElectionInv /\ OneReign /\ NoSelf /\ OneEntry /\ LeaderHolds

LEMMA SentFromLog ==
    ASSUME NEW term, NEW l \in Seq(Entry), NEW commit, NEW next \in Nat \ {0},
           NEW k \in Nat, NEW e, NEW p, SentAt(Appendentries(term, l, commit, next), k, e, p)
    PROVE  EntryAt(l, k, e, p)
<1> DEFINE m == Appendentries(term, l, commit, next)
           es == SubSeq(l, next, Len(l))
<1>0. Len(l) \in Nat
  BY LenProperties
<1>1. /\ m.prev_log_idx = next - 1 /\ m.prev_log_term = TermAt(l, next - 1)
      /\ m.entries = es
  BY DEF Appendentries
<1>2. /\ Len(es) = IF next <= Len(l) THEN Len(l) - next + 1 ELSE 0
      /\ \A n \in 1..(Len(l) - next + 1) : es[n] = l[next + n - 1]
  <2>1. \A n \in next..Len(l) : l[n] \in Entry
    BY <1>0, ElementOfSeq
  <2> QED BY <1>0, <2>1, SubSeqProperties
<1>3. /\ k - (next - 1) \in 1..Len(es) /\ e = es[k - (next - 1)]
      /\ p = IF k = 1 THEN 0 ELSE TermBefore(m, k - (next - 1))
  BY <1>1 DEF SentAt
<1> HIDE DEF es
<1>4. /\ k \in 1..Len(l) /\ k - (next - 1) \in 1..(Len(l) - next + 1)
      /\ next + (k - (next - 1)) - 1 = k
  <2>1. Len(es) = IF next <= Len(l) THEN Len(l) - next + 1 ELSE 0
    BY <1>2
  <2>2. k - (next - 1) \in 1..Len(es)
    BY <1>3
  <2>3. next <= Len(l)
    BY <1>0, <2>1, <2>2
  <2> QED BY <1>0, <2>1, <2>2, <2>3
<1>5. e = l[k]
  BY <1>2, <1>3, <1>4
<1>6. ASSUME k # 1 PROVE TermBefore(m, k - (next - 1)) = l[k - 1].term
  <2>1. CASE k - (next - 1) = 1
    <3>1. next - 1 = k - 1 /\ k - 1 \in 1..Len(l)
      BY <1>0, <1>4, <1>6, <2>1
    <3>2. TermBefore(m, k - (next - 1)) = TermAt(l, next - 1)
      BY <1>1, <2>1 DEF TermBefore
    <3> QED BY <3>1, <3>2 DEF TermAt
  <2>2. CASE k - (next - 1) # 1
    <3>1. /\ (k - (next - 1)) - 1 \in 1..(Len(l) - next + 1)
          /\ next + ((k - (next - 1)) - 1) - 1 = k - 1
      BY <1>0, <1>4, <2>2
    <3>2. es[(k - (next - 1)) - 1] = l[k - 1]
      BY <1>2, <3>1
    <3> QED BY <1>1, <2>2, <3>2 DEF TermBefore
  <2> QED BY <2>1, <2>2
<1>7. p = IF k = 1 THEN 0 ELSE l[k - 1].term
  BY <1>3, <1>6
<1> QED BY <1>4, <1>5, <1>7 DEF EntryAt

\* raft_recv_appendentries joins the old log and the message where they agree.
LEMMA LogAfterEntries ==
    ASSUME NEW l \in Seq(Entry), NEW m \in Message, m.type = "appendentries", ~Missing(l, m),
           NEW k \in Nat, NEW e, NEW p, EntryAt(LogAfter(l, m), k, e, p)
    PROVE  EntryAt(l, k, e, p) \/ SentAt(m, k, e, p)
<1> DEFINE r == LogAfter(l, m)
           d == DeletedFrom(l, m)
           prev == m.prev_log_idx
           es == m.entries
<1>0. /\ prev \in Nat /\ Len(es) \in Nat /\ Len(l) \in Nat /\ Len(r) \in Nat
  BY AppendentriesFields, LogAfterType, LenProperties
<1>1. /\ d \in 1..(Len(l) + 1)
      /\ \A n \in 1..Len(r) : KeptEntry(l, m, r, n) \/ NewEntry(l, m, r, n)
  BY LogAfterShape
<1>2. k \in 1..Len(r) /\ e = r[k] /\ p = IF k = 1 THEN 0 ELSE r[k - 1].term
  BY DEF EntryAt
<1> HIDE DEF r
<1>3. k # 1 => k - 1 \in 1..Len(r)
  BY <1>0, <1>2
<1>4. \A n \in 1..Len(r) :
        \/ n < d /\ n <= Len(l) /\ r[n] = l[n]
        \/ d <= n /\ n - prev \in 1..Len(es) /\ r[n] = es[n - prev]
           /\ (n = d /\ n > 1 => l[n - 1].term = TermBefore(m, n - prev))
  BY <1>1 DEF KeptEntry, NewEntry
<1> HIDE DEF d
<1>5. CASE k < d /\ k <= Len(l) /\ r[k] = l[k]
  <2>1. k # 1 => r[k - 1] = l[k - 1]
    BY <1>0, <1>1, <1>2, <1>3, <1>4, <1>5
  <2>2. p = IF k = 1 THEN 0 ELSE l[k - 1].term
    BY <1>2, <2>1
  <2> QED BY <1>0, <1>2, <1>5, <2>2 DEF EntryAt
<1>6. CASE /\ d <= k /\ k - prev \in 1..Len(es) /\ r[k] = es[k - prev]
           /\ k = d /\ k > 1 => l[k - 1].term = TermBefore(m, k - prev)
  <2>1. ASSUME k # 1 PROVE r[k - 1].term = TermBefore(m, k - prev)
    <3>1. CASE k = d
      <4>1. r[k - 1] = l[k - 1]
        BY <1>0, <1>1, <1>2, <1>3, <1>4, <2>1, <3>1
      <4> QED BY <1>2, <1>6, <2>1, <3>1, <4>1
    <3>2. CASE k # d
      <4>1. ~(k - 1 < d)
        BY <1>0, <1>1, <1>2, <1>6, <3>2
      <4>2. (k - 1) - prev \in 1..Len(es) /\ r[k - 1] = es[(k - 1) - prev]
        BY <1>3, <1>4, <2>1, <4>1
      <4>3. k - prev # 1 /\ (k - 1) - prev = (k - prev) - 1
        <5> HIDE DEF prev
        <5> QED BY <1>0, <1>2, <4>2
      <4>4. TermBefore(m, k - prev) = es[(k - prev) - 1].term
        BY <4>3 DEF TermBefore
      <4> HIDE DEF prev, es
      <4> QED BY <4>2, <4>3, <4>4
    <3> QED BY <3>1, <3>2
  <2>2. p = IF k = 1 THEN 0 ELSE TermBefore(m, k - prev)
    BY <1>2, <2>1
  <2> QED BY <1>2, <1>6, <2>2 DEF SentAt
<1> QED BY <1>2, <1>4, <1>5, <1>6
LEMMA EntriesMatch ==
    ASSUME TypeOK, OneEntry
    PROVE  LogMatching
<1> SUFFICES ASSUME NEW i \in Servers, NEW j \in Servers,
                    NEW k \in 1..MinOf(Len(log[i]), Len(log[j])),
                    log[i][k].term = log[j][k].term
             PROVE  SubSeq(log[i], 1, k) = SubSeq(log[j], 1, k)
  BY DEF LogMatching
<1> DEFINE l == log[i]
           r == log[j]
<1>0. l \in Seq(Entry) /\ r \in Seq(Entry)
  BY DEF TypeOK
<1>1. Len(l) \in Nat /\ Len(r) \in Nat /\ k \in Nat /\ 1 <= k /\ k <= Len(l) /\ k <= Len(r)
  <2>1. Len(l) \in Nat /\ Len(r) \in Nat
    BY <1>0, LenProperties
  <2>2. k \in 1..MinOf(Len(l), Len(r))
    OBVIOUS
  <2> HIDE DEF l, r
  <2> QED BY <2>1, <2>2 DEF MinOf
<1>2. ASSUME NEW n \in 1..k, l[n].term = r[n].term
      PROVE  l[n] = r[n] /\ (n # 1 => l[n - 1].term = r[n - 1].term)
  <2> DEFINE p == IF n = 1 THEN 0 ELSE l[n - 1].term
             q == IF n = 1 THEN 0 ELSE r[n - 1].term
  <2>0. n \in Nat /\ n \in 1..Len(l) /\ n \in 1..Len(r)
    BY <1>1
  <2>1. Occurs(n, l[n], p) /\ Occurs(n, r[n], q)
    <3>1. EntryAt(log[i], n, l[n], p) /\ EntryAt(log[j], n, r[n], q)
      BY <2>0 DEF EntryAt
    <3> QED BY <3>1 DEF Occurs
  <2>2. l[n] = r[n] /\ p = q
    <3> HIDE DEF p, q, l, r
    <3> QED BY <1>2, <2>0, <2>1 DEF OneEntry
  <2> QED BY <2>2
<1> HIDE DEF l, r
<1> DEFINE Bad == {x \in Nat : x < k /\ l[k - x] # r[k - x]}
<1>3. Bad = {}
  <2> SUFFICES ASSUME Bad # {} PROVE FALSE
    OBVIOUS
  <2>1. PICK x \in Bad : \A y \in Bad : x <= y
    <3>1. Bad \in SUBSET Nat
      OBVIOUS
    <3> HIDE DEF Bad
    <3> QED BY <3>1, NatMin
  <2>2. x \in Nat /\ x < k /\ l[k - x] # r[k - x]
    OBVIOUS
  <2>3. l[k - x].term = r[k - x].term
    <3>1. CASE x = 0
      <4>1. k - x = k
        BY <1>1, <3>1
      <4> QED BY <4>1 DEF l, r
    <3>2. CASE x # 0
      <4>1. /\ x - 1 \in Nat /\ x - 1 < k /\ ~(x <= x - 1)
            /\ k - (x - 1) \in 1..k /\ k - (x - 1) # 1 /\ (k - (x - 1)) - 1 = k - x
        <5>1. x \in Nat /\ x < k /\ k \in Nat /\ x >= 1
          BY <1>1, <2>2, <3>2
        <5> HIDE DEF Bad
        <5>2. x - 1 \in Nat /\ x - 1 < k /\ ~(x <= x - 1)
          BY <5>1
        <5>3. k - (x - 1) \in 1..k
          BY <5>1
        <5>4. k - (x - 1) # 1 /\ (k - (x - 1)) - 1 = k - x
          BY <5>1
        <5> QED BY <5>2, <5>3, <5>4
      <4>2. l[k - (x - 1)] = r[k - (x - 1)]
        BY <2>1, <4>1
      <4>3. l[(k - (x - 1)) - 1].term = r[(k - (x - 1)) - 1].term
        BY <1>2, <4>1, <4>2
      <4> QED BY <4>1, <4>3
    <3> QED BY <3>1, <3>2
  <2>4. k - x \in 1..k
    BY <1>1, <2>2, SMTT(30)
  <2> QED BY <1>2, <2>2, <2>3, <2>4
<1>4. \A n \in 1..k : l[n] = r[n]
  <2> TAKE n \in 1..k
  <2>1. k - n \in Nat /\ k - n < k /\ k - (k - n) = n
    BY <1>1, SMTT(30)
  <2>2. k - n \notin Bad
    BY <1>3
  <2> QED BY <2>1, <2>2
<1>5. ASSUME NEW s \in Seq(Entry), k <= Len(s)
      PROVE  /\ SubSeq(s, 1, k) \in Seq(Entry) /\ Len(SubSeq(s, 1, k)) = k
             /\ \A n \in 1..k : SubSeq(s, 1, k)[n] = s[n]
  <2>1. \A n \in 1..k : s[n] \in Entry
    BY <1>1, <1>5, ElementOfSeq, LenProperties
  <2>2. /\ SubSeq(s, 1, k) \in Seq(Entry)
        /\ Len(SubSeq(s, 1, k)) = IF 1 <= k THEN k - 1 + 1 ELSE 0
        /\ \A n \in 1..(k - 1 + 1) : SubSeq(s, 1, k)[n] = s[1 + n - 1]
    BY <1>1, <2>1, SubSeqProperties
  <2> QED BY <1>1, <2>2
<1>6. SubSeq(l, 1, k) = SubSeq(r, 1, k)
  <2>1. /\ SubSeq(l, 1, k) \in Seq(Entry) /\ SubSeq(r, 1, k) \in Seq(Entry)
        /\ Len(SubSeq(l, 1, k)) = Len(SubSeq(r, 1, k)) /\ Len(SubSeq(l, 1, k)) = k
        /\ \A n \in 1..k : SubSeq(l, 1, k)[n] = SubSeq(r, 1, k)[n]
    BY <1>0, <1>1, <1>4, <1>5
  <2> QED BY <2>1, SeqEqual
<1> QED BY <1>6 DEF l, r

\* What i sends to another node as leader, from its log.
FromLeader(i, x) ==
    /\ state'[i] = "leader" /\ x.term = current_term'[i]
    /\ \A k \in Nat : \A e, p : SentAt(x, k, e, p) => EntryAt(log'[i], k, e, p)
NetMove(i) ==
    \A a, b \in Servers : \A x : In(net'[a][b], x) =>
        \/ In(net[a][b], x)
        \/ a = i /\ b # i /\ (x.type = "appendentries" => FromLeader(i, x))
\* An entry that occurs nowhere is written by the leader at the end of its log.
Written(i, k, e, p) ==
    /\ state[i] = "leader" /\ e.term = current_term[i]
    /\ k = Len(log[i]) + 1 /\ EntryAt(log'[i], k, e, p)
LogsMove(i) ==
    /\ \A s \in Servers \ {i} : log'[s] = log[s]
    /\ \A k \in Nat : \A e, p : EntryAt(log'[i], k, e, p) =>
          Occurs(k, e, p) \/ Written(i, k, e, p)
    /\ state'[i] = "leader" => Len(log[i]) <= Len(log'[i])
\* i becomes leader of a term that has had none.
NewReign(i) ==
    /\ \A a \in Servers : ~Rules(current_term'[i], a)
    /\ ~HasEntry(current_term'[i])
    /\ Led(current_term[i], i)' /\ current_term'[i] = current_term[i]
LeaderMove(i) ==
    \A a \in Servers : state'[a] = "leader" =>
        \/ state[a] = "leader" /\ current_term'[a] = current_term[a]
        \/ a = i /\ NewReign(i)
LogMove(i) == VoteMove(i) /\ NetMove(i) /\ LogsMove(i) /\ LeaderMove(i)

LEMMA OccursMove ==
    ASSUME NEW i \in Servers, NetMove(i), LogsMove(i),
           NEW k \in Nat, NEW e, NEW p, Occurs(k, e, p)'
    PROVE  Occurs(k, e, p) \/ Written(i, k, e, p)
<1>1. ASSUME NEW s \in Servers, EntryAt(log'[s], k, e, p)
      PROVE  Occurs(k, e, p) \/ Written(i, k, e, p)
  <2>1. CASE s = i
    BY <1>1, <2>1 DEF LogsMove
  <2>2. CASE s # i
    BY <1>1, <2>2 DEF LogsMove, Occurs
  <2> QED BY <2>1, <2>2
<1>2. ASSUME NEW a \in Servers, NEW b \in Servers, NEW m,
             In(net'[a][b], m), m.type = "appendentries", SentAt(m, k, e, p)
      PROVE  Occurs(k, e, p) \/ Written(i, k, e, p)
  <2>1. CASE In(net[a][b], m)
    BY <1>2, <2>1 DEF Occurs
  <2>2. CASE FromLeader(i, m)
    <3>1. EntryAt(log'[i], k, e, p)
      BY <1>2, <2>2 DEF FromLeader
    <3> QED BY <1>1, <3>1
  <2> QED BY <1>2, <2>1, <2>2 DEF NetMove
<1> QED BY <1>1, <1>2 DEF Occurs

LEMMA ReignKept ==
    ASSUME LogInv, TypeOK', NEW i \in Servers, LogMove(i)
    PROVE  OneReign'
<1>0. TypeOK /\ current_term[i] \in Nat /\ VoteMove(i)
  BY DEF LogInv, ElectionInv, TypeOK, LogMove
<1>1. ASSUME NEW t \in Nat, HasEntry(t)'
      PROVE  HasEntry(t) \/ Rules(t, i)
  <2>0. PICK k \in Nat : \E e, p : Occurs(k, e, p)' /\ e.term = t
    BY <1>1 DEF HasEntry
  <2>1. PICK e, p : Occurs(k, e, p)' /\ e.term = t
    BY <2>0
  <2>2. Occurs(k, e, p) \/ Written(i, k, e, p)
    BY <2>1, OccursMove DEF LogMove
  <2> QED BY <2>1, <2>2 DEF HasEntry, Written, Rules
<1>2. ASSUME NEW t \in Nat, NEW a \in Servers, Rules(t, a)'
      PROVE  Rules(t, a) \/ (a = i /\ t = current_term'[i] /\ NewReign(i))
  <2>1. ASSUME NEW c \in Servers, state'[c] = "leader", current_term'[c] = t
        PROVE  Rules(t, c) \/ (c = i /\ t = current_term'[i] /\ NewReign(i))
    BY <2>1 DEF LogMove, LeaderMove, Rules
  <2>2. ASSUME NEW b \in Servers, NEW m, In(net'[a][b], m), m.type = "appendentries", m.term = t
        PROVE  Rules(t, a) \/ (a = i /\ t = current_term'[i] /\ NewReign(i))
    <3>1. CASE In(net[a][b], m)
      BY <2>2, <3>1 DEF Rules
    <3>2. CASE a = i /\ FromLeader(i, m)
      BY <2>1, <2>2, <3>2 DEF FromLeader
    <3> QED BY <2>2, <3>1, <3>2 DEF LogMove, NetMove
  <2> QED BY <1>2, <2>1, <2>2 DEF Rules
<1> SUFFICES ASSUME NEW t \in Nat, HasEntry(t)' \/ \E a \in Servers : Rules(t, a)'
             PROVE  \E L \in Servers : Led(t, L)' /\ \A a \in Servers : Rules(t, a)' => a = L
  BY DEF OneReign
<1>3. CASE HasEntry(t) \/ \E a \in Servers : Rules(t, a)
  <2>1. PICK L \in Servers : Led(t, L) /\ \A a \in Servers : Rules(t, a) => a = L
    BY <1>3 DEF LogInv, OneReign
  <2>2. Led(t, L)'
    BY <1>0, <2>1, LedKept
  <2>3. ASSUME NEW a \in Servers, Rules(t, a)' PROVE a = L
    <3>1. CASE Rules(t, a)
      BY <2>1, <3>1
    <3>2. CASE a = i /\ t = current_term'[i] /\ NewReign(i)
      BY <1>3, <3>2 DEF NewReign
    <3> QED BY <1>2, <2>3, <3>1, <3>2
  <2> QED BY <2>2, <2>3
<1>4. CASE ~HasEntry(t) /\ ~(\E a \in Servers : Rules(t, a))
  <2>1. ~HasEntry(t)'
    BY <1>1, <1>4
  <2>2. \A a \in Servers : Rules(t, a)' => a = i /\ t = current_term'[i] /\ NewReign(i)
    BY <1>2, <1>4
  <2>3. t = current_term'[i] /\ NewReign(i)
    BY <2>1, <2>2
  <2>4. Led(t, i)'
    <3>1. t = current_term[i] /\ Led(current_term[i], i)'
      BY <2>3 DEF NewReign
    <3>2. t = current_term'[i]
      BY <2>3
    <3> QED BY <3>1, <3>2 DEF Led, Settled, Grant
  <2> QED BY <2>2, <2>4
<1> QED BY <1>3, <1>4

LEMMA EntriesKept ==
    ASSUME LogInv, NEW i \in Servers, LogMove(i)
    PROVE  OneEntry' /\ LeaderHolds'
<1>0. \A s \in Servers : Len(log[s]) \in Nat
  <2>1. \A s \in Servers : log[s] \in Seq(Entry)
    BY DEF LogInv, ElectionInv, TypeOK
  <2> QED BY <2>1, LenProperties
<1>1. ASSUME NEW k \in Nat, NEW e, NEW p, Occurs(k, e, p)'
      PROVE  Occurs(k, e, p) \/ Written(i, k, e, p)
  BY <1>1, OccursMove DEF LogMove
<1>2. ASSUME NEW k \in Nat, NEW e, NEW p, NEW f, NEW q,
             Occurs(k, e, p), Written(i, k, f, q), e.term = f.term
      PROVE  FALSE
  <2>1. k <= Len(log[i]) /\ k = Len(log[i]) + 1
    BY <1>2 DEF LogInv, LeaderHolds, Written
  <2> QED BY <1>0, <2>1
<1>3. OneEntry'
  <2> SUFFICES ASSUME NEW k \in Nat, NEW e, NEW f, NEW p, NEW q,
                      Occurs(k, e, p)', Occurs(k, f, q)', e.term = f.term
               PROVE  e = f /\ p = q
    BY DEF OneEntry
  <2>1. CASE Occurs(k, e, p) /\ Occurs(k, f, q)
    BY <2>1 DEF LogInv, OneEntry
  <2>2. CASE Written(i, k, e, p) /\ Written(i, k, f, q)
    BY <2>2 DEF Written, EntryAt
  <2> QED BY <1>1, <1>2, <2>1, <2>2
<1>4. LeaderHolds'
  <2> SUFFICES ASSUME NEW a \in Servers, state'[a] = "leader", NEW k \in Nat, NEW e, NEW p,
                      Occurs(k, e, p)', e.term = current_term'[a]
               PROVE  k <= Len(log'[a])
    BY DEF LeaderHolds
  <2>1. CASE state[a] = "leader" /\ current_term'[a] = current_term[a]
    <3>1. CASE Occurs(k, e, p)
      <4>1. k <= Len(log[a])
        BY <2>1, <3>1 DEF LogInv, LeaderHolds
      <4>2. CASE a # i
        BY <4>1, <4>2 DEF LogMove, LogsMove
      <4>3. CASE a = i
        <5>1. Len(log[i]) <= Len(log'[i])
          BY <4>3 DEF LogMove, LogsMove
        <5> QED BY <1>0, <4>1, <4>3, <5>1
      <4> QED BY <4>2, <4>3
    <3>2. CASE Written(i, k, e, p)
      <4>1. state[i] = "leader" /\ current_term[i] = current_term[a] /\ k \in 1..Len(log'[i])
        BY <2>1, <3>2 DEF Written, EntryAt
      <4>2. a = i
        BY <2>1, <4>1, InvImpliesElectionSafety DEF LogInv, ElectionSafety
      <4> QED BY <4>1, <4>2
    <3> QED BY <1>1, <3>1, <3>2
  <2>2. CASE a = i /\ NewReign(i)
    <3>1. ~Occurs(k, e, p)
      BY <2>2 DEF NewReign, HasEntry
    <3>2. state[i] = "leader" /\ e.term = current_term[i]
      BY <1>1, <3>1 DEF Written
    <3> QED BY <2>2, <3>2 DEF NewReign, Rules
  <2> QED BY <2>1, <2>2 DEF LogMove, LeaderMove
<1> QED BY <1>3, <1>4

LEMMA LogMoveKeeps ==
    ASSUME LogInv, ElectionInv', NEW i \in Servers, LogMove(i)
    PROVE  LogInv'
<1>1. TypeOK'
  BY DEF ElectionInv
<1>2. NoSelf'
  <2> SUFFICES ASSUME NEW a \in Servers, NEW m, In(net'[a][a], m) PROVE FALSE
    BY DEF NoSelf
  <2> QED BY DEF LogInv, NoSelf, LogMove, NetMove
<1> QED BY <1>1, <1>2, ReignKept, EntriesKept DEF LogInv
\* Every step is such a move.  First what the actions have in common.

LEMMA AppendentriesFromLeader ==
    ASSUME NEW i, state'[i] = "leader", log'[i] \in Seq(Entry),
           NEW commit, NEW next \in Nat \ {0}
    PROVE  FromLeader(i, Appendentries(current_term'[i], log'[i], commit, next))
<1> DEFINE x == Appendentries(current_term'[i], log'[i], commit, next)
<1>1. x.term = current_term'[i]
  BY DEF Appendentries
<1>2. \A k \in Nat : \A e, p : SentAt(x, k, e, p) => EntryAt(log'[i], k, e, p)
  BY SentFromLog
<1> QED BY <1>1, <1>2 DEF FromLeader

\* What the messages of out must be.
GoodOut(i, out) ==
    \A b \in Servers : \A x : In(out[b], x) =>
        b # i /\ (x.type = "appendentries" => FromLeader(i, x))

LEMMA SentMove ==
    ASSUME TypeOK, NEW i \in Servers, NEW out \in OutType, net' = Sent(net, i, out),
           GoodOut(i, out)
    PROVE  NetMove(i)
<1>1. net \in NetType
  BY NetIsTyped
<1> SUFFICES ASSUME NEW a \in Servers, NEW b \in Servers, NEW x, In(net'[a][b], x)
             PROVE  \/ In(net[a][b], x)
                    \/ a = i /\ b # i /\ (x.type = "appendentries" => FromLeader(i, x))
  BY DEF NetMove
<1>2. In(net[a][b], x) \/ (a = i /\ In(out[b], x))
  BY <1>1, SentProperties
<1> QED BY <1>2 DEF GoodOut

LEMMA DeliveredMove ==
    ASSUME TypeOK, NEW i \in Servers, NEW j \in Servers, NEW n \in 1..Len(net[j][i]),
           NEW out \in OutType, \E base \in Taken(j, i, n) : net' = Sent(base, i, out),
           GoodOut(i, out)
    PROVE  NetMove(i)
<1>1. net \in NetType
  BY NetIsTyped
<1>2. \A a, b \in Servers : \A m : In(net'[a][b], m) =>
         In(net[a][b], m) \/ (a = i /\ In(out[b], m))
  BY <1>1, Delivered
<1> QED BY <1>2 DEF GoodOut, NetMove

LEMMA SameLogs ==
    ASSUME TypeOK, NEW i \in Servers, log' = log
    PROVE  LogsMove(i)
<1>1. log[i] \in Seq(Entry)
  BY DEF TypeOK
<1>2. Len(log[i]) \in Nat
  BY <1>1, LenProperties
<1>3. \A k \in Nat : \A e, p : EntryAt(log'[i], k, e, p) => Occurs(k, e, p)
  BY DEF Occurs
<1> QED BY <1>2, <1>3 DEF LogsMove

LEMMA QuietLeaders ==
    ASSUME NEW i \in Servers, Quiet(i)
    PROVE  LeaderMove(i)
<1> SUFFICES ASSUME NEW a \in Servers, state'[a] = "leader"
             PROVE  state[a] = "leader" /\ current_term'[a] = current_term[a]
  BY DEF LeaderMove
<1>1. CASE a = i
  BY <1>1 DEF Quiet, InOffice
<1>2. CASE a # i
  BY <1>2 DEF Quiet, OthersUntouched
<1> QED BY <1>1, <1>2

LEMMA ApplyLogMove ==
    ASSUME LogInv, NEW i \in Servers, raft_periodic_apply(i)
    PROVE  LogMove(i)
<1>1. TypeOK /\ ElectionInv /\ log' = log /\ net' = net
  BY DEF LogInv, ElectionInv, raft_periodic_apply
<1>2. NetMove(i)
  BY <1>1 DEF NetMove
<1>3. Quiet(i)
  BY <1>1, ApplyQuiet
<1> QED BY <1>1, <1>2, <1>3, QuietMove, QuietLeaders, SameLogs DEF LogMove

LEMMA LeaderLogMove ==
    ASSUME LogInv, NEW i \in Servers, raft_periodic_leader(i)
    PROVE  LogMove(i)
<1> DEFINE out == raft_send_appendentries_all(i)
<1>1. TypeOK /\ ElectionInv
  BY DEF LogInv, ElectionInv
<1>2. /\ log' = log /\ net' = Sent(net, i, out) /\ state' = state /\ current_term' = current_term
      /\ state[i] = "leader"
  BY DEF raft_periodic_leader, electionVars
<1>3. /\ log[i] \in Seq(Entry) /\ current_term[i] \in Nat /\ commit_idx[i] \in Nat
      /\ \A b \in Servers : next_idx[i][b] \in Nat \ {0}
  BY <1>1 DEF TypeOK
<1>4. ASSUME NEW b \in Servers, NEW x, In(out[b], x)
      PROVE  b # i /\ FromLeader(i, x)
  <2> DEFINE m == Appendentries(current_term[i], log[i], commit_idx[i], next_idx[i][b])
  <2>1. out[b] = IF b = i THEN << >> ELSE <<m>>
    BY DEF raft_send_appendentries_all
  <2>2. m \in Message
    BY <1>3, AppendentriesType
  <2>3. FromLeader(i, m)
    BY <1>2, <1>3, AppendentriesFromLeader
  <2> HIDE DEF m, out
  <2>4. b # i
    BY <1>4, <2>1, EmptyChannel
  <2>5. x = m
    BY <1>4, <2>1, <2>2, <2>4, OneMessage
  <2> QED BY <2>3, <2>4, <2>5
<1>5. out \in OutType
  BY <1>1, SendAllType
<1> HIDE DEF out
<1>6. GoodOut(i, out)
  BY <1>4 DEF GoodOut
<1>7. NetMove(i)
  BY <1>1, <1>2, <1>5, <1>6, SentMove
<1>8. Quiet(i)
  BY <1>1, LeaderQuiet
<1> QED BY <1>1, <1>2, <1>7, <1>8, QuietMove, QuietLeaders, SameLogs DEF LogMove

LEMMA ElectionLogMove ==
    ASSUME LogInv, NEW i \in Servers, raft_periodic_election(i)
    PROVE  LogMove(i)
<1>1. TypeOK
  BY DEF LogInv, ElectionInv
<1>2. log' = log /\ net' = Sent(net, i, VoteRequests(i))
  BY DEF raft_periodic_election, VoteRequests, VoteRequest
<1>3. VoteRequests(i) \in OutType /\ Sends(VoteRequests(i), "requestvote")
  BY <1>1, VoteRequestsType
<1>4. \A x : ~In(VoteRequests(i)[i], x)
  <2>1. VoteRequests(i)[i] = << >>
    BY DEF VoteRequests
  <2> QED BY <2>1, EmptyChannel
<1>5. GoodOut(i, VoteRequests(i))
  BY <1>3, <1>4 DEF GoodOut, Sends
<1>6. NetMove(i)
  BY <1>1, <1>2, <1>3, <1>5, SentMove
<1>7. LeaderMove(i)
  <2>1. state'[i] = "candidate" /\ OthersUntouched(i)
    BY <1>1, ElectionEffect
  <2> QED BY <2>1 DEF LeaderMove, OthersUntouched
<1> QED BY <1>1, <1>2, <1>6, <1>7, ElectionMove, SameLogs DEF LogMove

LEMMA RebornLogMove ==
    ASSUME LogInv, NEW i \in Servers, NEW term \in Nat, Reborn(i, term), term >= current_term[i]
    PROVE  LogMove(i)
<1>1. TypeOK /\ ElectionInv /\ log' = log /\ net' = net
  BY DEF LogInv, ElectionInv, Reborn
<1>2. NetMove(i)
  BY <1>1 DEF NetMove
<1>3. Quiet(i)
  BY <1>1, RebornQuiet
<1> QED BY <1>1, <1>2, <1>3, QuietMove, QuietLeaders, SameLogs DEF LogMove

LEMMA EntryLogMove ==
    ASSUME LogInv, NEW i \in Servers, NEW id \in Ids, raft_recv_entry(i, id)
    PROVE  LogMove(i)
<1> DEFINE l == EntryLog(i, id)
           out == EntryOut(i, id)
           e0 == [term |-> current_term[i], id |-> id]
<1>1. TypeOK /\ ElectionInv
  BY DEF LogInv, ElectionInv
<1>2. /\ log' = [log EXCEPT ![i] = l] /\ net' = Sent(net, i, out)
      /\ state' = state /\ current_term' = current_term /\ state[i] = "leader"
  BY DEF raft_recv_entry, EntryLog, EntryOut, electionVars
<1>3. /\ log[i] \in Seq(Entry) /\ current_term[i] \in Nat /\ commit_idx[i] \in Nat
      /\ \A b \in Servers : next_idx[i][b] \in Nat \ {0}
  BY <1>1 DEF TypeOK
<1>4. l \in Seq(Entry) /\ out \in OutType
  BY <1>1, EntryOutType
<1>5. log'[i] = l /\ \A s \in Servers \ {i} : log'[s] = log[s]
  <2> HIDE DEF l
  <2> QED BY <1>1, <1>2 DEF TypeOK
<1>6. \/ l = log[i]
      \/ /\ Len(l) = Len(log[i]) + 1 /\ l[Len(log[i]) + 1] = e0
         /\ \A k \in 1..Len(log[i]) : l[k] = log[i][k]
  <2>1. e0 \in Entry
    BY <1>3, RaftAssumption DEF Entry
  <2>2. /\ Len(Append(log[i], e0)) = Len(log[i]) + 1
        /\ \A k \in 1..Len(log[i]) : Append(log[i], e0)[k] = log[i][k]
        /\ Append(log[i], e0)[Len(log[i]) + 1] = e0
    <3> HIDE DEF e0
    <3> QED BY <1>3, <2>1, AppendProperties
  <2>3. l = log[i] \/ l = Append(log[i], e0)
    BY DEF EntryLog
  <2> HIDE DEF l, e0
  <2> QED BY <2>2, <2>3
<1>7. ASSUME NEW b \in Servers, NEW x, In(out[b], x)
      PROVE  b # i /\ FromLeader(i, x)
  <2> DEFINE m == Appendentries(current_term[i], l, commit_idx[i], next_idx[i][b])
  <2>1. out[b] = IF b # i /\ next_idx[i][b] = Len(l) THEN <<m>> ELSE << >>
    BY DEF EntryOut
  <2> HIDE DEF l
  <2>2. m \in Message
    BY <1>3, <1>4, AppendentriesType
  <2>3. FromLeader(i, m)
    <3>1. state'[i] = "leader" /\ log'[i] \in Seq(Entry) /\ current_term'[i] = current_term[i]
      BY <1>2, <1>4, <1>5
    <3>2. FromLeader(i, Appendentries(current_term'[i], log'[i], commit_idx[i], next_idx[i][b]))
      BY <1>3, <3>1, AppendentriesFromLeader
    <3> QED BY <1>5, <3>1, <3>2
  <2> HIDE DEF m, out
  <2>4. b # i
    BY <1>7, <2>1, EmptyChannel
  <2>5. x = m
    BY <1>7, <2>1, <2>2, OneMessage, EmptyChannel
  <2> QED BY <2>3, <2>4, <2>5
<1> HIDE DEF l, out
<1>8. NetMove(i)
  <2>1. GoodOut(i, out)
    BY <1>7 DEF GoodOut
  <2> QED BY <1>1, <1>2, <1>4, <2>1, SentMove
<1>9. LogsMove(i)
  <2>0. Len(log[i]) \in Nat /\ Len(l) \in Nat
    BY <1>3, <1>4, LenProperties
  <2>1. Len(log[i]) <= Len(log'[i])
    BY <1>5, <1>6, <2>0
  <2>2. ASSUME NEW k \in Nat, NEW e, NEW p, EntryAt(log'[i], k, e, p)
        PROVE  Occurs(k, e, p) \/ Written(i, k, e, p)
    <3>0. k \in 1..Len(l) /\ e = l[k] /\ p = IF k = 1 THEN 0 ELSE l[k - 1].term
      BY <1>5, <2>2 DEF EntryAt
    <3>1. CASE l = log[i]
      BY <1>5, <2>2, <3>1 DEF Occurs
    <3>2. CASE /\ Len(l) = Len(log[i]) + 1 /\ l[Len(log[i]) + 1] = e0
               /\ \A n \in 1..Len(log[i]) : l[n] = log[i][n]
      <4>1. CASE k <= Len(log[i])
        <5>1. k \in 1..Len(log[i]) /\ (k # 1 => k - 1 \in 1..Len(log[i]))
          BY <2>0, <3>0, <4>1
        <5>2. l[k] = log[i][k] /\ (k # 1 => l[k - 1] = log[i][k - 1])
          BY <3>2, <5>1
        <5>3. p = IF k = 1 THEN 0 ELSE log[i][k - 1].term
          BY <3>0, <5>2
        <5>4. EntryAt(log[i], k, e, p)
          BY <3>0, <5>1, <5>2, <5>3 DEF EntryAt
        <5> QED BY <5>4 DEF Occurs
      <4>2. CASE ~(k <= Len(log[i]))
        <5>1. k = Len(log[i]) + 1
          BY <2>0, <3>0, <3>2, <4>2
        <5>2. e.term = current_term[i]
          BY <3>0, <3>2, <5>1
        <5> QED BY <1>2, <2>2, <5>1, <5>2 DEF Written
      <4> QED BY <4>1, <4>2
    <3> QED BY <1>6, <3>1, <3>2
  <2> QED BY <1>5, <2>1, <2>2 DEF LogsMove
<1>10. Quiet(i)
  BY <1>1, EntryQuiet
<1> QED BY <1>8, <1>9, <1>10, QuietMove, QuietLeaders DEF LogMove

LEMMA RequestvoteLogMove ==
    ASSUME LogInv, NEW i \in Servers, NEW j \in Servers, NEW n, raft_recv_requestvote(i, j, n)
    PROVE  LogMove(i)
<1> DEFINE m == net[j][i][n]
<1>1. TypeOK /\ log' = log /\ n \in 1..Len(net[j][i])
  BY DEF LogInv, ElectionInv, raft_recv_requestvote
<1>2. j # i
  BY <1>1 DEF LogInv, NoSelf, In
<1>3. /\ m \in Message /\ m.type = "requestvote"
      /\ \A a, b \in Servers : \A x : In(net'[a][b], x) =>
            In(net[a][b], x) \/ (a = i /\ b = j /\ x = VoteAnswer(i, m))
  <2>1. TypeOK
    BY <1>1
  <2> QED BY <2>1, RecvRequestvoteNet
<1>4. RequestvoteEffect(i, j, m)
  BY <1>1, RecvRequestvoteEffect
<1> HIDE DEF m
<1>5. VoteAnswer(i, m).type # "appendentries"
  BY DEF VoteAnswer
<1>6. NetMove(i)
  BY <1>2, <1>3, <1>5 DEF NetMove
<1>7. LeaderMove(i)
  BY <1>4 DEF LeaderMove, RequestvoteEffect, OthersUntouched, InOffice
<1> QED BY <1>1, <1>6, <1>7, RequestvoteMove, SameLogs DEF LogMove

\* A candidate that gets its majority is the first leader of the term.
LEMMA ElectedIsFirst ==
    ASSUME LogInv, NEW i \in Servers, NEW j \in Servers, NEW m,
           In(net[j][i], m), m.type = "requestvote_response", Elected(i, j, m)
    PROVE  /\ \A a \in Servers : ~Rules(current_term[i], a)
           /\ ~HasEntry(current_term[i])
<1> DEFINE t == current_term[i]
           R == (votes[i] \cup {j}) \cup {i}
<1>0. TypeOK /\ t \in Nat /\ R \in SUBSET Servers /\ votes[i] \cup {j} \in SUBSET Servers
  BY DEF LogInv, ElectionInv, TypeOK
<1>1. /\ state[i] = "candidate" /\ m.term = t /\ m.vote_granted
      /\ raft_votes_is_majority(raft_get_nvotes_for_me(i, votes[i] \cup {j}))
  BY DEF Elected
<1>2. Grant(i, t, i) /\ \A k \in R : Grant(k, t, i)
  BY <1>1 DEF Grant, InOffice
<1>3. voted_for[i] = i
  BY <1>0, <1>2 DEF LogInv, ElectionInv, VoteKept
<1>4. Cardinality(Servers) < 2 * Cardinality(R)
  BY <1>0, <1>1, <1>3, CountIsMajority
<1> HIDE DEF R
<1> SUFFICES ASSUME HasEntry(t) \/ \E a \in Servers : Rules(t, a) PROVE FALSE
  OBVIOUS
<1>5. PICK L \in Servers : Led(t, L)
  BY <1>0 DEF LogInv, OneReign
<1>6. PICK Q \in SUBSET Servers :
        Cardinality(Servers) < 2 * Cardinality(Q) /\ \A k \in Q : Settled(k, t, L)
  BY <1>5 DEF Led
<1>7. PICK k \in Q : k \in R
  BY <1>0, <1>4, <1>6, MajoritiesMeet
<1>8. i = L
  BY <1>2, <1>6, <1>7 DEF Settled
<1> QED BY <1>1, <1>5, <1>8 DEF Led

LEMMA VoteCountLogMove ==
    ASSUME LogInv, ElectionInv', NEW i \in Servers, NEW j \in Servers, NEW n,
           raft_recv_requestvote_response(i, j, n)
    PROVE  LogMove(i)
<1> DEFINE m == net[j][i][n]
           out == LeaderOut(i, j, m)
           ae == Appendentries(current_term[i], log[i], commit_idx[i], Len(log[i]) + 1)
<1>1. TypeOK /\ log' = log /\ n \in 1..Len(net[j][i]) /\ m.type = "requestvote_response"
  BY DEF LogInv, ElectionInv, raft_recv_requestvote_response
<1>2. VoteEffect(i, j, m)
  BY <1>1, RecvVoteEffect
<1>3. \E base \in Taken(j, i, n) : net' = Sent(base, i, out)
  BY DEF raft_recv_requestvote_response, LeaderOut, Elected
<1>4. out \in OutType
  BY <1>1, LeaderOutType
<1>5. Elected(i, j, m) => /\ state'[i] = "leader" /\ current_term'[i] = current_term[i]
  <2>1. /\ state' = [state EXCEPT ![i] =
                IF state[i] = "candidate" /\ m.term > current_term[i] THEN "follower"
                ELSE IF Elected(i, j, m) THEN "leader" ELSE @]
        /\ current_term' = [current_term EXCEPT ![i] =
                IF state[i] = "candidate" /\ m.term > current_term[i] THEN m.term ELSE @]
    BY DEF raft_recv_requestvote_response, Elected
  <2>2. Elected(i, j, m) => m.term = current_term[i]
    BY DEF Elected
  <2>3. current_term[i] \in Nat
    BY <1>1 DEF TypeOK
  <2>4. Elected(i, j, m) => ~(m.term > current_term[i])
    BY <2>2, <2>3
  <2> HIDE DEF m
  <2> QED BY <1>1, <2>1, <2>4 DEF TypeOK
<1>6. In(net[j][i], m)
  BY <1>1 DEF In
<1> HIDE DEF m
<1>7. log[i] \in Seq(Entry) /\ current_term[i] \in Nat /\ commit_idx[i] \in Nat
  BY <1>1 DEF TypeOK
<1>8. Len(log[i]) + 1 \in Nat \ {0}
  BY <1>7, LenProperties
<1>9. ASSUME NEW b \in Servers, NEW x, In(out[b], x)
      PROVE  b # i /\ FromLeader(i, x)
  <2>1. out[b] = IF Elected(i, j, m) /\ b # i THEN <<ae>> ELSE << >>
    BY DEF LeaderOut
  <2>2. ae \in Message
    BY <1>7, <1>8, AppendentriesType
  <2>3. Elected(i, j, m) => FromLeader(i, ae)
    BY <1>1, <1>5, <1>7, <1>8, AppendentriesFromLeader
  <2> HIDE DEF ae, out
  <2>4. b # i /\ Elected(i, j, m)
    BY <1>9, <2>1, EmptyChannel
  <2>5. x = ae
    BY <1>9, <2>1, <2>2, <2>4, OneMessage
  <2> QED BY <2>3, <2>4, <2>5
<1> HIDE DEF out, ae
<1>10. NetMove(i)
  <2>1. GoodOut(i, out)
    BY <1>9 DEF GoodOut
  <2> QED BY <1>1, <1>3, <1>4, <2>1, DeliveredMove
<1>11. ASSUME Elected(i, j, m) PROVE NewReign(i)
  <2> DEFINE t == current_term[i]
  <2>1. /\ \A a \in Servers : ~Rules(t, a)
        /\ ~HasEntry(t)
    BY <1>1, <1>6, <1>11, ElectedIsFirst
  <2>2. state'[i] = "leader" /\ current_term'[i] = t
    BY <1>5, <1>11
  <2>3. Led(current_term[i], i)'
    <3> DEFINE Q == votes'[i] \cup {i}
    <3>1. Q \in SUBSET Servers /\ Cardinality(Servers) < 2 * Cardinality(Q)
      BY <2>2 DEF ElectionInv, TypeOK, LeaderHasMajority
    <3>2. ASSUME NEW k \in Q
          PROVE  Settled(k, current_term[i], i)'
      <4>0. k \in Servers /\ current_term'[i] \in Nat
        BY <1>7, <2>2, <3>1
      <4>1. Grant(k, current_term[i], i)'
        BY <2>2 DEF Grant, InOffice
      <4>2. /\ current_term'[i] <= current_term'[k]
            /\ current_term'[i] = current_term'[k] => voted_for'[k] = i /\ disk_vote'[k] = i
        BY <4>0, <4>1 DEF ElectionInv, VoteKept
      <4>3. \A c \in Servers \ {i} : ~Grant(k, current_term[i], c)'
        BY <4>0, <4>1 DEF ElectionInv, OneVote
      <4> QED BY <4>2, <4>3 DEF Settled
    <3>3. current_term'[i] <= current_term'[i]
      BY <1>7, <2>2
    <3> HIDE DEF Q
    <3> QED BY <2>2, <3>1, <3>2, <3>3 DEF Led
  <2> QED BY <2>1, <2>2, <2>3 DEF NewReign
<1>12. LeaderMove(i)
  <2> SUFFICES ASSUME NEW a \in Servers, state'[a] = "leader"
               PROVE  \/ state[a] = "leader" /\ current_term'[a] = current_term[a]
                      \/ a = i /\ NewReign(i)
    BY DEF LeaderMove
  <2>1. CASE a # i
    BY <1>2, <2>1 DEF VoteEffect, OthersUntouched
  <2>2. CASE a = i
    BY <1>2, <1>11, <2>2 DEF VoteEffect, InOffice
  <2> QED BY <2>1, <2>2
<1> QED BY <1>1, <1>10, <1>12, VoteCountMove, SameLogs DEF LogMove

LEMMA AppendLogMove ==
    ASSUME LogInv, NEW i \in Servers, NEW j \in Servers, NEW n, raft_recv_appendentries(i, j, n)
    PROVE  LogMove(i)
<1> DEFINE m == net[j][i][n]
           Part(out) ==
                /\ Sends(out, "appendentries_response")
                /\ \E x : Answers(out, j, x)
                /\ \E base \in Taken(j, i, n) : net' = Sent(base, i, out)
                /\ current_term' = [current_term EXCEPT ![i] = MaxOf(@, m.term)]
<1>1. TypeOK /\ ElectionInv
  BY DEF LogInv, ElectionInv
<1>2. /\ n \in 1..Len(net[j][i]) /\ m \in Message /\ m.type = "appendentries"
      /\ \E out \in OutType : Part(out)
  BY <1>1, RecvAppendStep, SMTT(30) DEF AppendStep
<1>3. PICK out \in OutType : Part(out)
  BY <1>2
<1>4. /\ \A s \in Servers \ {i} : log'[s] = log[s]
      /\ \/ log'[i] = log[i]
         \/ /\ m.term >= current_term[i] /\ ~Missing(log[i], m)
            /\ log'[i] = LogAfter(log[i], m)
  BY <1>1, AppendLog
<1>5. In(net[j][i], m) /\ j # i
  BY <1>2 DEF LogInv, NoSelf, In
<1> HIDE DEF m
<1>6. /\ m.term \in Nat /\ current_term[i] \in Nat /\ log[i] \in Seq(Entry)
      /\ current_term'[i] = MaxOf(current_term[i], m.term)
  BY <1>1, <1>2, <1>3, MessageTerm DEF TypeOK
<1>7. NetMove(i)
  <2>1. GoodOut(i, out)
    BY <1>3, <1>5 DEF GoodOut, Answers, Sends
  <2>2. \E base \in Taken(j, i, n) : net' = Sent(base, i, out)
    BY <1>3
  <2> HIDE DEF Part
  <2> QED BY <1>1, <1>2, <2>1, <2>2, DeliveredMove
<1>8. Quiet(i)
  BY <1>1, AppendQuiet
<1>9. ASSUME state'[i] = "leader" PROVE log'[i] = log[i]
  <2> SUFFICES ASSUME m.term >= current_term[i] PROVE FALSE
    BY <1>4
  <2>1. state[i] = "leader" /\ current_term'[i] = current_term[i]
    BY <1>8, <1>9 DEF Quiet, InOffice
  <2>2. m.term = current_term[i]
    BY <1>6, <2>1 DEF MaxOf
  <2>3. Rules(current_term[i], i) /\ Rules(current_term[i], j)
    BY <1>2, <1>5, <2>1, <2>2 DEF Rules
  <2> QED BY <1>5, <1>6, <2>3 DEF LogInv, OneReign
<1>10. LogsMove(i)
  <2>1. ASSUME NEW k \in Nat, NEW e, NEW p, EntryAt(log'[i], k, e, p)
        PROVE  Occurs(k, e, p)
    <3>1. CASE log'[i] = log[i]
      BY <2>1, <3>1 DEF Occurs
    <3>2. CASE ~Missing(log[i], m) /\ log'[i] = LogAfter(log[i], m)
      <4>1. EntryAt(log[i], k, e, p) \/ SentAt(m, k, e, p)
        BY <1>2, <1>6, <2>1, <3>2, LogAfterEntries
      <4> QED BY <1>2, <1>5, <4>1 DEF Occurs
    <3> QED BY <1>4, <3>1, <3>2
  <2>2. state'[i] = "leader" => Len(log[i]) <= Len(log'[i])
    <3>1. Len(log[i]) <= Len(log[i])
      BY <1>6, LenProperties
    <3> QED BY <1>9, <3>1
  <2> QED BY <1>4, <2>1, <2>2 DEF LogsMove
<1> QED BY <1>7, <1>8, <1>10, QuietMove, QuietLeaders DEF LogMove

LEMMA AckLogMove ==
    ASSUME LogInv, NEW i \in Servers, NEW j \in Servers, NEW n,
           raft_recv_appendentries_response(i, j, n)
    PROVE  LogMove(i)
<1> DEFINE m == net[j][i][n]
           Part(newer, role, nexts, match, commit, out) ==
                /\ AckStep(i, j, n, m, newer, role, nexts, match, commit, out)
                /\ Sends(out, "appendentries")
                /\ AckSends(i, j, newer, role, nexts, commit, out)
                /\ newer => m.term > current_term[i] /\ role = "follower"
                /\ ~newer => role \in {state[i], "aborted"}
<1>1. TypeOK /\ ElectionInv /\ log' = log
  BY DEF LogInv, ElectionInv, raft_recv_appendentries_response
<1>2. /\ n \in 1..Len(net[j][i])
      /\ \E newer \in BOOLEAN, role \in States, nexts \in Nat \ {0},
            match \in [Servers -> Nat], commit \in Nat, out \in OutType :
            Part(newer, role, nexts, match, commit, out)
  <2>1. TypeOK
    BY <1>1
  <2> QED BY <2>1, RecvAckStep
<1>3. PICK newer \in BOOLEAN, role \in States, nexts \in Nat \ {0},
           match \in [Servers -> Nat], commit \in Nat, out \in OutType :
        Part(newer, role, nexts, match, commit, out)
  BY <1>2
<1>5. j # i
  BY <1>2 DEF LogInv, NoSelf, In
<1> HIDE DEF m
<1>6. /\ log[i] \in Seq(Entry) /\ state'[i] = role
      /\ current_term'[i] = IF newer THEN m.term ELSE current_term[i]
  BY <1>1, <1>3 DEF TypeOK, AckStep
<1>7. GoodOut(i, out)
  <2>1. CASE \A b \in Servers : \A x : ~In(out[b], x)
    BY <2>1 DEF GoodOut
  <2>2. CASE /\ ~newer /\ state[i] = "leader" /\ role = "leader"
             /\ Answers(out, j, Appendentries(current_term[i], log[i], commit, nexts))
    <3>1. FromLeader(i, Appendentries(current_term[i], log[i], commit, nexts))
      BY <1>1, <1>6, <2>2, AppendentriesFromLeader
    <3> QED BY <1>5, <2>2, <3>1 DEF GoodOut, Answers
  <2> QED BY <1>3, <2>1, <2>2 DEF AckSends
<1>8. NetMove(i)
  <2>1. \E base \in Taken(j, i, n) : net' = Sent(base, i, out)
    BY <1>3 DEF AckStep
  <2> HIDE DEF Part
  <2> QED BY <1>1, <1>2, <1>7, <2>1, DeliveredMove
<1>9. Quiet(i)
  BY <1>1, AckQuiet
<1> QED BY <1>1, <1>8, <1>9, QuietMove, QuietLeaders, SameLogs DEF LogMove

LEMMA InitLog == Init => LogInv
<1> SUFFICES ASSUME Init PROVE LogInv
  OBVIOUS
<1>1. \A a, b \in Servers : \A m : ~In(net[a][b], m)
  BY EmptyChannel DEF Init, Nothing
<1>2. \A s \in Servers : log[s] = << >> /\ state[s] = "follower"
  BY DEF Init
<1>3. \A k, e, p : ~EntryAt(<< >>, k, e, p)
  BY EmptySeq DEF EntryAt
<1>4. \A k, e, p : ~Occurs(k, e, p)
  BY <1>1, <1>2, <1>3 DEF Occurs
<1>5. \A t : ~HasEntry(t) /\ \A a \in Servers : ~Rules(t, a)
  BY <1>1, <1>2, <1>4 DEF HasEntry, Rules
<1> QED BY <1>1, <1>2, <1>4, <1>5, InitElection DEF LogInv, OneReign, NoSelf, OneEntry, LeaderHolds

LEMMA NextLog == LogInv /\ [Next]_vars => LogInv'
<1> SUFFICES ASSUME LogInv, [Next]_vars PROVE LogInv'
  OBVIOUS
<1>0. ElectionInv'
  BY NextElection DEF LogInv
<1>1. CASE UNCHANGED vars
  <2>1. /\ net' = net /\ log' = log /\ state' = state /\ current_term' = current_term
        /\ voted_for' = voted_for /\ disk_vote' = disk_vote /\ votes' = votes
    BY <1>1 DEF vars
  <2>2. \A k, e, p : Occurs(k, e, p)' <=> Occurs(k, e, p)
    BY <2>1 DEF Occurs
  <2>3. \A t : (HasEntry(t)' <=> HasEntry(t)) /\ \A a \in Servers : Rules(t, a)' <=> Rules(t, a)
    BY <2>1, <2>2 DEF HasEntry, Rules
  <2>4. \A k, t, c : Grant(k, t, c)' <=> Grant(k, t, c)
    BY <2>1 DEF Grant
  <2>5. \A k, t, L : Settled(k, t, L)' <=> Settled(k, t, L)
    BY <2>1, <2>4 DEF Settled
  <2>6. \A t, L : Led(t, L)' <=> Led(t, L)
    BY <2>1, <2>5 DEF Led
  <2>7. OneReign'
    BY <2>3, <2>6 DEF LogInv, OneReign
  <2>8. NoSelf' /\ OneEntry' /\ LeaderHolds'
    BY <2>1, <2>2 DEF LogInv, NoSelf, OneEntry, LeaderHolds
  <2> QED BY <1>0, <2>7, <2>8 DEF LogInv
<1>2. ASSUME NEW i \in Servers, Restart(i) \/ RestartBetweenSaves(i)
      PROVE  LogMove(i)
  <2>1. /\ current_term[i] \in Nat /\ current_term[i] + 1 \in Nat
        /\ current_term[i] >= current_term[i] /\ current_term[i] + 1 >= current_term[i]
    BY DEF LogInv, ElectionInv, TypeOK
  <2> QED BY <1>2, <2>1, RebornLogMove DEF Restart, RestartBetweenSaves
<1>3. CASE Next
  <2>1. \E i \in Servers : LogMove(i)
    BY <1>0, <1>2, <1>3, ApplyLogMove, LeaderLogMove, ElectionLogMove, EntryLogMove,
       RequestvoteLogMove, VoteCountLogMove, AppendLogMove, AckLogMove DEF Next
  <2> QED BY <1>0, <2>1, LogMoveKeeps
<1> QED BY <1>1, <1>3

\* Entries of the same index and term have the same history, for any number of
\* servers and on any transport: what raft_recv_appendentries deletes and appends
\* never joins two logs in the middle, also after a message was lost, delayed or
\* delivered twice, and after a leader was restarted and lost its office.
THEOREM LogsMatch == Spec => []LogMatching
<1>1. Init => LogInv
  BY InitLog
<1>2. LogInv /\ [Next]_vars => LogInv'
  BY NextLog
<1>3. LogInv => LogMatching
  BY EntriesMatch DEF LogInv, ElectionInv
<1> QED BY <1>1, <1>2, <1>3, PTL DEF Spec

-----------------------------------------------------------------------------
\* The commit rule, on a transport that keeps the order of the messages.  First
\* the order of a channel.

\* y is behind x in channel q.
Later(q, x, y) == \E k, n \in 1..Len(q) : k < n /\ q[k] = x /\ q[n] = y

LEMMA TailOrder ==
    ASSUME NEW S, NEW q \in Seq(S), q # << >>
    PROVE  /\ Tail(q) \in Seq(S)
           /\ \A x, y : Later(Tail(q), x, y) => Later(q, x, y)
           /\ \A x : In(Tail(q), x) => In(q, x) /\ Later(q, q[1], x)
<1>1. Len(q) \in Nat /\ Len(q) # 0
  BY LenProperties, EmptySeq
<1>2. /\ Tail(q) \in Seq(S) /\ Len(Tail(q)) = Len(q) - 1
      /\ \A k \in 1..Len(Tail(q)) : Tail(q)[k] = q[k + 1]
  BY HeadTailProperties
<1>3. ASSUME NEW x, NEW y, Later(Tail(q), x, y)
      PROVE  Later(q, x, y)
  <2>1. PICK k, n \in 1..Len(Tail(q)) : k < n /\ Tail(q)[k] = x /\ Tail(q)[n] = y
    BY <1>3 DEF Later
  <2>2. /\ k + 1 \in 1..Len(q) /\ n + 1 \in 1..Len(q) /\ k + 1 < n + 1
        /\ q[k + 1] = x /\ q[n + 1] = y
    BY <1>1, <1>2, <2>1
  <2> QED BY <2>2 DEF Later
<1>4. ASSUME NEW x, In(Tail(q), x)
      PROVE  In(q, x) /\ Later(q, q[1], x)
  <2>1. PICK k \in 1..Len(Tail(q)) : Tail(q)[k] = x
    BY <1>4 DEF In
  <2>2. /\ k + 1 \in 1..Len(q) /\ 1 \in 1..Len(q) /\ 1 < k + 1 /\ q[k + 1] = x
    BY <1>1, <1>2, <2>1
  <2> QED BY <2>2 DEF Later, In
<1> QED BY <1>2, <1>3, <1>4

LEMMA ConcatOrder ==
    ASSUME NEW S, NEW q \in Seq(S), NEW ms \in Seq(S), Len(ms) <= 1,
           NEW x, NEW y, Later(q \o ms, x, y)
    PROVE  Later(q, x, y) \/ (In(q, x) /\ In(ms, y))
<1>0. Len(q) \in Nat /\ Len(ms) \in Nat
  BY LenProperties
<1>1. /\ Len(q \o ms) = Len(q) + Len(ms)
      /\ \A k \in 1..(Len(q) + Len(ms)) :
            (q \o ms)[k] = IF k <= Len(q) THEN q[k] ELSE ms[k - Len(q)]
  BY ConcatProperties
<1>2. PICK k, n \in 1..Len(q \o ms) : k < n /\ (q \o ms)[k] = x /\ (q \o ms)[n] = y
  BY DEF Later
<1>3. k \in 1..Len(q) /\ q[k] = x
  BY <1>0, <1>1, <1>2
<1>4. CASE n <= Len(q)
  <2>1. n \in 1..Len(q) /\ q[n] = y
    BY <1>0, <1>1, <1>2, <1>4
  <2> QED BY <1>2, <1>3, <2>1 DEF Later
<1>5. CASE n > Len(q)
  <2>1. n - Len(q) \in 1..Len(ms) /\ ms[n - Len(q)] = y
    BY <1>0, <1>1, <1>2, <1>5
  <2> QED BY <1>3, <2>1 DEF In
<1> QED BY <1>0, <1>1, <1>4, <1>5

LEMMA EnqueueOrder ==
    ASSUME NEW S, NEW q \in Seq(S), NEW ms \in Seq(S), Len(ms) <= 1,
           NEW x, NEW y, Later(Enqueue(q, ms), x, y)
    PROVE  Later(q, x, y) \/ (In(q, x) /\ In(ms, y))
<1>0. Len(q) \in Nat /\ Len(ms) \in Nat
  BY LenProperties
<1>1. CASE Len(q) + Len(ms) <= MaxInFlight
  BY <1>1, ConcatOrder DEF Enqueue
<1>2. CASE ~(Len(q) + Len(ms) <= MaxInFlight)
  <2>1. q # << >>
    BY <1>0, <1>2, RaftAssumption, EmptySeq
  <2>2. /\ Tail(q) \in Seq(S)
        /\ Later(Tail(q), x, y) => Later(q, x, y)
        /\ In(Tail(q), x) => In(q, x)
    BY <2>1, TailOrder
  <2>3. Later(Tail(q) \o ms, x, y)
    BY <1>2 DEF Enqueue
  <2>4. Later(Tail(q), x, y) \/ (In(Tail(q), x) /\ In(ms, y))
    BY <2>2, <2>3, ConcatOrder
  <2> QED BY <2>2, <2>4
<1> QED BY <1>1, <1>2

\* The messages of out are put behind those of the net.
Keeps(i, out) ==
    \A a, b \in Servers :
        /\ \A x : In(net'[a][b], x) => In(net[a][b], x) \/ (a = i /\ In(out[b], x))
        /\ \A x, y : Later(net'[a][b], x, y) =>
              Later(net[a][b], x, y) \/ (a = i /\ In(net[a][b], x) /\ In(out[b], y))

LEMMA SentOrder ==
    ASSUME NEW base \in NetType, NEW i \in Servers, NEW out \in OutType,
           NEW a \in Servers, NEW b \in Servers, NEW x, NEW y,
           Later(Sent(base, i, out)[a][b], x, y)
    PROVE  Later(base[a][b], x, y) \/ (a = i /\ In(base[a][b], x) /\ In(out[b], y))
<1>1. Sent(base, i, out)[a][b] = IF a = i THEN Enqueue(base[i][b], out[b]) ELSE base[a][b]
  <2> DEFINE row == [j \in Servers |-> Enqueue(base[i][j], out[j])]
  <2>1. Sent(base, i, out) = [base EXCEPT ![i] = row]
    BY DEF Sent
  <2>2. row[b] = Enqueue(base[i][b], out[b])
    OBVIOUS
  <2> HIDE DEF row
  <2> QED BY <2>1, <2>2 DEF NetType
<1>2. base[i][b] \in Seq(Message) /\ out[b] \in Seq(Message) /\ Len(out[b]) <= 1
  BY DEF NetType, OutType
<1>3. CASE a = i
  BY <1>1, <1>2, <1>3, EnqueueOrder
<1> QED BY <1>1, <1>3

LEMMA SentKeeps ==
    ASSUME TypeOK, NEW i \in Servers, NEW out \in OutType, net' = Sent(net, i, out)
    PROVE  Keeps(i, out)
<1>1. net \in NetType
  BY NetIsTyped
<1>2. \A a, b \in Servers : \A m : In(net'[a][b], m) =>
            In(net[a][b], m) \/ (a = i /\ In(out[b], m))
  <2> SUFFICES ASSUME NEW a \in Servers, NEW b \in Servers, NEW m, In(net'[a][b], m)
               PROVE  In(net[a][b], m) \/ (a = i /\ In(out[b], m))
    OBVIOUS
  <2> QED BY <1>1, SentProperties
<1>3. ASSUME NEW a \in Servers, NEW b \in Servers, NEW x, NEW y, Later(net'[a][b], x, y)
      PROVE  Later(net[a][b], x, y) \/ (a = i /\ In(net[a][b], x) /\ In(out[b], y))
  BY <1>1, <1>3, SentOrder
<1> QED BY <1>2, <1>3 DEF Keeps

\* On an ordered transport a step takes the first message of a channel.
LEMMA HeadTaken ==
    ASSUME TypeOK, Ordered, NEW i \in Servers, NEW j \in Servers, 1 \in 1..Len(net[j][i]),
           NEW out \in OutType, \E base \in Taken(j, i, 1) : net' = Sent(base, i, out)
    PROVE  /\ Keeps(i, out)
           /\ i # j => \A x : In(net'[j][i], x) => Later(net[j][i], net[j][i][1], x)
<1>0. net \in NetType /\ net[j][i] \in Seq(Message) /\ net[j][i] # << >>
  <2>1. net \in NetType /\ net[j][i] \in Seq(Message)
    BY NetIsTyped DEF NetType
  <2> QED BY <2>1, EmptySeq
<1>1. PICK base \in Taken(j, i, 1) : net' = Sent(base, i, out)
  OBVIOUS
<1>2. /\ base \in NetType
      /\ \A a, b \in Servers : \A m : In(base[a][b], m) => In(net[a][b], m)
  BY <1>0, TakenProperties
<1>3. base = [net EXCEPT ![j][i] = Without(net[j][i], 1)]
  BY DEF Taken
<1>4. Without(net[j][i], 1) = Tail(net[j][i])
  <2> DEFINE q == net[j][i]
  <2>1. SubSeq(q, 1, 0) = << >> /\ SubSeq(q, 2, Len(q)) = Tail(q)
    <3>1. /\ Tail(q) \in Seq(Message) /\ Len(Tail(q)) = Len(q) - 1
          /\ \A k \in 1..Len(Tail(q)) : Tail(q)[k] = q[k + 1]
      BY <1>0, HeadTailProperties
    <3>2. Len(q) \in Nat /\ \A k \in 1..Len(q) : q[k] \in Message
      BY <1>0, LenProperties, ElementOfSeq
    <3>3. /\ SubSeq(q, 2, Len(q)) \in Seq(Message)
          /\ Len(SubSeq(q, 2, Len(q))) = IF 2 <= Len(q) THEN Len(q) - 2 + 1 ELSE 0
          /\ \A k \in 1..(Len(q) - 2 + 1) : SubSeq(q, 2, Len(q))[k] = q[2 + k - 1]
      <4>1. \A k \in 2..Len(q) : q[k] \in Message
        BY <3>2
      <4> QED BY <1>0, <3>2, <4>1, SubSeqProperties
    <3>4. /\ Len(SubSeq(q, 2, Len(q))) = Len(Tail(q))
          /\ \A k \in 1..Len(Tail(q)) : SubSeq(q, 2, Len(q))[k] = Tail(q)[k]
      <4> HIDE DEF q
      <4> QED BY <3>1, <3>2, <3>3
    <3>5. SubSeq(q, 2, Len(q)) = Tail(q)
      BY <3>1, <3>3, <3>4, SeqEqual
    <3>6. SubSeq(q, 1, 0) = << >>
      <4>1. SubSeq(q, 1, 0) \in Seq(Message) /\ Len(SubSeq(q, 1, 0)) = 0
        BY <1>0, SubSeqProperties
      <4> QED BY <4>1, EmptySeq
    <3> QED BY <3>5, <3>6
  <2>2. Tail(q) \in Seq(Message)
    BY <1>0, HeadTailProperties
  <2>3. 1 - 1 = 0 /\ 1 + 1 = 2
    OBVIOUS
  <2> HIDE DEF q
  <2>4. Without(q, 1) = << >> \o Tail(q)
    BY <2>1, <2>3 DEF Without
  <2>5. << >> \o Tail(q) = Tail(q)
    BY <2>2, ConcatEmptySeq
  <2> QED BY <2>4, <2>5 DEF q
<1>5. \A a, b \in Servers : base[a][b] = IF a = j /\ b = i THEN Tail(net[j][i]) ELSE net[a][b]
  BY <1>0, <1>3, <1>4 DEF NetType
<1>6. \A x, y : Later(Tail(net[j][i]), x, y) => Later(net[j][i], x, y)
  BY <1>0, TailOrder
<1>7. \A x : In(Tail(net[j][i]), x) => Later(net[j][i], net[j][i][1], x)
  BY <1>0, TailOrder
<1>8. ASSUME NEW a \in Servers, NEW b \in Servers, NEW x, In(net'[a][b], x)
      PROVE  In(base[a][b], x) \/ (a = i /\ In(out[b], x))
  BY <1>1, <1>2, <1>8, SentProperties, ZenonT(30)
<1>11. ASSUME NEW a \in Servers, NEW b \in Servers, NEW x, NEW y, Later(net'[a][b], x, y)
       PROVE  Later(base[a][b], x, y) \/ (a = i /\ In(base[a][b], x) /\ In(out[b], y))
  BY <1>1, <1>2, <1>11, SentOrder
<1>12. \A a, b \in Servers : \A x, y : Later(base[a][b], x, y) => Later(net[a][b], x, y)
  BY <1>5, <1>6
<1>13. \A a, b \in Servers : \A x : In(net'[a][b], x) =>
            In(net[a][b], x) \/ (a = i /\ In(out[b], x))
  BY <1>2, <1>8
<1>14. \A a, b \in Servers : \A x, y : Later(net'[a][b], x, y) =>
            Later(net[a][b], x, y) \/ (a = i /\ In(net[a][b], x) /\ In(out[b], y))
  BY <1>2, <1>11, <1>12
<1>9. Keeps(i, out)
  BY <1>13, <1>14 DEF Keeps
<1>10. i # j => \A x : In(net'[j][i], x) => Later(net[j][i], net[j][i][1], x)
  BY <1>5, <1>7, <1>8
<1> QED BY <1>9, <1>10
-----------------------------------------------------------------------------
\* Prefixes of a log: what a log has, what a message carries.

\* The last index a message speaks of, and the term it gives for an index.
Reach(m) == m.prev_log_idx + Len(m.entries)
TermIn(m, k) ==
    IF k = m.prev_log_idx THEN m.prev_log_term ELSE m.entries[k - m.prev_log_idx].term

Prefix == {p \in Seq(Entry) : p # << >>}
Top(p) == p[Len(p)].term
Has(l, p) == Len(p) <= Len(l) /\ \A k \in 1..Len(p) : l[k] = p[k]
\* A log that has p still has it after message m.
Fits(m, p) ==
    /\ Len(p) <= Reach(m)
    /\ \A k \in 1..Len(p) : k - m.prev_log_idx \in 1..Len(m.entries) =>
          m.entries[k - m.prev_log_idx] = p[k]
    /\ m.prev_log_idx \in 1..Len(p) => m.prev_log_term = p[m.prev_log_idx].term
\* A log that takes message m over has p.
Carries(m, p) ==
    /\ Fits(m, p)
    /\ Len(p) < m.prev_log_idx => Top(p) <= m.prev_log_term
\* m was made from log l.
Copies(m, l) ==
    /\ Reach(m) <= Len(l)
    /\ \A n \in 1..Len(m.entries) : m.entries[n] = l[m.prev_log_idx + n]
    /\ m.prev_log_idx > 0 => m.prev_log_term = l[m.prev_log_idx].term

LEMMA PrefixType ==
    ASSUME NEW p \in Prefix
    PROVE  /\ p \in Seq(Entry) /\ Len(p) \in Nat /\ 1 <= Len(p) /\ Len(p) \in 1..Len(p)
           /\ p[Len(p)] \in Entry /\ Top(p) \in Nat
<1>1. p \in Seq(Entry) /\ p # << >>
  BY DEF Prefix
<1>2. Len(p) \in Nat /\ 1 <= Len(p) /\ Len(p) \in 1..Len(p)
  BY <1>1, LenProperties, EmptySeq
<1>3. p[Len(p)] \in Entry
  BY <1>1, <1>2, ElementOfSeq
<1> QED BY <1>1, <1>2, <1>3 DEF Top, Entry

LEMMA SeqEntries ==
    ASSUME NEW l \in Seq(Entry)
    PROVE  /\ Len(l) \in Nat
           /\ \A k \in 1..Len(l) : l[k] \in Entry /\ l[k].term \in Nat
<1>1. Len(l) \in Nat /\ \A k \in 1..Len(l) : l[k] \in Entry
  BY LenProperties, ElementOfSeq
<1> QED BY <1>1 DEF Entry

LEMMA MessageReach ==
    ASSUME NEW m \in Message, m.type = "appendentries"
    PROVE  /\ m.prev_log_idx \in Nat /\ Len(m.entries) \in Nat /\ Reach(m) \in Nat
           /\ m.prev_log_idx <= Reach(m) /\ m.entries \in Seq(Entry) /\ m.prev_log_term \in Nat
           /\ m.leader_commit \in Nat /\ m.term \in Nat
<1>1. m.prev_log_idx \in Nat /\ m.entries \in Seq(Entry) /\ m.prev_log_term \in Nat
      /\ m.leader_commit \in Nat /\ m.term \in Nat
  BY AppendentriesFields, MessageTerm
<1>2. Len(m.entries) \in Nat
  BY <1>1, LenProperties
<1> QED BY <1>1, <1>2 DEF Reach

\* The first entry that raft_recv_appendentries replaces.
LEMMA FirstDifference ==
    ASSUME NEW l, NEW m \in Message, m.type = "appendentries", Differs(l, m) # {}
    PROVE  /\ FirstDiff(l, m) \in Differs(l, m) /\ FirstDiff(l, m) \in 1..Len(m.entries)
           /\ \A k \in Differs(l, m) : FirstDiff(l, m) <= k
<1>1. Differs(l, m) \in SUBSET Nat
  BY DEF Differs
<1>2. \E x \in Differs(l, m) : \A y \in Differs(l, m) : x <= y
  BY <1>1, NatMin
<1>3. FirstDiff(l, m) \in Differs(l, m) /\ \A k \in Differs(l, m) : FirstDiff(l, m) <= k
  BY <1>2 DEF FirstDiff
<1> QED BY <1>3 DEF Differs

\* The assert on deletion holds for a message that fits what is committed, and
\* the log keeps the prefix.
LEMMA FittingKept ==
    ASSUME NEW l \in Seq(Entry), NEW p \in Seq(Entry), Has(l, p),
           NEW m \in Message, m.type = "appendentries", ~Missing(l, m), Fits(m, p)
    PROVE  Len(p) < DeletedFrom(l, m) /\ Has(LogAfter(l, m), p)
<1> DEFINE prev == m.prev_log_idx
           es == m.entries
           first == FirstDiff(l, m)
           d == DeletedFrom(l, m)
           r == LogAfter(l, m)
<1>0. /\ prev \in Nat /\ Len(es) \in Nat /\ Len(l) \in Nat /\ Len(p) \in Nat
      /\ Len(p) <= Len(l) /\ Len(p) <= prev + Len(es) /\ prev <= Len(l)
  BY MessageReach, LenProperties DEF Has, Fits, Reach, Missing
<1>1. Len(p) < d
  <2>1. CASE Mismatch(l, m)
    <3>1. prev \in 1..Len(l) /\ l[prev].term # m.prev_log_term /\ d = prev
      BY <2>1 DEF Mismatch, DeletedFrom
    <3>2. prev \notin 1..Len(p)
      BY <3>1 DEF Has, Fits
    <3> QED BY <1>0, <3>1, <3>2
  <2>2. CASE ~Mismatch(l, m) /\ Trims(l, m)
    <3>1. d = prev + 1 /\ Len(es) = 0
      BY <2>2 DEF DeletedFrom, Trims
    <3> QED BY <1>0, <3>1
  <2>3. CASE ~Mismatch(l, m) /\ ~Trims(l, m) /\ Differs(l, m) # {}
    <3>1. d = prev + first
      BY <2>3 DEF DeletedFrom
    <3>2. first \in Differs(l, m) /\ first \in 1..Len(es)
      BY <2>3, FirstDifference
    <3> HIDE DEF first, d
    <3>3. ASSUME prev + first <= Len(p) PROVE FALSE
      <4>1. prev + first \in 1..Len(p) /\ (prev + first) - prev = first
        BY <1>0, <3>2, <3>3
      <4>2. l[prev + first] = p[prev + first] /\ es[first] = p[prev + first]
        BY <3>2, <4>1 DEF Has, Fits
      <4>3. ~(prev + first > Len(l))
        BY <1>0, <3>2, <3>3
      <4> QED BY <3>2, <4>2, <4>3 DEF Differs
    <3> HIDE DEF prev, es
    <3>4. first \in Nat
      BY <1>0, <3>2
    <3> QED BY <1>0, <3>1, <3>3, <3>4
  <2>4. CASE ~Mismatch(l, m) /\ ~Trims(l, m) /\ Differs(l, m) = {}
    <3>1. d = Len(l) + 1
      BY <2>4 DEF DeletedFrom
    <3> QED BY <1>0, <3>1
  <2> QED BY <2>1, <2>2, <2>3, <2>4
<1>2. /\ d \in 1..(Len(l) + 1) /\ d - 1 <= Len(r)
      /\ \A k \in 1..Len(r) : KeptEntry(l, m, r, k) \/ NewEntry(l, m, r, k)
  BY LogAfterShape
<1>3. Len(r) \in Nat
  BY LogAfterType, LenProperties
<1>4. \A k \in 1..Len(p) : k \in 1..Len(r) /\ ~(d <= k)
  <2> HIDE DEF d, r
  <2> QED BY <1>0, <1>1, <1>2, <1>3
<1>5. \A k \in 1..Len(p) : r[k] = p[k]
  <2> TAKE k \in 1..Len(p)
  <2>1. KeptEntry(l, m, r, k)
    BY <1>2, <1>4 DEF NewEntry
  <2>2. r[k] = l[k]
    BY <2>1 DEF KeptEntry
  <2> QED BY <2>2 DEF Has
<1>6. Len(p) <= Len(r)
  <2> HIDE DEF d, r
  <2> QED BY <1>0, <1>1, <1>2, <1>3
<1> QED BY <1>1, <1>5, <1>6 DEF Has

\* Without a mismatch the log reaches as far as the message, with its terms.
LEMMA LogAfterReach ==
    ASSUME NEW l \in Seq(Entry), NEW m \in Message, m.type = "appendentries",
           ~Missing(l, m), ~Mismatch(l, m), NEW k \in 1..Reach(m), m.prev_log_idx <= k
    PROVE  k <= Len(LogAfter(l, m)) /\ LogAfter(l, m)[k].term = TermIn(m, k)
<1> DEFINE prev == m.prev_log_idx
           es == m.entries
           D == Differs(l, m)
           first == FirstDiff(l, m)
           d == DeletedFrom(l, m)
           r == LogAfter(l, m)
<1>0. /\ prev \in Nat /\ Len(es) \in Nat /\ Len(l) \in Nat /\ prev <= Len(l)
      /\ k \in Nat /\ 1 <= k /\ prev <= k /\ k <= prev + Len(es) /\ es \in Seq(Entry)
  BY MessageReach, LenProperties DEF Reach, Missing
<1>1. /\ d \in 1..(Len(l) + 1) /\ d - 1 <= Len(r)
      /\ \A n \in 1..Len(r) : KeptEntry(l, m, r, n) \/ NewEntry(l, m, r, n)
  BY LogAfterShape
<1>2. r \in Seq(Entry) /\ Len(r) \in Nat
  BY LogAfterType, LenProperties
<1>3. prev = k => l[k].term = m.prev_log_term
  BY <1>0 DEF Mismatch
<1>4. ASSUME prev # k, k - prev \notin D
      PROVE  k <= Len(l) /\ l[k].term = es[k - prev].term
  <2>1. k - prev \in 1..Len(es) /\ prev + (k - prev) = k
    <3> HIDE DEF prev, es
    <3> QED BY <1>0, <1>4
  <2>2. ~(prev + (k - prev) > Len(l)) /\ l[prev + (k - prev)].term = es[k - prev].term
    BY <1>4, <2>1 DEF Differs
  <2> HIDE DEF prev, es
  <2> QED BY <1>0, <2>1, <2>2
<1>5. k <= Len(l) /\ (prev = k \/ k - prev \notin D) => l[k].term = TermIn(m, k)
  BY <1>3, <1>4 DEF TermIn
<1>6. CASE Trims(l, m)
  <2>1. d = prev + 1 /\ Len(es) = 0
    BY <1>6, EmptySeq DEF DeletedFrom, Trims
  <2>2. k = prev /\ k < d /\ k \in 1..Len(r)
    <3> HIDE DEF prev, es, d, r
    <3> QED BY <1>0, <1>1, <1>2, <2>1
  <2>3. KeptEntry(l, m, r, k)
    <3>1. ~(d <= k)
      <4> HIDE DEF d, r
      <4> QED BY <1>0, <1>1, <2>2
    <3> QED BY <1>1, <2>2, <3>1 DEF NewEntry
  <2> QED BY <1>5, <2>2, <2>3 DEF KeptEntry
<1>7. CASE ~Trims(l, m) /\ D = {}
  <2>1. d = Len(l) + 1
    BY <1>7 DEF DeletedFrom
  <2>2. k <= Len(l)
    BY <1>0, <1>4, <1>7
  <2>3. k < d /\ k \in 1..Len(r)
    <3> HIDE DEF prev, es, d, r
    <3> QED BY <1>0, <1>1, <1>2, <2>1, <2>2
  <2>4. KeptEntry(l, m, r, k)
    <3>1. ~(d <= k)
      <4> HIDE DEF d, r
      <4> QED BY <1>0, <1>1, <2>3
    <3> QED BY <1>1, <2>3, <3>1 DEF NewEntry
  <2> QED BY <1>5, <1>7, <2>2, <2>3, <2>4 DEF KeptEntry
<1>8. CASE ~Trims(l, m) /\ D # {}
  <2>1. d = prev + first
    BY <1>8 DEF DeletedFrom
  <2>2. first \in 1..Len(es) /\ \A n \in D : first <= n
    BY <1>8, FirstDifference
  <2>3. Len(r) = prev + Len(es)
    <3> DEFINE kept == SubSeq(l, 1, d - 1)
               added == SubSeq(es, first, Len(es))
    <3>1. r = kept \o added
      BY <1>8 DEF LogAfter
    <3>2. kept \in Seq(Entry) /\ Len(kept) = d - 1
      <4>1. d - 1 \in Nat /\ d - 1 <= Len(l)
        <5> HIDE DEF d
        <5> QED BY <1>0, <1>1
      <4>2. \A n \in 1..(d - 1) : l[n] \in Entry
        <5>1. \A n \in 1..Len(l) : l[n] \in Entry
          BY SeqEntries
        <5> HIDE DEF d
        <5> QED BY <1>0, <4>1, <5>1
      <4> HIDE DEF d
      <4> QED BY <1>0, <4>1, <4>2, SubSeqProperties
    <3>3. added \in Seq(Entry) /\ Len(added) = Len(es) - first + 1
      <4>1. \A n \in first..Len(es) : es[n] \in Entry
        BY <1>0, <2>2, ElementOfSeq
      <4> HIDE DEF first
      <4> QED BY <1>0, <2>2, <4>1, SubSeqProperties
    <3>4. Len(kept \o added) = Len(kept) + Len(added)
      BY <3>2, <3>3, ConcatProperties
    <3> HIDE DEF r, d, first, kept, added, prev, es
    <3> QED BY <1>0, <2>1, <2>2, <3>1, <3>2, <3>3, <3>4
  <2>4. k \in 1..Len(r)
    <3> HIDE DEF r, prev, es
    <3> QED BY <1>0, <2>3
  <2>5. CASE k < d
    <3>1. prev = k \/ k - prev \notin D
      <4>1. ~(first <= k - prev)
        <5> HIDE DEF first, prev, es, d
        <5> QED BY <1>0, <2>1, <2>2, <2>5
      <4> QED BY <2>2, <4>1
    <3>2. KeptEntry(l, m, r, k)
      <4>1. ~(d <= k)
        <5> HIDE DEF d, r
        <5> QED BY <1>0, <1>1, <2>5
      <4> QED BY <1>1, <2>4, <4>1 DEF NewEntry
    <3> QED BY <1>5, <2>4, <3>1, <3>2 DEF KeptEntry
  <2>6. CASE ~(k < d)
    <3>1. ~KeptEntry(l, m, r, k)
      BY <2>6 DEF KeptEntry
    <3>2. r[k] = es[k - prev] /\ k - prev \in 1..Len(es)
      BY <1>1, <2>4, <3>1 DEF NewEntry
    <3>3. k # prev
      <4> HIDE DEF prev, es
      <4> QED BY <1>0, <3>2
    <3> QED BY <2>4, <3>2, <3>3 DEF TermIn
  <2> QED BY <2>5, <2>6
<1> QED BY <1>6, <1>7, <1>8

\* With a mismatch the log only loses entries.
LEMMA LogAfterCut ==
    ASSUME NEW l \in Seq(Entry), NEW m \in Message, m.type = "appendentries",
           ~Missing(l, m), Mismatch(l, m), NEW k \in 1..Len(LogAfter(l, m))
    PROVE  k \in 1..Len(l) /\ LogAfter(l, m)[k] = l[k]
<1> DEFINE prev == m.prev_log_idx
           r == LogAfter(l, m)
<1>1. DeletedFrom(l, m) = prev /\ prev \in 1..Len(l)
  BY DEF DeletedFrom, Mismatch
<1>2. Len(l) \in Nat
  BY LenProperties
<1>3. r = SubSeq(l, 1, prev - 1)
  BY <1>1 DEF LogAfter
<1>4. \A n \in 1..(prev - 1) : l[n] \in Entry
  BY <1>1, <1>2, SeqEntries
<1>5. Len(r) = prev - 1 /\ \A n \in 1..(prev - 1) : r[n] = l[n]
  <2>1. /\ Len(SubSeq(l, 1, prev - 1)) = IF 1 <= prev - 1 THEN (prev - 1) - 1 + 1 ELSE 0
        /\ \A n \in 1..((prev - 1) - 1 + 1) : SubSeq(l, 1, prev - 1)[n] = l[1 + n - 1]
    BY <1>1, <1>2, <1>4, SubSeqProperties
  <2> HIDE DEF r, prev
  <2> QED BY <1>1, <1>2, <1>3, <2>1
<1> HIDE DEF prev, r
<1>6. k \in 1..Len(r)
  BY DEF r
<1> QED BY <1>1, <1>2, <1>5, <1>6 DEF r
-----------------------------------------------------------------------------
\* The terms of the entries.

LogTerms ==
    /\ \A s \in Servers : \A k \in 1..Len(log[s]) : log[s][k].term <= current_term[s]
    /\ \A a, b \in Servers : \A m : In(net[a][b], m) /\ m.type = "appendentries" =>
          \A k \in 1..Len(m.entries) : m.entries[k].term <= m.term
\* An entry never follows one of a later term.
TermsRise == \A k \in Nat : \A e, p : Occurs(k, e, p) => p <= e.term
\* The entries of a term stand together.
Contiguous ==
    \A k, n \in Nat : \A e, f, p, q :
        Occurs(k, e, p) /\ Occurs(n, f, q) /\ e.term = f.term /\ k < n => q = f.term
\* A leader has all entries of its term.
LeaderHas ==
    \A i \in Servers : state[i] = "leader" =>
        \A k \in Nat : \A e, p :
            Occurs(k, e, p) /\ e.term = current_term[i] => k \in 1..Len(log[i]) /\ log[i][k] = e

LEMMA LogOccurs ==
    ASSUME NEW s \in Servers, NEW k \in 1..Len(log[s])
    PROVE  Occurs(k, log[s][k], IF k = 1 THEN 0 ELSE log[s][k - 1].term)
BY DEF Occurs, EntryAt

LEMMA Ascending ==
    ASSUME TypeOK, TermsRise, NEW s \in Servers,
           NEW k \in 1..Len(log[s]), NEW n \in 1..Len(log[s]), k <= n
    PROVE  log[s][k].term <= log[s][n].term
<1> DEFINE l == log[s]
           Bad == {x \in 1..Len(l) : k <= x /\ ~(l[k].term <= l[x].term)}
<1>0. Len(l) \in Nat /\ \A x \in 1..Len(l) : l[x].term \in Nat
  <2>1. l \in Seq(Entry)
    BY DEF TypeOK
  <2> QED BY <2>1, SeqEntries
<1>1. \A x \in 1..Len(l) : x > 1 => l[x - 1].term <= l[x].term
  <2> TAKE x \in 1..Len(l)
  <2>1. x > 1 => Occurs(x, l[x], l[x - 1].term)
    BY <1>0, LogOccurs
  <2>2. x \in Nat
    BY <1>0
  <2> QED BY <2>1, <2>2 DEF TermsRise
<1> HIDE DEF l
<1>2. Bad = {}
  <2> SUFFICES ASSUME Bad # {} PROVE FALSE
    OBVIOUS
  <2>1. Bad \in SUBSET Nat
    BY <1>0
  <2>2. PICK x \in Bad : \A y \in Bad : x <= y
    <3> HIDE DEF Bad
    <3> QED BY <2>1, NatMin
  <2>3. x \in 1..Len(l) /\ k <= x /\ ~(l[k].term <= l[x].term) /\ k \in 1..Len(l)
    BY DEF l
  <2>4. k # x
    BY <1>0, <2>3
  <2>5. x - 1 \in 1..Len(l) /\ k <= x - 1 /\ ~(x <= x - 1) /\ x > 1
    <3> HIDE DEF Bad
    <3> QED BY <1>0, <2>3, <2>4
  <2>6. l[k].term <= l[x - 1].term
    BY <2>2, <2>5
  <2>7. l[x - 1].term <= l[x].term
    BY <1>1, <2>3, <2>5
  <2>8. l[k].term \in Nat /\ l[x].term \in Nat /\ l[x - 1].term \in Nat
    BY <1>0, <2>3, <2>5
  <2> HIDE DEF Bad
  <2> QED BY <2>3, <2>6, <2>7, <2>8
<1>3. n \notin Bad
  BY <1>2
<1> QED BY <1>3 DEF l

\* Down from an entry of the term to the first one that occurs anywhere, a log has
\* only entries of that term.
LEMMA TermRun ==
    ASSUME TypeOK, Contiguous, NEW s \in Servers, NEW n \in 1..Len(log[s]),
           NEW k \in Nat \ {0}, NEW e, NEW p, Occurs(k, e, p), e.term = log[s][n].term, k <= n
    PROVE  log[s][k].term = e.term
<1> DEFINE l == log[s]
           t == e.term
           Bad == {x \in Nat : x <= n - k /\ l[n - x].term # t}
<1>0. Len(l) \in Nat /\ n \in Nat /\ 1 <= n /\ n <= Len(l) /\ k \in Nat /\ 1 <= k
  <2>1. l \in Seq(Entry)
    BY DEF TypeOK
  <2>2. Len(l) \in Nat /\ n \in 1..Len(l)
    BY <2>1, SeqEntries
  <2> HIDE DEF l
  <2> QED BY <2>2
<1>1. l[n].term = t
  OBVIOUS
<1>2. ASSUME NEW x \in Nat, k <= x, x + 1 <= n, l[x + 1].term = t
      PROVE  l[x].term = t
  <2>1. x + 1 \in 1..Len(l) /\ x + 1 # 1 /\ (x + 1) - 1 = x /\ x + 1 \in Nat /\ k < x + 1
    <3> HIDE DEF l
    <3> QED BY <1>0, <1>2
  <2>2. Occurs(x + 1, l[x + 1], l[x].term)
    BY <2>1, LogOccurs
  <2> HIDE DEF l
  <2> QED BY <1>2, <2>1, <2>2 DEF Contiguous
<1> HIDE DEF l, t
<1>3. Bad = {}
  <2> SUFFICES ASSUME Bad # {} PROVE FALSE
    OBVIOUS
  <2>1. PICK x \in Bad : \A y \in Bad : x <= y
    <3>1. Bad \in SUBSET Nat
      OBVIOUS
    <3> HIDE DEF Bad
    <3> QED BY <3>1, NatMin
  <2>2. x \in Nat /\ x <= n - k /\ l[n - x].term # t
    OBVIOUS
  <2>3. x # 0
    <3>1. n - 0 = n
      BY <1>0
    <3> QED BY <1>1, <2>2, <3>1
  <2>4. /\ x - 1 \in Nat /\ x - 1 <= n - k /\ ~(x <= x - 1)
        /\ n - (x - 1) = (n - x) + 1
    <3> HIDE DEF Bad
    <3> QED BY <1>0, <2>2, <2>3, SMTT(30)
  <2>5. l[n - (x - 1)].term = t
    BY <2>1, <2>4
  <2>6. n - x \in Nat /\ k <= n - x /\ (n - x) + 1 <= n
    <3> HIDE DEF Bad
    <3> QED BY <1>0, <2>2, <2>3, SMTT(30)
  <2> HIDE DEF Bad
  <2> QED BY <1>2, <2>2, <2>4, <2>5, <2>6
<1>4. n - k \notin Bad
  BY <1>3
<1>5. n - k \in Nat /\ n - k <= n - k /\ n - (n - k) = k
  BY <1>0
<1> QED BY <1>4, <1>5 DEF l, t

LEMMA MatchUpTo ==
    ASSUME TypeOK, LogMatching, NEW i \in Servers, NEW j \in Servers,
           NEW k \in 1..Len(log[i]), k <= Len(log[j]), log[i][k].term = log[j][k].term
    PROVE  \A n \in 1..k : log[i][n] = log[j][n]
<1>0. /\ log[i] \in Seq(Entry) /\ log[j] \in Seq(Entry)
      /\ Len(log[i]) \in Nat /\ Len(log[j]) \in Nat
  BY LenProperties DEF TypeOK
<1>1. k \in 1..MinOf(Len(log[i]), Len(log[j]))
  BY <1>0 DEF MinOf
<1>2. SubSeq(log[i], 1, k) = SubSeq(log[j], 1, k)
  BY <1>1 DEF LogMatching
<1>3. ASSUME NEW s \in Seq(Entry), k <= Len(s)
      PROVE  \A n \in 1..k : SubSeq(s, 1, k)[n] = s[n]
  <2>0. k \in Nat /\ 1 <= k /\ Len(s) \in Nat
    BY <1>0, LenProperties
  <2>1. \A n \in 1..k : s[n] \in Entry
    BY <1>3, <2>0, ElementOfSeq
  <2>2. \A n \in 1..(k - 1 + 1) : SubSeq(s, 1, k)[n] = s[1 + n - 1]
    BY <2>0, <2>1, SubSeqProperties
  <2> QED BY <2>0, <2>2
<1>4. k <= Len(log[i])
  BY <1>0
<1> QED BY <1>0, <1>2, <1>3, <1>4

\* A log with the last entry of p has all of p.
LEMMA HasByTop ==
    ASSUME TypeOK, LogMatching, NEW p \in Prefix, NEW r \in Servers, Has(log[r], p),
           NEW s \in Servers, Len(p) <= Len(log[s]), log[s][Len(p)].term = Top(p)
    PROVE  Has(log[s], p)
<1>0. /\ Len(p) \in Nat /\ 1 <= Len(p) /\ Len(log[s]) \in Nat /\ Len(log[r]) \in Nat
      /\ Len(p) \in 1..Len(p)
  BY PrefixType, LenProperties DEF TypeOK
<1>1. Len(p) \in 1..Len(log[s]) /\ Len(p) <= Len(log[r]) /\ log[r][Len(p)].term = Top(p)
  BY <1>0 DEF Has, Top
<1>2. \A n \in 1..Len(p) : log[s][n] = log[r][n]
  BY <1>1, MatchUpTo
<1> QED BY <1>2 DEF Has

\* So has a log with a later entry of the same term.
LEMMA HasByRun ==
    ASSUME TypeOK, LogMatching, Contiguous, NEW p \in Prefix, NEW r \in Servers,
           Has(log[r], p), NEW s \in Servers, NEW n \in 1..Len(log[s]),
           Len(p) <= n, log[s][n].term = Top(p)
    PROVE  Has(log[s], p)
<1> DEFINE y == Len(p)
<1>0. /\ y \in Nat /\ 1 <= y /\ Len(log[s]) \in Nat /\ Len(log[r]) \in Nat /\ y \in 1..y
  BY PrefixType, LenProperties DEF TypeOK
<1>1. y \in 1..Len(log[r]) /\ log[r][y].term = Top(p) /\ y \in Nat \ {0} /\ y <= Len(log[s])
  BY <1>0 DEF Has, Top
<1>2. Occurs(y, log[r][y], IF y = 1 THEN 0 ELSE log[r][y - 1].term)
  BY <1>1, LogOccurs
<1> HIDE DEF y
<1>3. y <= n
  BY DEF y
<1>4. log[s][y].term = log[r][y].term
  BY <1>1, <1>2, <1>3, TermRun, SMTT(30)
<1> QED BY <1>1, <1>4, HasByTop DEF y
-----------------------------------------------------------------------------
\* What a step of i may do, beside LogMove.

Majority(Q) == Cardinality(Servers) < 2 * Cardinality(Q)

\* Node q has acknowledged y entries to i in i's term: i counts it, or the answer
\* is on its way.
Acked(i, q, y) ==
    \/ y <= match_idx[i][q]
    \/ \E m : /\ In(net[q][i], m) /\ m.type = "appendentries_response" /\ m.success
              /\ m.term = current_term[i] /\ y <= m.current_idx

\* i takes message m of j over; what is left of the channel was sent after m.
Took(i, j, m) ==
    /\ In(net[j][i], m) /\ m \in Message /\ m.type = "appendentries"
    /\ m.term = current_term'[i] /\ ~InOffice(state'[i])
    /\ ~Missing(log[i], m) /\ log'[i] = LogAfter(log[i], m)
    /\ \A x : In(net'[j][i], x) => Later(net[j][i], m, x)
TookOver(i, j, m) == Took(i, j, m) /\ ~Mismatch(log[i], m)

Grew(i) ==
    /\ state[i] = "leader" /\ state'[i] = "leader" /\ current_term'[i] = current_term[i]
    /\ \E e \in Entry : e.term = current_term[i] /\ log'[i] = Append(log[i], e)
LogStep(i) ==
    \/ log'[i] = log[i]
    \/ Grew(i)
    \/ \E j \in Servers : \E m : Took(i, j, m)

\* What i sends: as leader all that follows an index, as candidate its last entry,
\* as follower what it has taken over.
FromLog(i, x) ==
    /\ state'[i] = "leader" /\ x.term = current_term'[i] /\ x.leader_commit = commit_idx'[i]
    /\ Copies(x, log'[i]) /\ Reach(x) = Len(log'[i])
Asks(i, x) ==
    /\ x.term = current_term'[i]
    /\ x.last_log_idx = Len(log'[i]) /\ x.last_log_term = raft_get_last_log_term(log'[i])
IsNew(i, b, x) ==
    /\ b # i /\ x \in Message
    /\ x.type = "appendentries" => FromLog(i, x)
    /\ x.type = "requestvote" => Asks(i, x)
    /\ x.type = "appendentries_response" /\ x.success =>
          \E m : TookOver(i, b, m) /\ x.term = m.term /\ x.current_idx = Reach(m)
SendMove(i) ==
    \A a, b \in Servers :
        /\ \A x : In(net'[a][b], x) => In(net[a][b], x) \/ (a = i /\ IsNew(i, b, x))
        /\ \A x, y : Later(net'[a][b], x, y) =>
              Later(net[a][b], x, y) \/ (a = i /\ In(net[a][b], x) /\ IsNew(i, b, y))

\* i votes for itself in a new term, or for a candidate whose log is up to date.
UpToDate(l, m) ==
    \/ l = << >>
    \/ raft_get_last_log_term(l) < m.last_log_term
    \/ raft_get_last_log_term(l) = m.last_log_term /\ Len(l) <= m.last_log_idx
Votes(i, c) ==
    /\ log'[i] = log[i]
    /\ \/ c = i /\ current_term[i] < current_term'[i]
       \/ /\ c # i
          /\ \E m : /\ In(net[c][i], m) /\ m.type = "requestvote"
                    /\ m.term = current_term'[i] /\ UpToDate(log[i], m)
GrantMove(i) ==
    \A a, b \in Servers : \A u \in Nat : Grant(a, u, b)' =>
        Grant(a, u, b) \/ (a = i /\ u = current_term'[i] /\ Votes(i, b))

\* i wins its election.
Won(i) ==
    /\ state[i] = "candidate" /\ log'[i] = log[i]
    /\ \A k \in Servers : match_idx'[i][k] = 0 /\ next_idx'[i][k] = Len(log[i]) + 1
    /\ \E V \in SUBSET Servers : Majority(V) /\ \A k \in V : Grant(k, current_term[i], i)
OfficeMove(i) ==
    /\ InOffice(state'[i]) => Cardinality(Servers) > 1
    /\ state'[i] = "candidate" => log'[i] = log[i]
    /\ state'[i] = "leader" /\ state[i] # "leader" => Won(i)

\* A leader raises match_idx as acknowledged, next_idx to the end of its log at
\* most, and commit_idx to what a majority has acknowledged.
IndexMove(i) ==
    state[i] = "leader" /\ state'[i] = "leader" =>
        \A k \in Servers \ {i} :
            /\ \A x \in Nat : x <= match_idx'[i][k] => Acked(i, k, x)
            /\ next_idx'[i][k] = next_idx[i][k] \/ next_idx'[i][k] <= Len(log'[i]) + 1
Counted(i) ==
    /\ state'[i] = "leader"
    /\ \E H \in SUBSET Servers :
          /\ i \notin H /\ Majority(H \cup {i})
          /\ \A k \in H : /\ commit_idx'[i] <= match_idx'[i][k] /\ match_idx'[i][k] > 0
                          /\ TermAt(log'[i], match_idx'[i][k]) = current_term'[i]
CommitMove(i) ==
    \/ commit_idx'[i] <= commit_idx[i]
    \/ \E j \in Servers : \E m : TookOver(i, j, m) /\ commit_idx'[i] <= m.leader_commit
    \/ Counted(i)
OthersKept(i) ==
    \A k \in Servers \ {i} :
        /\ commit_idx'[k] = commit_idx[k]
        /\ match_idx'[k] = match_idx[k] /\ next_idx'[k] = next_idx[k]

Move(i) ==
    /\ LogMove(i) /\ LogStep(i) /\ SendMove(i) /\ GrantMove(i) /\ OfficeMove(i)
    /\ IndexMove(i) /\ CommitMove(i) /\ OthersKept(i)

LEMMA TermsGrow ==
    ASSUME TypeOK, TypeOK', NEW i \in Servers, Move(i), NEW s \in Servers
    PROVE  /\ current_term[s] \in Nat /\ current_term'[s] \in Nat
           /\ current_term[s] <= current_term'[s]
           /\ s # i => /\ current_term'[s] = current_term[s] /\ log'[s] = log[s]
                       /\ state'[s] = state[s]
<1>1. current_term[s] \in Nat /\ current_term'[s] \in Nat
  BY DEF TypeOK
<1>2. s # i => /\ current_term'[s] = current_term[s] /\ log'[s] = log[s] /\ state'[s] = state[s]
  BY DEF Move, LogMove, VoteMove, OthersUntouched, LogsMove
<1>3. current_term'[i] > current_term[i] \/ current_term'[i] = current_term[i]
  BY DEF Move, LogMove, VoteMove
<1> QED BY <1>1, <1>2, <1>3

\* The log of a leader that stays in office only grows.
LEMMA LeaderGrows ==
    ASSUME TypeOK, TypeOK', NEW i \in Servers, Move(i), NEW s \in Servers, state'[s] = "leader"
    PROVE  /\ Len(log[s]) <= Len(log'[s])
           /\ \A k \in 1..Len(log[s]) : log'[s][k] = log[s][k]
<1>0. log[s] \in Seq(Entry) /\ Len(log[s]) \in Nat
  BY LenProperties DEF TypeOK
<1>1. CASE log'[s] = log[s]
  BY <1>0, <1>1
<1>2. CASE log'[s] # log[s]
  <2>1. s = i /\ ~(\E j \in Servers : \E m : Took(i, j, m))
    BY <1>2, TermsGrow DEF Took, InOffice
  <2>2. Grew(i)
    BY <1>2, <2>1 DEF Move, LogStep
  <2>3. PICK e \in Entry : log'[i] = Append(log[i], e)
    BY <2>2 DEF Grew
  <2>4. /\ Len(Append(log[i], e)) = Len(log[i]) + 1
        /\ \A k \in 1..Len(log[i]) : Append(log[i], e)[k] = log[i][k]
    BY <1>0, <2>1, AppendProperties
  <2> QED BY <1>0, <2>1, <2>3, <2>4
<1> QED BY <1>1, <1>2
TermInv == LogTerms /\ TermsRise /\ Contiguous /\ LeaderHas

LEMMA LogTermsKept ==
    ASSUME TypeOK, TypeOK', LogTerms, NEW i \in Servers, Move(i)
    PROVE  LogTerms'
<1>1. ASSUME NEW s \in Servers, NEW k \in 1..Len(log'[s])
      PROVE  log'[s][k].term <= current_term'[s]
  <2>0. /\ log[s] \in Seq(Entry) /\ log'[s] \in Seq(Entry)
        /\ current_term[s] \in Nat /\ current_term'[s] \in Nat
        /\ current_term[s] <= current_term'[s]
    BY TermsGrow DEF TypeOK
  <2>1. log'[s][k].term \in Nat /\ \A n \in 1..Len(log[s]) : log[s][n].term \in Nat
    BY <2>0, <1>1, SeqEntries
  <2>2. ASSUME k \in 1..Len(log[s]), log'[s][k] = log[s][k]
        PROVE  log'[s][k].term <= current_term'[s]
    <3>1. log[s][k].term <= current_term[s]
      BY <2>2 DEF LogTerms
    <3> QED BY <2>0, <2>1, <2>2, <3>1
  <2>3. CASE log'[s] = log[s]
    BY <1>1, <2>2, <2>3
  <2>4. CASE s = i /\ Grew(i)
    <3>1. PICK e \in Entry : e.term = current_term[i] /\ log'[i] = Append(log[i], e)
      BY <2>4 DEF Grew
    <3>2. /\ Len(log'[i]) = Len(log[i]) + 1 /\ log'[i][Len(log[i]) + 1] = e
          /\ \A n \in 1..Len(log[i]) : log'[i][n] = log[i][n]
      BY <2>0, <2>4, <3>1, AppendProperties
    <3>3. Len(log[i]) \in Nat
      BY <2>0, <2>4, LenProperties
    <3>4. k \in 1..Len(log[i]) \/ k = Len(log[i]) + 1
      BY <1>1, <2>4, <3>2, <3>3
    <3>5. CASE k = Len(log[i]) + 1
      BY <2>0, <2>4, <3>1, <3>2, <3>5
    <3> QED BY <2>2, <2>4, <3>2, <3>4, <3>5
  <2>5. ASSUME s = i, NEW j \in Servers, NEW m, Took(i, j, m)
        PROVE  log'[s][k].term <= current_term'[s]
    <3>1. /\ In(net[j][i], m) /\ m \in Message /\ m.type = "appendentries"
          /\ m.term = current_term'[i] /\ ~Missing(log[i], m) /\ log'[i] = LogAfter(log[i], m)
      BY <2>5 DEF Took
    <3>2. KeptEntry(log[i], m, log'[i], k) \/ NewEntry(log[i], m, log'[i], k)
      BY <1>1, <2>0, <2>5, <3>1, LogAfterShape
    <3>3. CASE KeptEntry(log[i], m, log'[i], k)
      <4>1. k <= Len(log[i]) /\ log'[i][k] = log[i][k]
        BY <3>3 DEF KeptEntry
      <4>2. k \in 1..Len(log[i])
        <5>1. Len(log[i]) \in Nat /\ Len(log'[i]) \in Nat
          BY <2>0, <2>5, LenProperties
        <5> QED BY <1>1, <2>5, <4>1, <5>1
      <4> QED BY <2>2, <2>5, <4>1, <4>2
    <3>4. CASE NewEntry(log[i], m, log'[i], k)
      <4>1. k - m.prev_log_idx \in 1..Len(m.entries)
            /\ log'[i][k] = m.entries[k - m.prev_log_idx]
        BY <3>4 DEF NewEntry
      <4>2. m.entries[k - m.prev_log_idx].term <= m.term
        BY <3>1, <4>1 DEF LogTerms
      <4> QED BY <2>5, <3>1, <4>1, <4>2
    <3> QED BY <3>2, <3>3, <3>4
  <2>6. log'[s] = log[s] \/ (s = i /\ Grew(i)) \/ (s = i /\ \E j \in Servers : \E m : Took(i, j, m))
    BY TermsGrow DEF Move, LogStep
  <2> QED BY <2>3, <2>4, <2>5, <2>6
<1>2. ASSUME NEW a \in Servers, NEW b \in Servers, NEW m, In(net'[a][b], m),
             m.type = "appendentries", NEW k \in 1..Len(m.entries)
      PROVE  m.entries[k].term <= m.term
  <2>1. CASE In(net[a][b], m)
    BY <1>2, <2>1 DEF LogTerms
  <2>2. CASE a = i /\ IsNew(i, b, m)
    <3>1. m \in Message /\ FromLog(i, m)
      BY <1>2, <2>2 DEF IsNew
    <3>2. /\ m.term = current_term'[i] /\ m.entries[k] = log'[i][m.prev_log_idx + k]
          /\ Reach(m) <= Len(log'[i])
      BY <3>1 DEF FromLog, Copies
    <3>3. m.prev_log_idx + k \in 1..Len(log'[i])
      <4>1. m.prev_log_idx \in Nat /\ Len(m.entries) \in Nat /\ Len(log'[i]) \in Nat
        BY <1>2, <3>1, MessageReach, LenProperties DEF TypeOK
      <4> QED BY <3>2, <4>1 DEF Reach
    <3> QED BY <1>1, <3>2, <3>3
  <2> QED BY <1>2, <2>1, <2>2 DEF Move, SendMove
<1> QED BY <1>1, <1>2 DEF LogTerms

LEMMA TermInvKept ==
    ASSUME LogInv, TypeOK', TermInv, NEW i \in Servers, Move(i)
    PROVE  TermInv'
<1>0. TypeOK /\ LogTerms /\ TermsRise /\ Contiguous /\ LeaderHas
  BY DEF LogInv, ElectionInv, TermInv
<1>1. LogTerms'
  BY <1>0, LogTermsKept
<1>2. \A k \in Nat : \A e, p : Occurs(k, e, p)' => Occurs(k, e, p) \/ Written(i, k, e, p)
  BY OccursMove DEF Move, LogMove
<1>3. ASSUME NEW k \in Nat, NEW e, NEW p, Written(i, k, e, p), state'[i] = "leader"
      PROVE  /\ k \in 1..Len(log'[i]) /\ log'[i][k] = e
             /\ p = IF k = 1 THEN 0 ELSE log[i][k - 1].term
             /\ k > 1 => k - 1 \in 1..Len(log[i])
  <2>1. EntryAt(log'[i], k, e, p) /\ k = Len(log[i]) + 1
    BY <1>3 DEF Written
  <2>2. Len(log[i]) \in Nat
    BY <1>0, LenProperties DEF TypeOK
  <2>3. k # 1 => k - 1 \in 1..Len(log[i])
    BY <2>1, <2>2
  <2>4. \A n \in 1..Len(log[i]) : log'[i][n] = log[i][n]
    BY <1>0, <1>3, LeaderGrows
  <2> QED BY <2>1, <2>3, <2>4 DEF EntryAt
<1>4. ASSUME NEW k \in Nat, NEW e, NEW p, Written(i, k, e, p), ~Occurs(k, e, p)
      PROVE  state[i] = "leader" /\ state'[i] = "leader" /\ current_term'[i] = current_term[i]
             /\ e.term = current_term[i] /\ k = Len(log[i]) + 1
  <2>1. state[i] = "leader" /\ EntryAt(log'[i], k, e, p)
        /\ e.term = current_term[i] /\ k = Len(log[i]) + 1
    BY <1>4 DEF Written
  <2>2. log'[i] # log[i]
    BY <1>4, <2>1 DEF Occurs
  <2>3. ASSUME NEW j \in Servers, NEW m, Took(i, j, m) PROVE FALSE
    <3>1. EntryAt(log[i], k, e, p) \/ SentAt(m, k, e, p)
      BY <1>0, <2>1, <2>3, LogAfterEntries DEF Took, TypeOK
    <3> QED BY <1>4, <2>3, <3>1 DEF Occurs, Took
  <2>4. Grew(i)
    BY <2>2, <2>3 DEF Move, LogStep
  <2> QED BY <2>1, <2>4 DEF Grew
<1>5. \A n \in 1..Len(log[i]) : log[i][n].term \in Nat /\ log[i][n].term <= current_term[i]
  BY <1>0, SeqEntries DEF TypeOK, LogTerms
<1>6. current_term[i] \in Nat /\ Len(log[i]) \in Nat
  BY <1>0, LenProperties DEF TypeOK
<1>7. TermsRise'
  <2> SUFFICES ASSUME NEW k \in Nat, NEW e, NEW p, Occurs(k, e, p)', ~Occurs(k, e, p)
               PROVE  p <= e.term
    BY <1>0 DEF TermsRise
  <2>1. Written(i, k, e, p)
    BY <1>2
  <2>2. /\ state'[i] = "leader" /\ e.term = current_term[i]
    BY <1>4, <2>1
  <2>3. /\ p = IF k = 1 THEN 0 ELSE log[i][k - 1].term
        /\ k > 1 => k - 1 \in 1..Len(log[i])
        /\ k \in 1..Len(log'[i])
    BY <1>3, <2>1, <2>2
  <2>4. CASE k = 1
    BY <1>6, <2>2, <2>3, <2>4
  <2>5. CASE k # 1
    <3>1. k > 1
      BY <2>3, <2>5
    <3> QED BY <1>5, <2>2, <2>3, <2>5, <3>1
  <2> QED BY <2>4, <2>5
<1>8. LeaderHas'
  <2> SUFFICES ASSUME NEW s \in Servers, state'[s] = "leader", NEW k \in Nat, NEW e, NEW p,
                      Occurs(k, e, p)', e.term = current_term'[s]
               PROVE  k \in 1..Len(log'[s]) /\ log'[s][k] = e
    BY DEF LeaderHas
  <2>1. CASE Occurs(k, e, p)
    <3>1. state[s] = "leader" /\ current_term'[s] = current_term[s]
      <4>1. ~NewReign(i) \/ s # i
        BY <2>1 DEF NewReign, HasEntry
      <4> QED BY <4>1 DEF Move, LogMove, LeaderMove
    <3>2. k \in 1..Len(log[s]) /\ log[s][k] = e
      BY <1>0, <2>1, <3>1 DEF LeaderHas
    <3>3. /\ Len(log[s]) <= Len(log'[s]) /\ log'[s][k] = log[s][k]
      BY <1>0, <3>2, LeaderGrows
    <3>4. Len(log[s]) \in Nat /\ Len(log'[s]) \in Nat
      BY <1>0, LenProperties DEF TypeOK
    <3> QED BY <3>2, <3>3, <3>4
  <2>2. CASE ~Occurs(k, e, p)
    <3>1. Written(i, k, e, p)
      BY <1>2, <2>2
    <3>2. /\ state[i] = "leader" /\ state'[i] = "leader" /\ current_term'[i] = current_term[i]
          /\ e.term = current_term[i]
      BY <1>4, <2>2, <3>1
    <3>3. s = i
      <4>1. CASE s # i
        <5>1. state[s] = "leader" /\ current_term[s] = current_term[i]
          BY <1>0, <3>2, <4>1, TermsGrow
        <5> QED BY <3>2, <5>1, InvImpliesElectionSafety DEF LogInv, ElectionSafety
      <4> QED BY <4>1
    <3> QED BY <1>3, <3>1, <3>2, <3>3
  <2> QED BY <2>1, <2>2
<1>9. Contiguous'
  <2> SUFFICES ASSUME NEW k \in Nat, NEW n \in Nat, NEW e, NEW f, NEW p, NEW q,
                      Occurs(k, e, p)', Occurs(n, f, q)', e.term = f.term, k < n
               PROVE  q = f.term
    BY DEF Contiguous
  <2>1. CASE Occurs(k, e, p) /\ Occurs(n, f, q)
    BY <1>0, <2>1 DEF Contiguous
  <2>2. CASE ~Occurs(k, e, p) /\ Occurs(n, f, q)
    <3>1. Written(i, k, e, p)
      BY <1>2, <2>2
    <3>2. state[i] = "leader" /\ e.term = current_term[i] /\ k = Len(log[i]) + 1
      BY <1>4, <2>2, <3>1
    <3>3. n \in 1..Len(log[i])
      BY <1>0, <2>2, <3>2 DEF LeaderHas
    <3> QED BY <1>6, <3>2, <3>3
  <2>3. CASE ~Occurs(n, f, q)
    <3>1. Written(i, n, f, q)
      BY <1>2, <2>3
    <3>2. /\ state[i] = "leader" /\ state'[i] = "leader" /\ current_term'[i] = current_term[i]
          /\ f.term = current_term[i] /\ n = Len(log[i]) + 1
      BY <1>4, <2>3, <3>1
    <3>3. k \in 1..Len(log'[i]) /\ log'[i][k] = e
      BY <1>8, <3>2 DEF LeaderHas
    <3>4. /\ k \in 1..Len(log[i]) /\ n # 1 /\ n > 1 /\ n - 1 = Len(log[i])
          /\ Len(log[i]) \in 1..Len(log[i]) /\ k <= Len(log[i])
      <4>1. Len(log'[i]) \in Nat
        BY LenProperties DEF TypeOK
      <4> QED BY <1>6, <3>2, <3>3, <4>1
    <3>5. log[i][k] = e
      BY <1>0, <3>2, <3>3, <3>4, LeaderGrows
    <3>6. q = log[i][Len(log[i])].term
      BY <1>3, <3>1, <3>2, <3>4
    <3>7. log[i][k].term <= log[i][Len(log[i])].term
      BY <1>0, <3>4, Ascending
    <3>8. /\ log[i][Len(log[i])].term \in Nat
          /\ log[i][Len(log[i])].term <= current_term[i]
      BY <1>5, <3>4
    <3> QED BY <1>6, <3>2, <3>5, <3>6, <3>7, <3>8
  <2> QED BY <2>1, <2>2, <2>3
<1> QED BY <1>1, <1>7, <1>8, <1>9 DEF TermInv
-----------------------------------------------------------------------------
\* Requests, messages and acknowledgements.

\* A candidate's request describes its log; votes are for terms that the candidate
\* has reached; a node alone never stands.
RequestsTrue ==
    \A c, q \in Servers : \A m : In(net[c][q], m) /\ m.type = "requestvote" =>
        /\ m.term \in Nat /\ m.term <= current_term[c]
        /\ m.term = current_term[c] /\ state[c] = "candidate" =>
              m.last_log_idx = Len(log[c]) /\ m.last_log_term = raft_get_last_log_term(log[c])
VotesPast == \A k, c \in Servers : \A t \in Nat : Grant(k, t, c) => t <= current_term[c]
NotAlone == \A i \in Servers : InOffice(state[i]) => Cardinality(Servers) > 1
AskInv == RequestsTrue /\ VotesPast /\ NotAlone

LEMMA AskInvKept ==
    ASSUME TypeOK, TypeOK', AskInv, NEW i \in Servers, Move(i)
    PROVE  AskInv'
<1>0. RequestsTrue /\ VotesPast /\ NotAlone
  BY DEF AskInv
<1>1. \A s \in Servers : /\ current_term[s] \in Nat /\ current_term'[s] \in Nat
                         /\ current_term[s] <= current_term'[s]
  BY TermsGrow
<1>2. RequestsTrue'
  <2> SUFFICES ASSUME NEW c \in Servers, NEW q \in Servers, NEW m,
                      In(net'[c][q], m), m.type = "requestvote"
               PROVE  /\ m.term \in Nat /\ m.term <= current_term'[c]
                      /\ m.term = current_term'[c] /\ state'[c] = "candidate" =>
                            /\ m.last_log_idx = Len(log'[c])
                            /\ m.last_log_term = raft_get_last_log_term(log'[c])
    BY DEF RequestsTrue
  <2>1. CASE In(net[c][q], m)
    <3>1. m.term \in Nat /\ m.term <= current_term[c]
      BY <1>0, <2>1 DEF RequestsTrue
    <3>2. m.term <= current_term'[c]
      BY <1>1, <3>1
    <3>3. ASSUME m.term = current_term'[c], state'[c] = "candidate"
          PROVE  current_term[c] = m.term /\ state[c] = "candidate" /\ log'[c] = log[c]
      <4>1. current_term[c] = current_term'[c]
        BY <1>1, <3>1, <3>3
      <4>2. CASE c = i
        BY <1>1, <3>3, <4>1, <4>2 DEF Move, LogMove, VoteMove, OfficeMove
      <4>3. CASE c # i
        BY <3>3, <4>1, <4>3, TermsGrow
      <4> QED BY <4>2, <4>3
    <3> QED BY <1>0, <2>1, <3>1, <3>2, <3>3 DEF RequestsTrue
  <2>2. CASE c = i /\ IsNew(i, q, m)
    <3>1. Asks(i, m)
      BY <2>2 DEF IsNew
    <3>2. m.term = current_term'[i] /\ current_term'[i] <= current_term'[i]
      BY <1>1, <3>1 DEF Asks
    <3> QED BY <1>1, <2>2, <3>1, <3>2 DEF Asks
  <2> QED BY <2>1, <2>2 DEF Move, SendMove
<1>3. VotesPast'
  <2> SUFFICES ASSUME NEW k \in Servers, NEW c \in Servers, NEW t \in Nat, Grant(k, t, c)'
               PROVE  t <= current_term'[c]
    BY DEF VotesPast
  <2>1. CASE Grant(k, t, c)
    <3>1. t <= current_term[c]
      BY <1>0, <2>1 DEF VotesPast
    <3> QED BY <1>1, <3>1
  <2>2. CASE k = i /\ t = current_term'[i] /\ Votes(i, c)
    <3>1. CASE c = i
      BY <1>1, <2>2, <3>1
    <3>2. CASE c # i
      <4>1. PICK m : In(net[c][i], m) /\ m.type = "requestvote" /\ m.term = current_term'[i]
        BY <2>2, <3>2 DEF Votes
      <4>2. m.term <= current_term[c]
        BY <1>0, <4>1 DEF RequestsTrue
      <4> QED BY <1>1, <2>2, <4>1, <4>2
    <3> QED BY <3>1, <3>2
  <2> QED BY <2>1, <2>2 DEF Move, GrantMove
<1>4. NotAlone'
  <2> SUFFICES ASSUME NEW s \in Servers, InOffice(state'[s]) PROVE Cardinality(Servers) > 1
    BY DEF NotAlone
  <2>1. CASE s = i
    BY <2>1 DEF Move, OfficeMove
  <2>2. CASE s # i
    BY <1>0, <2>2, TermsGrow DEF NotAlone
  <2> QED BY <2>1, <2>2
<1> QED BY <1>2, <1>3, <1>4 DEF AskInv

\* What a leader has sent in its term is in its log, and every message reaches at
\* least as far as those before it.
LeaderSends ==
    \A i, j \in Servers : state[i] = "leader" =>
        /\ \A m : In(net[i][j], m) /\ m.type = "appendentries" /\ m.term = current_term[i] =>
              m \in Message /\ Copies(m, log[i])
        /\ \A m, n : /\ Later(net[i][j], m, n)
                     /\ m.type = "appendentries" /\ m.term = current_term[i]
                     /\ n.type = "appendentries" /\ n.term = current_term[i]
              => Reach(m) <= Reach(n)
NextInLog ==
    \A i \in Servers : state[i] = "leader" =>
        \A j \in Servers \ {i} : next_idx[i][j] <= Len(log[i]) + 1
\* Only who has been leader of the term gets acknowledgements.
AcksToLeader ==
    \A i, j \in Servers : \A m :
        /\ In(net[j][i], m) /\ m.type = "appendentries_response" /\ m.success
        => m.term \in Nat /\ m.current_idx \in Nat /\ Led(m.term, i)
SendInv == LeaderSends /\ NextInLog /\ AcksToLeader

LEMMA LeaderStays ==
    ASSUME NEW i \in Servers, Move(i), NEW s \in Servers, state'[s] = "leader"
    PROVE  \/ state[s] = "leader" /\ current_term'[s] = current_term[s]
           \/ /\ s = i /\ NewReign(i) /\ Won(i) /\ state[i] = "candidate"
              /\ current_term'[i] = current_term[i] /\ log'[i] = log[i]
<1>1. \/ state[s] = "leader" /\ current_term'[s] = current_term[s]
      \/ s = i /\ NewReign(i)
  BY DEF Move, LogMove, LeaderMove
<1>2. ASSUME s = i, NewReign(i) PROVE state[i] # "leader" /\ current_term'[i] = current_term[i]
  BY <1>2 DEF NewReign, Rules
<1>3. s = i /\ NewReign(i) => Won(i)
  BY <1>2 DEF Move, OfficeMove
<1> QED BY <1>1, <1>2, <1>3 DEF Won

LEMMA CopiesGrow ==
    ASSUME NEW l, NEW r, Len(l) \in Nat, Len(r) \in Nat, Len(l) <= Len(r),
           \A k \in 1..Len(l) : r[k] = l[k],
           NEW m \in Message, m.type = "appendentries", Copies(m, l)
    PROVE  Copies(m, r)
<1>1. /\ m.prev_log_idx \in Nat /\ Len(m.entries) \in Nat /\ Reach(m) \in Nat
      /\ Reach(m) = m.prev_log_idx + Len(m.entries) /\ Reach(m) <= Len(l)
  BY MessageReach DEF Reach, Copies
<1>2. Reach(m) <= Len(r)
  BY <1>1
<1>3. \A n \in 1..Len(m.entries) : m.prev_log_idx + n \in 1..Len(l)
  BY <1>1
<1>4. m.prev_log_idx > 0 => m.prev_log_idx \in 1..Len(l)
  BY <1>1
<1> QED BY <1>2, <1>3, <1>4 DEF Copies

\* Everything a leader has sent in its term, after a step.
LEMMA SentCopies ==
    ASSUME LogInv, TypeOK', LeaderSends, NEW i \in Servers, Move(i),
           NEW s \in Servers, state'[s] = "leader", NEW j \in Servers, NEW m,
           In(net'[s][j], m), m.type = "appendentries", m.term = current_term'[s]
    PROVE  /\ m \in Message /\ Copies(m, log'[s])
           /\ \/ /\ In(net[s][j], m) /\ state[s] = "leader"
                 /\ current_term'[s] = current_term[s]
              \/ s = i /\ IsNew(i, j, m)
<1>0. TypeOK
  BY DEF LogInv, ElectionInv
<1>1. CASE In(net[s][j], m)
  <2>1. state[s] = "leader" /\ current_term'[s] = current_term[s]
    <3>1. s = i => ~NewReign(i)
      BY <1>1 DEF NewReign, Rules
    <3> QED BY <3>1, LeaderStays
  <2>2. m \in Message /\ Copies(m, log[s])
    BY <1>1, <2>1 DEF LeaderSends
  <2>3. /\ Len(log[s]) <= Len(log'[s]) /\ \A k \in 1..Len(log[s]) : log'[s][k] = log[s][k]
    BY <1>0, LeaderGrows
  <2>4. Len(log[s]) \in Nat /\ Len(log'[s]) \in Nat
    BY <1>0, LenProperties DEF TypeOK
  <2>5. Copies(m, log'[s])
    BY <2>2, <2>3, <2>4, CopiesGrow
  <2> QED BY <1>1, <2>1, <2>2, <2>5
<1>2. CASE s = i /\ IsNew(i, j, m)
  <2>1. m \in Message /\ FromLog(i, m)
    BY <1>2 DEF IsNew
  <2> QED BY <1>2, <2>1 DEF FromLog
<1> QED BY <1>1, <1>2 DEF Move, SendMove

LEMMA SendInvKept ==
    ASSUME LogInv, TypeOK', SendInv, NEW i \in Servers, Move(i)
    PROVE  SendInv'
<1>0. TypeOK /\ LeaderSends /\ NextInLog /\ AcksToLeader
  BY DEF LogInv, ElectionInv, SendInv
<1>1. \A s \in Servers : Len(log[s]) \in Nat /\ Len(log'[s]) \in Nat
  BY <1>0, LenProperties DEF TypeOK
<1>2. LeaderSends'
  <2>1. ASSUME NEW s \in Servers, NEW j \in Servers, state'[s] = "leader", NEW m, NEW n,
               Later(net'[s][j], m, n), m.type = "appendentries", m.term = current_term'[s],
               n.type = "appendentries", n.term = current_term'[s]
        PROVE  Reach(m) <= Reach(n)
    <3>0. In(net'[s][j], m) /\ In(net'[s][j], n)
      BY <2>1 DEF Later, In
    <3>1. m \in Message /\ Copies(m, log'[s])
      BY <1>0, <2>1, <3>0, SentCopies
    <3>2. CASE Later(net[s][j], m, n)
      <4>1. In(net[s][j], m)
        BY <3>2 DEF Later, In
      <4>2. state[s] = "leader" /\ current_term'[s] = current_term[s]
        <5>1. s = i => ~NewReign(i)
          BY <2>1, <4>1 DEF NewReign, Rules
        <5> QED BY <2>1, <5>1, LeaderStays
      <4> QED BY <1>0, <2>1, <3>2, <4>2 DEF LeaderSends
    <3>3. CASE s = i /\ IsNew(i, j, n)
      <4>1. Reach(n) = Len(log'[i])
        BY <2>1, <3>3 DEF IsNew, FromLog
      <4> QED BY <3>1, <3>3, <4>1 DEF Copies
    <3> QED BY <2>1, <3>2, <3>3 DEF Move, SendMove
  <2>2. ASSUME NEW s \in Servers, NEW j \in Servers, state'[s] = "leader", NEW m,
               In(net'[s][j], m), m.type = "appendentries", m.term = current_term'[s]
        PROVE  m \in Message /\ Copies(m, log'[s])
    BY <1>0, <2>2, SentCopies
  <2> QED BY <2>1, <2>2 DEF LeaderSends
<1>3. NextInLog'
  <2> SUFFICES ASSUME NEW s \in Servers, state'[s] = "leader", NEW j \in Servers \ {s}
               PROVE  next_idx'[s][j] <= Len(log'[s]) + 1
    BY DEF NextInLog
  <2>0. next_idx[s][j] \in Nat /\ next_idx'[s][j] \in Nat
    BY <1>0 DEF TypeOK
  <2>1. CASE state[s] = "leader"
    <3>1. next_idx[s][j] <= Len(log[s]) + 1 /\ Len(log[s]) <= Len(log'[s])
      BY <1>0, <2>1, LeaderGrows DEF NextInLog
    <3>2. next_idx'[s][j] = next_idx[s][j] \/ next_idx'[s][j] <= Len(log'[s]) + 1
      <4>1. CASE s = i
        BY <2>1, <4>1 DEF Move, IndexMove
      <4>2. CASE s # i
        BY <4>2 DEF Move, OthersKept
      <4> QED BY <4>1, <4>2
    <3> QED BY <1>1, <2>0, <3>1, <3>2
  <2>2. CASE state[s] # "leader"
    <3>1. s = i /\ Won(i) /\ log'[i] = log[i]
      BY <2>2, LeaderStays
    <3>2. next_idx'[i][j] = Len(log'[i]) + 1
      BY <3>1 DEF Won
    <3> QED BY <1>1, <2>0, <3>1, <3>2
  <2> QED BY <2>1, <2>2
<1>4. AcksToLeader'
  <2> SUFFICES ASSUME NEW s \in Servers, NEW j \in Servers, NEW m, In(net'[j][s], m),
                      m.type = "appendentries_response", m.success
               PROVE  m.term \in Nat /\ m.current_idx \in Nat /\ Led(m.term, s)'
    BY DEF AcksToLeader
  <2>1. m.term \in Nat /\ m.current_idx \in Nat /\ Led(m.term, s)
    <3>1. CASE In(net[j][s], m)
      BY <1>0, <3>1 DEF AcksToLeader
    <3>2. CASE j = i /\ IsNew(i, s, m)
      <4>1. PICK x : TookOver(i, s, x) /\ m.term = x.term /\ m.current_idx = Reach(x)
        BY <3>2 DEF IsNew
      <4>2. In(net[s][i], x) /\ x.type = "appendentries" /\ x \in Message
        BY <4>1 DEF TookOver, Took
      <4>3. x.term \in Nat /\ Reach(x) \in Nat
        BY <4>2, MessageReach
      <4>4. Rules(x.term, s)
        BY <4>2 DEF Rules
      <4>5. Led(x.term, s)
        BY <4>3, <4>4 DEF LogInv, OneReign
      <4> QED BY <4>1, <4>3, <4>5
    <3> QED BY <3>1, <3>2 DEF Move, SendMove
  <2>2. VoteMove(i)
    BY DEF Move, LogMove
  <2> QED BY <1>0, <2>1, <2>2, LedKept
<1> QED BY <1>2, <1>3, <1>4 DEF SendInv
\* What the invariant says of any two logs.
LogsAgree ==
    \A i, j \in Servers : \A k \in 1..Len(log[i]) :
        k <= Len(log[j]) /\ log[i][k].term = log[j][k].term => \A n \in 1..k : log[i][n] = log[j][n]
LogsRise ==
    \A s \in Servers : \A k, n \in 1..Len(log[s]) : k <= n => log[s][k].term <= log[s][n].term
PrefixesRun ==
    \A p \in Prefix : \A r, s \in Servers : \A n \in 1..Len(log[s]) :
        Has(log[r], p) /\ Len(p) <= n /\ log[s][n].term = Top(p) => Has(log[s], p)
LogFacts == LogsAgree /\ LogsRise /\ PrefixesRun

LEMMA LogFactsHold == LogInv /\ TermInv => LogFacts
<1> SUFFICES ASSUME LogInv, TermInv PROVE LogFacts
  OBVIOUS
<1>1. TypeOK /\ LogMatching /\ TermsRise /\ Contiguous
  BY EntriesMatch DEF LogInv, ElectionInv, TermInv
<1>2. LogsAgree
  BY <1>1, MatchUpTo DEF LogsAgree
<1>3. LogsRise
  BY <1>1, Ascending DEF LogsRise
<1>4. PrefixesRun
  BY <1>1, HasByRun DEF PrefixesRun
<1> QED BY <1>2, <1>3, <1>4 DEF LogFacts

LEMMA LogFactsHoldNext ==
    ASSUME LogInv', TermInv'
    PROVE  LogFacts'
BY LogFactsHold, PTL
LEMMA PrefixOf ==
    ASSUME NEW l \in Seq(Entry), NEW x \in 1..Len(l)
    PROVE  /\ SubSeq(l, 1, x) \in Prefix /\ Len(SubSeq(l, 1, x)) = x
           /\ \A k \in 1..x : SubSeq(l, 1, x)[k] = l[k]
           /\ Has(l, SubSeq(l, 1, x)) /\ Top(SubSeq(l, 1, x)) = l[x].term
<1> DEFINE p == SubSeq(l, 1, x)
<1>0. Len(l) \in Nat /\ x \in Nat /\ 1 <= x /\ x <= Len(l) /\ x \in 1..x
  BY LenProperties
<1>1. \A n \in 1..x : l[n] \in Entry
  BY <1>0, SeqEntries
<1>2. /\ p \in Seq(Entry) /\ Len(p) = IF 1 <= x THEN x - 1 + 1 ELSE 0
      /\ \A n \in 1..(x - 1 + 1) : p[n] = l[1 + n - 1]
  BY <1>0, <1>1, SubSeqProperties
<1> HIDE DEF p
<1>3. p \in Seq(Entry) /\ Len(p) = x /\ \A n \in 1..x : p[n] = l[n]
  BY <1>0, <1>2
<1>4. p # << >>
  BY <1>0, <1>3, EmptySeq
<1>5. p[x] = l[x]
  BY <1>0, <1>3
<1>6. p \in Prefix /\ Has(l, p) /\ Top(p) = l[x].term
  BY <1>0, <1>3, <1>4, <1>5 DEF Has, Top, Prefix
<1> QED BY <1>3, <1>6 DEF p

LEMMA CopiesFit ==
    ASSUME NEW m \in Message, m.type = "appendentries", NEW l, NEW p, Len(p) \in Nat,
           Copies(m, l), Has(l, p), Len(p) <= Reach(m)
    PROVE  Fits(m, p)
<1>0. m.prev_log_idx \in Nat /\ Len(m.entries) \in Nat
  BY MessageReach
<1>1. ASSUME NEW k \in 1..Len(p), k - m.prev_log_idx \in 1..Len(m.entries)
      PROVE  m.entries[k - m.prev_log_idx] = p[k]
  <2>1. m.prev_log_idx + (k - m.prev_log_idx) = k
    BY <1>0, <1>1
  <2>2. m.entries[k - m.prev_log_idx] = l[m.prev_log_idx + (k - m.prev_log_idx)]
    BY <1>1 DEF Copies
  <2> QED BY <2>1, <2>2 DEF Has
<1>2. ASSUME m.prev_log_idx \in 1..Len(p)
      PROVE  m.prev_log_term = p[m.prev_log_idx].term
  <2>1. m.prev_log_idx > 0
    BY <1>2
  <2> QED BY <1>2, <2>1 DEF Copies, Has
<1> QED BY <1>1, <1>2 DEF Fits

LEMMA CopiesCarry ==
    ASSUME NEW m \in Message, m.type = "appendentries", NEW s \in Servers, NEW p \in Prefix,
           TypeOK, LogsRise, Copies(m, log[s]), Has(log[s], p), Len(p) <= Reach(m)
    PROVE  Carries(m, p)
<1>0. /\ Len(p) \in Nat /\ 1 <= Len(p) /\ Len(p) \in 1..Len(p)
      /\ m.prev_log_idx \in Nat /\ Reach(m) \in Nat /\ m.prev_log_idx <= Reach(m)
      /\ Len(log[s]) \in Nat
  BY PrefixType, MessageReach, LenProperties DEF TypeOK
<1>1. Fits(m, p)
  BY <1>0, CopiesFit
<1>2. ASSUME Len(p) < m.prev_log_idx
      PROVE  Top(p) <= m.prev_log_term
  <2>1. /\ m.prev_log_idx \in 1..Len(log[s]) /\ Len(p) \in 1..Len(log[s])
        /\ Len(p) <= m.prev_log_idx /\ m.prev_log_idx > 0
    BY <1>0, <1>2 DEF Copies
  <2>2. log[s][Len(p)].term <= log[s][m.prev_log_idx].term
    BY <2>1 DEF LogsRise
  <2>3. log[s][Len(p)].term = Top(p)
    BY <1>0 DEF Has, Top
  <2>4. log[s][m.prev_log_idx].term = m.prev_log_term
    BY <2>1 DEF Copies
  <2> QED BY <2>2, <2>3, <2>4
<1> QED BY <1>1, <1>2 DEF Carries

\* The same in the next state.
CarryCopies ==
    \A m \in Message : \A s \in Servers : \A p \in Prefix :
        /\ m.type = "appendentries" /\ Copies(m, log[s]) /\ Has(log[s], p) /\ Len(p) <= Reach(m)
        => Carries(m, p)
LEMMA CarryCopiesHold == TypeOK /\ LogFacts => CarryCopies
BY CopiesCarry DEF LogFacts, CarryCopies
LEMMA CarryCopiesNext ==
    ASSUME TypeOK', LogFacts'
    PROVE  CarryCopies'
BY CarryCopiesHold, PTL

\* Who takes a leader's message over has the leader's log as far as it reaches.
LEMMA TakenOver ==
    ASSUME TypeOK, LogsAgree', NEW i \in Servers, NEW s \in Servers, NEW m,
           TookOver(i, s, m), Copies(m, log'[s])
    PROVE  /\ Reach(m) \in Nat /\ Reach(m) > 0 => Reach(m) \in 1..Len(log'[i])
           /\ \A k \in 1..Reach(m) : log'[i][k] = log'[s][k]
<1>0. /\ m \in Message /\ m.type = "appendentries" /\ ~Missing(log[i], m)
      /\ ~Mismatch(log[i], m) /\ log'[i] = LogAfter(log[i], m) /\ log[i] \in Seq(Entry)
  BY DEF TookOver, Took, TypeOK
<1>1. /\ Reach(m) \in Nat /\ m.prev_log_idx \in Nat /\ Len(m.entries) \in Nat
      /\ m.prev_log_idx <= Reach(m) /\ Reach(m) = m.prev_log_idx + Len(m.entries)
  BY <1>0, MessageReach DEF Reach
<1>2. log'[i] \in Seq(Entry) /\ Len(log'[i]) \in Nat
  BY <1>0, LogAfterType, LenProperties
<1> SUFFICES ASSUME Reach(m) > 0
             PROVE  /\ Reach(m) \in 1..Len(log'[i])
                    /\ \A k \in 1..Reach(m) : log'[i][k] = log'[s][k]
  BY <1>1
<1>3. Reach(m) \in 1..Reach(m)
  BY <1>1
<1>4. Reach(m) <= Len(log'[i]) /\ log'[i][Reach(m)].term = TermIn(m, Reach(m))
  BY <1>0, <1>1, <1>3, LogAfterReach
<1>5. TermIn(m, Reach(m)) = log'[s][Reach(m)].term
  <2>1. CASE Len(m.entries) = 0
    <3>1. Reach(m) = m.prev_log_idx
      BY <1>1, <2>1
    <3> QED BY <3>1 DEF TermIn, Copies
  <2>2. CASE Len(m.entries) # 0
    <3>1. /\ Reach(m) # m.prev_log_idx /\ Reach(m) - m.prev_log_idx \in 1..Len(m.entries)
          /\ m.prev_log_idx + (Reach(m) - m.prev_log_idx) = Reach(m)
      BY <1>1, <2>2
    <3>2. m.entries[Reach(m) - m.prev_log_idx] = log'[s][Reach(m)]
      BY <3>1 DEF Copies
    <3> QED BY <3>1, <3>2 DEF TermIn
  <2> QED BY <2>1, <2>2
<1>6. Reach(m) \in 1..Len(log'[i]) /\ Reach(m) <= Len(log'[s])
  BY <1>1, <1>2, <1>4 DEF Copies
<1> QED BY <1>4, <1>5, <1>6 DEF LogsAgree
\* What a node has acknowledged to a leader: the leader has it, no message on the
\* way takes it back, and the node has it while it has not left the term.
AckSafe ==
    \A i, j \in Servers : state[i] = "leader" /\ i # j =>
        \A x \in Nat : Acked(i, j, x) =>
            /\ x <= Len(log[i])
            /\ \A m : In(net[i][j], m) /\ m.type = "appendentries" /\ m.term = current_term[i] =>
                  x <= Reach(m)
            /\ current_term[j] <= current_term[i] =>
                  x <= Len(log[j]) /\ \A k \in 1..x : log[j][k] = log[i][k]
            /\ x > 0 => current_term[i] <= current_term[j]

LEMMA AckedMove ==
    ASSUME LogInv, TypeOK', AcksToLeader, NEW i \in Servers, Move(i), NEW s \in Servers,
           state'[s] = "leader", NEW j \in Servers \ {s}, NEW x \in Nat, x > 0, Acked(s, j, x)'
    PROVE  /\ state[s] = "leader" /\ current_term'[s] = current_term[s]
           /\ \/ Acked(s, j, x)
              \/ j = i /\ \E m : TookOver(i, s, m) /\ m.term = current_term[s] /\ x <= Reach(m)
<1>0. TypeOK
  BY DEF LogInv, ElectionInv
<1>1. ASSUME NEW r, In(net[j][s], r), r.type = "appendentries_response", r.success,
             r.term = current_term'[s]
      PROVE  state[s] = "leader" /\ current_term'[s] = current_term[s]
  <2>1. Led(current_term'[s], s)
    BY <1>1 DEF AcksToLeader
  <2>2. ~(state[s] = "candidate" /\ current_term[s] = current_term'[s])
    BY <2>1 DEF Led
  <2> QED BY <2>2, LeaderStays
<1>2. ASSUME x <= match_idx'[s][j]
      PROVE  state[s] = "leader" /\ current_term'[s] = current_term[s] /\ Acked(s, j, x)
  <2>1. state[s] = "leader" /\ current_term'[s] = current_term[s]
    <3>1. ~(s = i /\ Won(i))
      BY <1>2 DEF Won
    <3> QED BY <3>1, LeaderStays
  <2>2. CASE s = i
    BY <1>2, <2>1, <2>2 DEF Move, IndexMove
  <2>3. CASE s # i
    BY <1>2, <2>1, <2>3 DEF Move, OthersKept, Acked
  <2> QED BY <2>1, <2>2, <2>3
<1>3. ASSUME NEW r, In(net'[j][s], r), r.type = "appendentries_response", r.success,
             r.term = current_term'[s], x <= r.current_idx
      PROVE  /\ state[s] = "leader" /\ current_term'[s] = current_term[s]
             /\ \/ Acked(s, j, x)
                \/ j = i /\ \E m : TookOver(i, s, m) /\ m.term = current_term[s] /\ x <= Reach(m)
  <2>1. CASE In(net[j][s], r)
    <3>1. state[s] = "leader" /\ current_term'[s] = current_term[s]
      BY <1>1, <1>3, <2>1
    <3> QED BY <1>3, <2>1, <3>1 DEF Acked
  <2>2. CASE j = i /\ IsNew(i, s, r)
    <3>1. PICK m : TookOver(i, s, m) /\ r.term = m.term /\ r.current_idx = Reach(m)
      BY <1>3, <2>2 DEF IsNew
    <3>2. s # i
      BY <2>2
    <3>3. state[s] = "leader" /\ current_term'[s] = current_term[s]
      BY <3>2, LeaderStays
    <3> QED BY <1>3, <2>2, <3>1, <3>3
  <2> QED BY <1>3, <2>1, <2>2 DEF Move, SendMove
<1> QED BY <1>2, <1>3 DEF Acked

LEMMA AckSafeKept ==
    ASSUME LogInv, LogInv', SendInv, SendInv', LogFacts', AckSafe, NEW i \in Servers, Move(i)
    PROVE  AckSafe'
<1>0. /\ TypeOK /\ TypeOK' /\ LeaderSends /\ LeaderSends' /\ AcksToLeader /\ LogsAgree'
      /\ ElectionSafety
  BY InvImpliesElectionSafety DEF LogInv, ElectionInv, SendInv, LogFacts
<1> SUFFICES ASSUME NEW s \in Servers, NEW j \in Servers, state'[s] = "leader", s # j,
                    NEW x \in Nat, Acked(s, j, x)'
             PROVE  /\ x <= Len(log'[s])
                    /\ \A m : In(net'[s][j], m) /\ m.type = "appendentries"
                              /\ m.term = current_term'[s] => x <= Reach(m)
                    /\ current_term'[j] <= current_term'[s] =>
                          x <= Len(log'[j]) /\ \A k \in 1..x : log'[j][k] = log'[s][k]
                    /\ x > 0 => current_term'[s] <= current_term'[j]
  BY DEF AckSafe
<1>1. /\ log[s] \in Seq(Entry) /\ log[j] \in Seq(Entry)
      /\ Len(log[s]) \in Nat /\ Len(log[j]) \in Nat
      /\ Len(log'[s]) \in Nat /\ Len(log'[j]) \in Nat
  BY <1>0, LenProperties DEF TypeOK
<1>2. /\ current_term[s] \in Nat /\ current_term'[s] \in Nat
      /\ current_term[j] \in Nat /\ current_term'[j] \in Nat
      /\ current_term[j] <= current_term'[j]
  BY <1>0, TermsGrow
<1>3. ASSUME NEW m, In(net'[s][j], m), m.type = "appendentries", m.term = current_term'[s]
      PROVE  Reach(m) \in Nat /\ m \in Message
  <2>1. m \in Message
    BY <1>0, <1>3 DEF LeaderSends
  <2> QED BY <1>3, <2>1, MessageReach
<1>4. CASE x = 0
  <2>1. \A k : k \notin 1..x
    BY <1>4
  <2>2. \A m : In(net'[s][j], m) /\ m.type = "appendentries"
                  /\ m.term = current_term'[s] => x <= Reach(m)
    BY <1>3, <1>4
  <2> QED BY <1>1, <1>4, <2>1, <2>2
<1>5. CASE x # 0
  <2>0. x > 0
    BY <1>5
  <2>1. /\ state[s] = "leader" /\ current_term'[s] = current_term[s]
        /\ \/ Acked(s, j, x)
           \/ j = i /\ \E m : TookOver(i, s, m) /\ m.term = current_term[s] /\ x <= Reach(m)
    BY <1>0, <2>0, AckedMove
  <2>2. /\ Len(log[s]) <= Len(log'[s]) /\ \A k \in 1..Len(log[s]) : log'[s][k] = log[s][k]
    BY <1>0, LeaderGrows
  <2>3. CASE Acked(s, j, x)
    <3>1. /\ x <= Len(log[s])
          /\ \A m : In(net[s][j], m) /\ m.type = "appendentries" /\ m.term = current_term[s] =>
                x <= Reach(m)
          /\ current_term[j] <= current_term[s] =>
                x <= Len(log[j]) /\ \A k \in 1..x : log[j][k] = log[s][k]
          /\ current_term[s] <= current_term[j]
      BY <2>0, <2>1, <2>3 DEF AckSafe
    <3>2. x <= Len(log'[s])
      BY <1>1, <2>2, <3>1
    <3>3. ASSUME NEW m, In(net'[s][j], m), m.type = "appendentries", m.term = current_term'[s]
          PROVE  x <= Reach(m)
      <4>1. In(net[s][j], m) \/ (s = i /\ IsNew(i, j, m))
        BY <3>3 DEF Move, SendMove
      <4>2. CASE In(net[s][j], m)
        BY <2>1, <3>1, <3>3, <4>2
      <4>3. CASE s = i /\ IsNew(i, j, m)
        BY <3>2, <3>3, <4>3 DEF IsNew, FromLog
      <4> QED BY <4>1, <4>2, <4>3
    <3>4. ASSUME current_term'[j] <= current_term'[s]
          PROVE  x <= Len(log'[j]) /\ \A k \in 1..x : log'[j][k] = log'[s][k]
      <4>1. current_term[j] = current_term[s] /\ current_term'[j] = current_term[s]
        BY <1>2, <2>1, <3>1, <3>4
      <4>2. x <= Len(log[j]) /\ \A k \in 1..x : log[j][k] = log[s][k]
        BY <1>2, <3>1, <4>1
      <4>3. \A k \in 1..x : k \in 1..Len(log[s]) /\ log'[s][k] = log[s][k]
        BY <1>1, <2>2, <3>1
      <4>4. CASE log'[j] = log[j]
        BY <4>2, <4>3, <4>4
      <4>5. CASE log'[j] # log[j]
        <5>1. j = i
          BY <1>0, <4>5, TermsGrow
        <5>2. ~Grew(i)
          <6>1. Grew(i) => state[i] = "leader"
            BY DEF Grew
          <6> QED BY <1>0, <2>1, <4>1, <5>1, <6>1 DEF ElectionSafety
        <5>3. PICK a \in Servers : \E m : Took(i, a, m)
          BY <4>5, <5>1, <5>2 DEF Move, LogStep
        <5>4. PICK m : Took(i, a, m)
          BY <5>3
        <5>5. /\ In(net[a][i], m) /\ m \in Message /\ m.type = "appendentries"
              /\ m.term = current_term[s] /\ ~Missing(log[i], m)
              /\ log'[i] = LogAfter(log[i], m)
          BY <4>1, <5>1, <5>4 DEF Took
        <5>6. a = s
          <6>1. Rules(current_term[s], a) /\ Rules(current_term[s], s)
            BY <2>1, <5>5 DEF Rules
          <6> QED BY <1>2, <6>1 DEF LogInv, OneReign
        <5>7. x <= Reach(m) /\ Copies(m, log[s])
          BY <1>0, <2>1, <3>1, <5>1, <5>5, <5>6 DEF LeaderSends
        <5> DEFINE p == SubSeq(log[s], 1, x)
        <5>8. x \in 1..Len(log[s])
          BY <1>1, <2>0, <3>1
        <5>9. /\ p \in Prefix /\ Len(p) = x /\ \A k \in 1..x : p[k] = log[s][k]
              /\ Has(log[s], p)
          BY <1>1, <5>8, PrefixOf
        <5> HIDE DEF p
        <5>10. Fits(m, p)
          BY <5>5, <5>7, <5>9, CopiesFit
        <5>11. Has(log[i], p)
          BY <4>2, <5>1, <5>9 DEF Has
        <5>12. Has(log'[i], p)
          BY <1>1, <5>1, <5>5, <5>9, <5>10, <5>11, FittingKept DEF Prefix
        <5> QED BY <4>3, <5>1, <5>9, <5>12 DEF Has
      <4> QED BY <4>4, <4>5
    <3>5. current_term'[s] <= current_term'[j]
      BY <1>2, <2>1, <3>1
    <3> QED BY <3>2, <3>3, <3>4, <3>5
  <2>4. ASSUME j = i, NEW m, TookOver(i, s, m), m.term = current_term[s], x <= Reach(m)
        PROVE  /\ x <= Len(log'[s])
               /\ \A n : In(net'[s][j], n) /\ n.type = "appendentries"
                         /\ n.term = current_term'[s] => x <= Reach(n)
               /\ x <= Len(log'[j]) /\ \A k \in 1..x : log'[j][k] = log'[s][k]
               /\ current_term'[s] <= current_term'[j]
    <3>1. /\ In(net[s][i], m) /\ m \in Message /\ m.type = "appendentries"
          /\ m.term = current_term'[i]
          /\ \A n : In(net'[s][i], n) => Later(net[s][i], m, n)
      BY <2>4 DEF TookOver, Took
    <3>2. Copies(m, log[s]) /\ log'[s] = log[s] /\ Reach(m) \in Nat
      BY <1>0, <2>1, <2>4, <3>1, TermsGrow, MessageReach DEF LeaderSends
    <3>3. x <= Len(log'[s])
      BY <1>1, <2>4, <3>2 DEF Copies
    <3>4. ASSUME NEW n, In(net'[s][j], n), n.type = "appendentries", n.term = current_term'[s]
          PROVE  x <= Reach(n)
      <4>1. Reach(m) <= Reach(n)
        BY <1>0, <2>1, <2>4, <3>1, <3>4 DEF LeaderSends
      <4>2. Reach(n) \in Nat
        BY <1>3, <3>4
      <4> QED BY <2>4, <3>2, <4>1, <4>2
    <3>5. /\ Reach(m) > 0 => Reach(m) \in 1..Len(log'[i])
          /\ \A k \in 1..Reach(m) : log'[i][k] = log'[s][k]
      BY <1>0, <2>4, <3>2, TakenOver
    <3>6. x <= Len(log'[j]) /\ \A k \in 1..x : log'[j][k] = log'[s][k]
      BY <1>1, <2>0, <2>4, <3>2, <3>5
    <3>7. current_term'[s] <= current_term'[j]
      BY <1>2, <2>1, <2>4, <3>1
    <3> QED BY <3>3, <3>4, <3>6, <3>7
  <2> QED BY <2>0, <2>1, <2>3, <2>4
<1> QED BY <1>4, <1>5

LEMMA AckSafeMatches ==
    ASSUME TypeOK, AckSafe
    PROVE  MatchHolds
<1> SUFFICES ASSUME NEW i \in Servers, NEW j \in Servers, i # j, state[i] = "leader",
                    current_term[j] <= current_term[i]
             PROVE  /\ match_idx[i][j] <= Len(log[j])
                    /\ \A k \in 1..match_idx[i][j] : log[j][k] = log[i][k]
  BY DEF MatchHolds
<1>1. match_idx[i][j] \in Nat
  BY DEF TypeOK
<1>2. Acked(i, j, match_idx[i][j])
  BY <1>1 DEF Acked
<1> QED BY <1>1, <1>2 DEF AckSafe
-----------------------------------------------------------------------------
\* Committed prefixes.

\* All that is of a later term than p's last entry has p.
Pinned(p) ==
    /\ \A s \in Servers :
          (\E k \in 1..Len(log[s]) : log[s][k].term > Top(p)) => Has(log[s], p)
    /\ \A s \in Servers : state[s] = "leader" /\ current_term[s] >= Top(p) => Has(log[s], p)
    /\ \A a, b \in Servers : \A m :
          In(net[a][b], m) /\ m.type = "appendentries" /\ m.term > Top(p) => Carries(m, p)
\* q has p and loses it to no message it may still accept.
Guards(q, p) ==
    /\ Top(p) <= current_term[q] /\ Has(log[q], p)
    /\ current_term[q] = Top(p) =>
          \A a \in Servers : \A m :
              In(net[a][q], m) /\ m.type = "appendentries" /\ m.term = Top(p) => Carries(m, p)
\* q has voted only for candidates that have p.
Backs(q, p) ==
    \A c \in Servers :
        /\ state[c] = "candidate" /\ current_term[c] > Top(p) /\ Grant(q, current_term[c], c)
        => Has(log[c], p)
\* p is committed: no leader to come lacks it.
Fixed(p) ==
    /\ Pinned(p)
    /\ \E Q \in SUBSET Servers : Majority(Q) /\ \A q \in Q : Guards(q, p) /\ Backs(q, p)

BaseInv == LogInv /\ TermInv /\ AskInv /\ SendInv /\ AckSafe

LEMMA BaseFacts ==
    ASSUME BaseInv
    PROVE  /\ TypeOK /\ LogTerms /\ LogsAgree /\ LogsRise /\ PrefixesRun /\ CarryCopies
           /\ VoteKept /\ OneReign /\ NoSelf /\ LeaderHas /\ ElectionSafety
           /\ RequestsTrue /\ VotesPast /\ NotAlone /\ LeaderSends /\ AcksToLeader
<1>1. LogFacts /\ TypeOK
  BY LogFactsHold DEF BaseInv, LogInv, ElectionInv
<1>2. CarryCopies
  BY <1>1, CarryCopiesHold
<1>3. ElectionSafety
  BY InvImpliesElectionSafety DEF BaseInv, LogInv
<1> QED BY <1>1, <1>2, <1>3 DEF BaseInv, LogInv, ElectionInv, TermInv, AskInv, SendInv, LogFacts

Facts ==
    /\ TypeOK /\ LogTerms /\ LogsAgree /\ LogsRise /\ PrefixesRun /\ CarryCopies
    /\ VoteKept /\ OneReign /\ NoSelf /\ LeaderHas /\ ElectionSafety
    /\ RequestsTrue /\ VotesPast /\ NotAlone /\ LeaderSends /\ AcksToLeader
LEMMA FactsHold == BaseInv => Facts
BY BaseFacts DEF Facts
LEMMA BaseFactsNext ==
    ASSUME BaseInv'
    PROVE  /\ TypeOK' /\ LogTerms' /\ LogsAgree' /\ LogsRise' /\ PrefixesRun' /\ CarryCopies'
           /\ VoteKept' /\ OneReign' /\ NoSelf' /\ LeaderHas' /\ ElectionSafety'
           /\ RequestsTrue' /\ VotesPast' /\ NotAlone' /\ LeaderSends' /\ AcksToLeader'
<1>1. Facts'
  BY FactsHold, PTL
<1> QED BY <1>1 DEF Facts

\* Who takes over a message that carries p has p.
LEMMA CarriedTaken ==
    ASSUME BaseInv, BaseInv', NEW i \in Servers, Move(i), NEW p \in Prefix, Pinned(p),
           NEW r \in Servers, Has(log[r], p), NEW j \in Servers, NEW m, TookOver(i, j, m),
           Carries(m, p)
    PROVE  Has(log'[i], p)
<1>0. /\ TypeOK /\ TypeOK' /\ PrefixesRun /\ PrefixesRun'
  BY BaseFacts, BaseFactsNext
<1>1. /\ m \in Message /\ m.type = "appendentries" /\ ~Missing(log[i], m)
      /\ ~Mismatch(log[i], m) /\ log'[i] = LogAfter(log[i], m)
      /\ log[i] \in Seq(Entry) /\ log'[i] \in Seq(Entry)
  BY <1>0 DEF TookOver, Took, TypeOK
<1> DEFINE y == Len(p)
           prev == m.prev_log_idx
<1>2. /\ y \in Nat /\ 1 <= y /\ p \in Seq(Entry) /\ Top(p) \in Nat /\ prev \in Nat
      /\ Len(m.entries) \in Nat /\ Reach(m) = prev + Len(m.entries) /\ y <= Reach(m)
      /\ Len(log[i]) \in Nat /\ Len(log'[i]) \in Nat /\ prev <= Len(log[i])
      /\ m.prev_log_term \in Nat /\ Fits(m, p) /\ y \in 1..y
  <2>1. /\ Len(p) \in Nat /\ 1 <= Len(p) /\ p \in Seq(Entry) /\ Top(p) \in Nat
        /\ Len(p) \in 1..Len(p)
    BY PrefixType
  <2>2. m.prev_log_idx \in Nat /\ Len(m.entries) \in Nat /\ m.prev_log_term \in Nat
    BY <1>1, MessageReach
  <2>3. Len(log[i]) \in Nat /\ Len(log'[i]) \in Nat
    BY <1>1, LenProperties
  <2>4. m.prev_log_idx <= Len(log[i])
    BY <1>1, <2>2, <2>3 DEF Missing
  <2>5. Fits(m, p) /\ Len(p) <= Reach(m)
    BY DEF Carries, Fits
  <2> QED BY <2>1, <2>2, <2>3, <2>4, <2>5 DEF Reach
<1>3. CASE Has(log[i], p)
  BY <1>1, <1>2, <1>3, FittingKept
<1>4. CASE ~Has(log[i], p) /\ y < prev
  <2>1. prev \in 1..Len(log[i])
    BY <1>2, <1>4
  <2>2. log[i][prev].term = m.prev_log_term
    BY <1>1, <2>1 DEF Mismatch
  <2>3. Top(p) <= m.prev_log_term
    BY <1>4 DEF Carries
  <2>4. CASE log[i][prev].term = Top(p)
    <3>1. Len(p) <= prev
      BY <1>2, <1>4
    <3> QED BY <1>0, <1>4, <2>1, <2>4, <3>1 DEF PrefixesRun
  <2>5. CASE log[i][prev].term # Top(p)
    <3>1. log[i][prev].term > Top(p)
      BY <1>2, <2>2, <2>3, <2>5
    <3> QED BY <1>4, <2>1, <3>1 DEF Pinned
  <2> QED BY <2>4, <2>5
<1>5. CASE ~Has(log[i], p) /\ ~(y < prev)
  <2>1. log'[r] = log[r]
    BY <1>0, <1>5, TermsGrow
  <2>2. y \in 1..Reach(m) /\ prev <= y
    <3> HIDE DEF y, prev
    <3> QED BY <1>2, <1>5
  <2>3. y <= Len(log'[i]) /\ log'[i][y].term = TermIn(m, y)
    BY <1>1, <2>2, LogAfterReach
  <2>4. TermIn(m, y) = Top(p)
    <3>1. CASE y = prev
      <4>1. prev \in 1..Len(p)
        BY <1>2, <3>1
      <4> QED BY <1>2, <3>1, <4>1 DEF TermIn, Fits, Top
    <3>2. CASE y # prev
      <4>1. y - prev \in 1..Len(m.entries)
        <5> HIDE DEF y, prev
        <5> QED BY <1>2, <2>2, <3>2
      <4>2. m.entries[y - prev] = p[y]
        BY <1>2, <4>1 DEF Fits
      <4> QED BY <3>2, <4>2 DEF TermIn, Top
    <3> QED BY <3>1, <3>2
  <2>5. y \in 1..Len(log'[i]) /\ Len(p) <= y
    <3> HIDE DEF prev
    <3> QED BY <1>2, <2>3
  <2>6. Has(log'[r], p) /\ log'[i][y].term = Top(p)
    BY <2>1, <2>3, <2>4
  <2> HIDE DEF y
  <2> QED BY <1>0, <2>5, <2>6 DEF PrefixesRun
<1> QED BY <1>3, <1>4, <1>5

LEMMA HasGrows ==
    ASSUME NEW l, NEW r, NEW p, Len(l) \in Nat, Len(r) \in Nat, Len(p) \in Nat, Has(l, p),
           Len(l) <= Len(r), \A k \in 1..Len(l) : r[k] = l[k]
    PROVE  Has(r, p)
<1>1. Len(p) <= Len(l) /\ \A k \in 1..Len(p) : l[k] = p[k]
  BY DEF Has
<1>2. Len(p) <= Len(r) /\ \A k \in 1..Len(p) : k \in 1..Len(l)
  BY <1>1
<1> QED BY <1>1, <1>2 DEF Has

\* The logs with an entry of a later term still have p.
LEMMA PinnedLogs ==
    ASSUME BaseInv, BaseInv', NEW i \in Servers, Move(i), NEW p \in Prefix, Pinned(p),
           NEW r \in Servers, Has(log[r], p), NEW s \in Servers,
           NEW k \in 1..Len(log'[s]), log'[s][k].term > Top(p)
    PROVE  Has(log'[s], p)
<1>0. /\ TypeOK /\ TypeOK' /\ LogTerms /\ LogTerms'
  BY BaseFacts, BaseFactsNext
<1>1. /\ log[s] \in Seq(Entry) /\ log'[s] \in Seq(Entry)
      /\ Len(log[s]) \in Nat /\ Len(log'[s]) \in Nat /\ Len(p) \in Nat
      /\ p \in Seq(Entry) /\ Top(p) \in Nat /\ log'[s][k].term \in Nat
  <2>1. log[s] \in Seq(Entry) /\ log'[s] \in Seq(Entry)
    BY <1>0 DEF TypeOK
  <2> QED BY <2>1, PrefixType, SeqEntries
<1>2. ASSUME k \in 1..Len(log[s]), log'[s][k] = log[s][k]
      PROVE  Has(log[s], p)
  BY <1>2 DEF Pinned
<1>3. CASE log'[s] = log[s]
  BY <1>2, <1>3
<1>4. CASE s = i /\ Grew(i)
  <2>1. PICK e \in Entry : e.term = current_term[i] /\ log'[i] = Append(log[i], e)
    BY <1>4 DEF Grew
  <2>2. /\ Len(log'[i]) = Len(log[i]) + 1 /\ log'[i][Len(log[i]) + 1] = e
        /\ \A n \in 1..Len(log[i]) : log'[i][n] = log[i][n]
    BY <1>1, <1>4, <2>1, AppendProperties
  <2>3. Has(log[i], p)
    <3>1. k \in 1..Len(log[i]) \/ k = Len(log[i]) + 1
      BY <1>1, <1>4, <2>2
    <3>2. CASE k \in 1..Len(log[i])
      BY <1>2, <1>4, <2>2, <3>2
    <3>3. CASE k = Len(log[i]) + 1
      <4>1. current_term[i] >= Top(p) /\ state[i] = "leader"
        BY <1>1, <1>4, <2>1, <2>2, <3>3 DEF Grew
      <4> QED BY <4>1 DEF Pinned
    <3> QED BY <3>1, <3>2, <3>3
  <2>4. Len(log[i]) <= Len(log'[i])
    BY <1>1, <1>4, <2>2
  <2> QED BY <1>1, <1>4, <2>2, <2>3, <2>4, HasGrows
<1>5. ASSUME s = i, NEW j \in Servers, NEW m, Took(i, j, m)
      PROVE  Has(log'[i], p)
  <2>1. /\ In(net[j][i], m) /\ m \in Message /\ m.type = "appendentries"
        /\ m.term = current_term'[i] /\ ~Missing(log[i], m) /\ log'[i] = LogAfter(log[i], m)
    BY <1>5 DEF Took
  <2>2. Carries(m, p)
    <3>1. log'[s][k].term <= current_term'[s]
      BY <1>0 DEF LogTerms
    <3>2. current_term'[s] \in Nat
      BY <1>0 DEF TypeOK
    <3>3. m.term > Top(p)
      BY <1>1, <1>5, <2>1, <3>1, <3>2
    <3> QED BY <2>1, <3>3 DEF Pinned
  <2>3. CASE Mismatch(log[i], m)
    <3>1. k \in 1..Len(log[i]) /\ log'[i][k] = log[i][k]
      BY <1>1, <1>5, <2>1, <2>3, LogAfterCut
    <3>2. Has(log[i], p)
      BY <1>2, <1>5, <3>1
    <3> QED BY <1>1, <1>5, <2>1, <2>2, <3>2, FittingKept DEF Carries
  <2>4. CASE ~Mismatch(log[i], m)
    BY <1>5, <2>2, <2>4, CarriedTaken DEF TookOver
  <2> QED BY <2>3, <2>4
<1>6. \/ log'[s] = log[s] \/ (s = i /\ Grew(i))
      \/ (s = i /\ \E j \in Servers : \E m : Took(i, j, m))
  BY <1>0, TermsGrow DEF Move, LogStep
<1> QED BY <1>3, <1>4, <1>5, <1>6

\* So have the leaders, if a majority backs p, as far as it has left p's term.
LEMMA PinnedLeaders ==
    ASSUME BaseInv, BaseInv', NEW i \in Servers, Move(i), NEW p \in Prefix, Pinned(p),
           NEW r \in Servers, Has(log[r], p), NEW Q \in SUBSET Servers, Majority(Q),
           \A q \in Q : current_term[q] > Top(p) => Backs(q, p),
           NEW s \in Servers, state'[s] = "leader", current_term'[s] >= Top(p)
    PROVE  Has(log'[s], p)
<1>0. /\ TypeOK /\ TypeOK' /\ VoteKept
  BY BaseFacts, BaseFactsNext
<1>1. /\ Len(log[s]) \in Nat /\ Len(log'[s]) \in Nat /\ Len(p) \in Nat /\ Top(p) \in Nat
      /\ Len(log[r]) \in Nat /\ 1 <= Len(p) /\ Len(p) \in 1..Len(p)
      /\ current_term[s] \in Nat
  BY <1>0, PrefixType, LenProperties DEF TypeOK
<1>2. CASE state[s] = "leader" /\ current_term'[s] = current_term[s]
  <2>1. Has(log[s], p)
    BY <1>2 DEF Pinned
  <2>2. /\ Len(log[s]) <= Len(log'[s]) /\ \A k \in 1..Len(log[s]) : log'[s][k] = log[s][k]
    BY <1>0, LeaderGrows
  <2> QED BY <1>1, <2>1, <2>2, HasGrows
<1>3. CASE /\ s = i /\ NewReign(i) /\ Won(i) /\ state[i] = "candidate"
           /\ current_term'[i] = current_term[i] /\ log'[i] = log[i]
  <2> DEFINE t == current_term[i]
  <2>1. t # Top(p)
    <3>1. Len(p) \in 1..Len(log[r]) /\ log[r][Len(p)].term = Top(p)
      BY <1>1 DEF Has, Top
    <3>2. Occurs(Len(p), log[r][Len(p)], IF Len(p) = 1 THEN 0 ELSE log[r][Len(p) - 1].term)
      BY <3>1, LogOccurs
    <3>3. HasEntry(Top(p))
      BY <1>1, <3>1, <3>2 DEF HasEntry
    <3> QED BY <1>3, <3>3 DEF NewReign
  <2>2. t > Top(p)
    BY <1>1, <1>3, <2>1
  <2>3. PICK V \in SUBSET Servers : Majority(V) /\ \A k \in V : Grant(k, t, i)
    BY <1>3 DEF Won
  <2>4. PICK q \in Q : q \in V
    BY <2>3, MajoritiesMeet DEF Majority
  <2>5. t <= current_term[q] /\ current_term[q] \in Nat /\ t \in Nat
    <3>1. q \in Servers /\ t \in Nat /\ Grant(q, t, i)
      BY <1>1, <1>3, <2>3, <2>4
    <3> HIDE DEF t
    <3> QED BY <1>0, <3>1 DEF VoteKept, TypeOK
  <2>6. current_term[q] > Top(p)
    BY <1>1, <2>2, <2>5
  <2>7. Has(log[i], p)
    BY <1>3, <2>2, <2>3, <2>4, <2>6 DEF Backs
  <2> QED BY <1>3, <2>7
<1> QED BY <1>2, <1>3, LeaderStays

\* What a leader that has p sends carries p.
LEMMA NewCarries ==
    ASSUME BaseInv', NEW i \in Servers, NEW b, NEW m, IsNew(i, b, m),
           m.type = "appendentries", NEW p \in Prefix, Has(log'[i], p)
    PROVE  Carries(m, p)
<1>1. m \in Message /\ Copies(m, log'[i]) /\ Reach(m) = Len(log'[i])
  BY DEF IsNew, FromLog
<1>2. Len(p) <= Reach(m)
  BY <1>1 DEF Has
<1>3. CarryCopies'
  BY BaseFactsNext
<1> QED BY <1>1, <1>2, <1>3 DEF CarryCopies

LEMMA PinnedKept ==
    ASSUME BaseInv, BaseInv', NEW i \in Servers, Move(i), NEW p \in Prefix, Pinned(p),
           NEW r \in Servers, Has(log[r], p), NEW Q \in SUBSET Servers, Majority(Q),
           \A q \in Q : current_term[q] > Top(p) => Backs(q, p)
    PROVE  Pinned(p)'
<1>1. ASSUME NEW s \in Servers, NEW k \in 1..Len(log'[s]), log'[s][k].term > Top(p)
      PROVE  Has(log'[s], p)
  BY <1>1, PinnedLogs
<1>2. ASSUME NEW s \in Servers, state'[s] = "leader", current_term'[s] >= Top(p)
      PROVE  Has(log'[s], p)
  BY <1>2, PinnedLeaders
<1>3. ASSUME NEW a \in Servers, NEW b \in Servers, NEW m, In(net'[a][b], m),
             m.type = "appendentries", m.term > Top(p)
      PROVE  Carries(m, p)
  <2>1. CASE In(net[a][b], m)
    BY <1>3, <2>1 DEF Pinned
  <2>2. CASE a = i /\ IsNew(i, b, m)
    <3>1. state'[i] = "leader" /\ current_term'[i] > Top(p)
      BY <1>3, <2>2 DEF IsNew, FromLog
    <3>2. current_term'[i] \in Nat /\ Top(p) \in Nat
      BY BaseFactsNext, PrefixType DEF TypeOK
    <3>3. Has(log'[i], p)
      BY <1>2, <3>1, <3>2
    <3> QED BY <1>3, <2>2, <3>3, NewCarries
  <2> QED BY <1>3, <2>1, <2>2 DEF Move, SendMove
<1> QED BY <1>1, <1>2, <1>3 DEF Pinned
LEMMA GuardsKept ==
    ASSUME BaseInv, BaseInv', NEW i \in Servers, Move(i), NEW p \in Prefix,
           Pinned(p), Pinned(p)', NEW q \in Servers, Guards(q, p)
    PROVE  Guards(q, p)'
<1>0. TypeOK /\ TypeOK' /\ NoSelf'
  BY BaseFacts, BaseFactsNext
<1>1. /\ Top(p) <= current_term[q] /\ Has(log[q], p)
      /\ Top(p) \in Nat /\ p \in Seq(Entry) /\ Len(p) \in Nat
      /\ current_term[q] \in Nat /\ current_term'[q] \in Nat
      /\ current_term[q] <= current_term'[q]
  BY <1>0, TermsGrow, PrefixType DEF Guards
<1>2. Top(p) <= current_term'[q]
  BY <1>1
<1>3. Has(log'[q], p)
  <2>1. CASE log'[q] = log[q]
    BY <1>1, <2>1
  <2>2. CASE q = i /\ Grew(i)
    <3>1. state'[i] = "leader"
      BY <2>2 DEF Grew
    <3>2. /\ Len(log[i]) <= Len(log'[i]) /\ \A k \in 1..Len(log[i]) : log'[i][k] = log[i][k]
      BY <1>0, <3>1, LeaderGrows
    <3>3. Len(log[i]) \in Nat /\ Len(log'[i]) \in Nat
      BY <1>0, LenProperties DEF TypeOK
    <3> QED BY <1>1, <2>2, <3>2, <3>3, HasGrows
  <2>3. ASSUME q = i, NEW j \in Servers, NEW m, Took(i, j, m)
        PROVE  Has(log'[i], p)
    <3>1. /\ In(net[j][i], m) /\ m \in Message /\ m.type = "appendentries"
          /\ m.term = current_term'[i] /\ ~Missing(log[i], m) /\ log'[i] = LogAfter(log[i], m)
      BY <2>3 DEF Took
    <3>2. Carries(m, p)
      <4>1. CASE m.term > Top(p)
        BY <3>1, <4>1 DEF Pinned
      <4>2. CASE ~(m.term > Top(p))
        <5>1. m.term = Top(p) /\ current_term[i] = Top(p)
          BY <1>1, <2>3, <3>1, <4>2
        <5> QED BY <2>3, <3>1, <5>1 DEF Guards
      <4> QED BY <4>1, <4>2
    <3>3. log[i] \in Seq(Entry)
      BY <1>0 DEF TypeOK
    <3> QED BY <1>1, <2>3, <3>1, <3>2, <3>3, FittingKept DEF Carries
  <2>4. \/ log'[q] = log[q] \/ (q = i /\ Grew(i))
        \/ (q = i /\ \E j \in Servers : \E m : Took(i, j, m))
    BY <1>0, TermsGrow DEF Move, LogStep
  <2> QED BY <2>1, <2>2, <2>3, <2>4
<1>4. ASSUME current_term'[q] = Top(p), NEW a \in Servers, NEW m, In(net'[a][q], m),
             m.type = "appendentries", m.term = Top(p)
      PROVE  Carries(m, p)
  <2>1. current_term[q] = Top(p)
    BY <1>1, <1>4
  <2>2. CASE In(net[a][q], m)
    BY <1>4, <2>1, <2>2 DEF Guards
  <2>3. CASE a = i /\ IsNew(i, q, m)
    <3>1. state'[i] = "leader" /\ current_term'[i] = Top(p)
      BY <1>4, <2>3 DEF IsNew, FromLog
    <3>2. Has(log'[i], p)
      BY <1>1, <3>1 DEF Pinned
    <3> QED BY <1>4, <2>3, <3>2, NewCarries
  <2> QED BY <1>4, <2>2, <2>3 DEF Move, SendMove
<1> QED BY <1>2, <1>3, <1>4 DEF Guards

LEMMA LastTerm ==
    ASSUME NEW l \in Seq(Entry), l # << >>
    PROVE  Len(l) \in 1..Len(l) /\ raft_get_last_log_term(l) = l[Len(l)].term
<1>1. Len(l) \in 1..Len(l)
  BY LenProperties, EmptySeq
<1> QED BY <1>1 DEF raft_get_last_log_term, TermAt

\* A node that has p votes only for candidates that have p.
LEMMA BacksKept ==
    ASSUME BaseInv, BaseInv', NEW i \in Servers, Move(i), NEW p \in Prefix,
           Pinned(p), NEW q \in Servers, Guards(q, p), Backs(q, p)
    PROVE  Backs(q, p)'
<1>0. /\ TypeOK /\ TypeOK' /\ RequestsTrue /\ VotesPast /\ LogsRise /\ PrefixesRun
  BY BaseFacts, BaseFactsNext
<1> SUFFICES ASSUME NEW c \in Servers, state'[c] = "candidate", current_term'[c] > Top(p),
                    Grant(q, current_term[c], c)'
             PROVE  Has(log'[c], p)
  BY DEF Backs
<1>5. current_term'[c] \in Nat
  BY <1>0 DEF TypeOK
<1>6. PICK t \in Nat : t = current_term'[c]
  BY <1>5
<1>1. /\ current_term[c] \in Nat /\ current_term[c] <= t /\ Top(p) \in Nat /\ t > Top(p)
      /\ Grant(q, t, c)'
  <2>1. current_term[c] \in Nat /\ current_term[c] <= current_term'[c] /\ Top(p) \in Nat
    BY <1>0, TermsGrow, PrefixType
  <2>2. Grant(q, t, c)'
    BY <1>6 DEF Grant
  <2> QED BY <1>6, <2>1, <2>2
<1>2. log'[c] = log[c]
  BY <1>0, TermsGrow DEF Move, OfficeMove
<1>3. CASE Grant(q, t, c)
  <2>1. t <= current_term[c]
    BY <1>0, <1>1, <1>3 DEF VotesPast
  <2>2. t = current_term[c] /\ current_term'[c] = current_term[c]
    BY <1>1, <1>6, <2>1
  <2>3. state[c] = "candidate"
    <3>1. CASE c = i
      BY <1>1, <2>2, <3>1 DEF Move, LogMove, VoteMove
    <3>2. CASE c # i
      BY <1>0, <3>2, TermsGrow
    <3> QED BY <3>1, <3>2
  <2> QED BY <1>1, <1>2, <1>3, <2>2, <2>3 DEF Backs
<1>4. CASE q = i /\ t = current_term'[i] /\ Votes(i, c)
  <2>1. Has(log[i], p)
    BY <1>4 DEF Guards
  <2>2. CASE c = i
    BY <1>2, <2>1, <2>2
  <2>3. CASE c # i
    <3>1. PICK m : /\ In(net[c][i], m) /\ m.type = "requestvote"
                   /\ m.term = current_term'[i] /\ UpToDate(log[i], m)
      BY <1>4, <2>3 DEF Votes
    <3>2. state[c] = "candidate" /\ current_term[c] = t
      BY <1>0, <1>6, <2>3, TermsGrow
    <3>3. m.last_log_idx = Len(log[c]) /\ m.last_log_term = raft_get_last_log_term(log[c])
      BY <1>0, <1>4, <3>1, <3>2 DEF RequestsTrue
    <3>4. /\ log[i] \in Seq(Entry) /\ log[c] \in Seq(Entry) /\ Len(log[i]) \in Nat
          /\ Len(log[c]) \in Nat /\ Len(p) \in Nat /\ 1 <= Len(p) /\ Len(p) <= Len(log[i])
          /\ Len(p) \in 1..Len(p)
      BY <1>0, <2>1, PrefixType, LenProperties DEF TypeOK, Has
    <3>5. log[i] # << >>
      BY <3>4, EmptySeq
    <3>6. Len(log[i]) \in 1..Len(log[i]) /\ raft_get_last_log_term(log[i]) = log[i][Len(log[i])].term
      BY <3>4, <3>5, LastTerm
    <3>7. Top(p) <= raft_get_last_log_term(log[i])
      <4>1. Len(p) \in 1..Len(log[i]) /\ log[i][Len(p)].term = Top(p)
        BY <2>1, <3>4 DEF Has, Top
      <4> QED BY <1>0, <3>4, <3>6, <4>1 DEF LogsRise
    <3>8. raft_get_last_log_term(log[i]) \in Nat /\ raft_get_last_log_term(log[c]) \in Nat
      BY <3>4, TermAtType DEF raft_get_last_log_term
    <3>9. \/ raft_get_last_log_term(log[c]) > Top(p)
          \/ /\ raft_get_last_log_term(log[c]) = Top(p)
             /\ Len(log[i]) <= Len(log[c])
      BY <1>1, <3>1, <3>3, <3>5, <3>7, <3>8 DEF UpToDate
    <3>10. log[c] # << >>
      <4>1. ASSUME log[c] = << >> PROVE Len(log[c]) = 0 /\ raft_get_last_log_term(log[c]) = 0
        BY <4>1 DEF raft_get_last_log_term, TermAt
      <4> QED BY <1>1, <3>4, <3>9, <4>1
    <3>11. Len(log[c]) \in 1..Len(log[c]) /\ raft_get_last_log_term(log[c]) = log[c][Len(log[c])].term
      BY <3>4, <3>10, LastTerm
    <3>12. CASE raft_get_last_log_term(log[c]) > Top(p)
      BY <1>2, <3>11, <3>12 DEF Pinned
    <3>13. CASE raft_get_last_log_term(log[c]) = Top(p) /\ Len(log[i]) <= Len(log[c])
      <4>1. Len(p) <= Len(log[c])
        BY <3>4, <3>13
      <4> QED BY <1>0, <1>2, <2>1, <3>11, <3>13, <4>1 DEF PrefixesRun
    <3> QED BY <3>9, <3>12, <3>13
  <2> QED BY <2>2, <2>3
<1>7. Grant(q, t, c) \/ (q = i /\ t = current_term'[i] /\ Votes(i, c))
  BY <1>1 DEF Move, GrantMove
<1> QED BY <1>3, <1>4, <1>7

LEMMA FixedKept ==
    ASSUME BaseInv, BaseInv', NEW i \in Servers, Move(i), NEW p \in Prefix, Fixed(p)
    PROVE  Fixed(p)'
<1>1. PICK Q \in SUBSET Servers : Majority(Q) /\ \A q \in Q : Guards(q, p) /\ Backs(q, p)
  BY DEF Fixed
<1>2. Pinned(p)
  BY DEF Fixed
<1>3. PICK r \in Q : TRUE
  <2>1. PICK k \in Q : k \in Q
    BY <1>1, MajoritiesMeet DEF Majority
  <2> QED BY <2>1
<1>4. Has(log[r], p) /\ r \in Servers
  BY <1>1, <1>3 DEF Guards
<1>5. Pinned(p)'
  BY <1>1, <1>2, <1>4, PinnedKept
<1>6. \A q \in Q : Guards(q, p)' /\ Backs(q, p)'
  BY <1>1, <1>2, <1>5, GuardsKept, BacksKept
<1>7. Majority(Q)'
  BY <1>1 DEF Majority
<1> QED BY <1>1, <1>5, <1>6, <1>7 DEF Fixed
-----------------------------------------------------------------------------
\* How a leader commits an entry of its term.

\* A majority may still be in i's term, or has acknowledged y entries before it
\* left: leader i could yet commit y entries.
Open(i, y) ==
    \E Q \in SUBSET Servers :
        /\ Majority(Q)
        /\ \A q \in Q \ {i} : current_term[q] <= current_term[i] \/ Acked(i, q, y)
\* Then nothing of a later term is without them, and who has acknowledged them
\* keeps them and votes only for candidates that have them.
ChoiceInv ==
    \A i \in Servers : state[i] = "leader" =>
        \A p \in Prefix :
            Has(log[i], p) /\ Top(p) = current_term[i] /\ Open(i, Len(p)) =>
                /\ Pinned(p)
                /\ \A q \in Servers \ {i} : Acked(i, q, Len(p)) => Guards(q, p) /\ Backs(q, p)

\* A node that has acknowledged p and has not left the term.
AckGuards ==
    \A s \in Servers : \A q \in Servers \ {s} : \A p \in Prefix :
        /\ state[s] = "leader" /\ Has(log[s], p) /\ Top(p) = current_term[s]
        /\ Acked(s, q, Len(p)) /\ current_term[q] <= current_term[s]
        => Guards(q, p) /\ Backs(q, p)

LEMMA AckGuardsHold == BaseInv => AckGuards
<1> SUFFICES ASSUME BaseInv, NEW s \in Servers, NEW q \in Servers \ {s}, NEW p \in Prefix,
                    state[s] = "leader", Has(log[s], p), Top(p) = current_term[s],
                    Acked(s, q, Len(p)), current_term[q] <= current_term[s]
             PROVE  Guards(q, p) /\ Backs(q, p)
  BY DEF AckGuards
<1>0. TypeOK /\ VoteKept /\ OneReign /\ LeaderSends /\ CarryCopies /\ AckSafe
  BY BaseFacts DEF BaseInv
<1> DEFINE x == Len(p)
<1>1. /\ x \in Nat /\ x > 0 /\ current_term[q] \in Nat /\ current_term[s] \in Nat
  BY <1>0, PrefixType DEF TypeOK
<1>2. /\ \A m : In(net[s][q], m) /\ m.type = "appendentries" /\ m.term = current_term[s] =>
            x <= Reach(m)
      /\ x <= Len(log[q]) /\ \A k \in 1..x : log[q][k] = log[s][k]
      /\ current_term[s] <= current_term[q]
  BY <1>0, <1>1 DEF AckSafe
<1>3. current_term[q] = Top(p)
  BY <1>1, <1>2
<1>4. Has(log[q], p)
  BY <1>2 DEF Has
<1>5. ASSUME NEW a \in Servers, NEW m, In(net[a][q], m), m.type = "appendentries",
             m.term = Top(p)
      PROVE  Carries(m, p)
  <2>1. Rules(current_term[s], a) /\ Rules(current_term[s], s)
    BY <1>5 DEF Rules
  <2>2. a = s
    BY <1>0, <1>1, <2>1 DEF OneReign
  <2>3. m \in Message /\ Copies(m, log[s])
    BY <1>0, <1>5, <2>2 DEF LeaderSends
  <2>4. Len(p) <= Reach(m)
    BY <1>2, <1>5, <2>2
  <2> QED BY <1>0, <1>5, <2>3, <2>4 DEF CarryCopies
<1>6. ASSUME NEW c \in Servers, current_term[c] > Top(p), Grant(q, current_term[c], c)
      PROVE  FALSE
  <2>1. current_term[c] \in Nat
    BY <1>0 DEF TypeOK
  <2>2. current_term[c] <= current_term[q]
    BY <1>0, <1>6, <2>1 DEF VoteKept
  <2> QED BY <1>1, <1>3, <1>6, <2>1, <2>2
<1>7. Guards(q, p)
  <2>1. Top(p) <= current_term[q]
    BY <1>1, <1>3
  <2> QED BY <1>4, <1>5, <2>1 DEF Guards
<1>8. Backs(q, p)
  BY <1>6 DEF Backs
<1> QED BY <1>7, <1>8

\* While no majority has left the term there is nothing of a later one.
Unopposed ==
    \A s \in Servers : \A p \in Prefix : \A Q \in SUBSET Servers :
        /\ state[s] = "leader" /\ Has(log[s], p) /\ Top(p) = current_term[s]
        /\ Majority(Q) /\ \A q \in Q : current_term[q] <= current_term[s]
        => Pinned(p)

LEMMA UnopposedHold == BaseInv => Unopposed
<1> SUFFICES ASSUME BaseInv, NEW s \in Servers, NEW p \in Prefix, NEW Q \in SUBSET Servers,
                    state[s] = "leader", Has(log[s], p), Top(p) = current_term[s],
                    Majority(Q), \A q \in Q : current_term[q] <= current_term[s]
             PROVE  Pinned(p)
  BY DEF Unopposed
<1>0. TypeOK /\ OneReign /\ ElectionSafety
  BY BaseFacts
<1>1. Top(p) \in Nat
  BY PrefixType
<1>2. ASSUME NEW t \in Nat, t > Top(p), HasEntry(t) \/ \E a \in Servers : Rules(t, a)
      PROVE  FALSE
  <2>1. PICK L \in Servers : Led(t, L)
    BY <1>0, <1>2 DEF OneReign
  <2>2. PICK R \in SUBSET Servers :
          Cardinality(Servers) < 2 * Cardinality(R) /\ \A k \in R : Settled(k, t, L)
    BY <2>1 DEF Led
  <2>3. PICK k \in Q : k \in R
    BY <2>2, MajoritiesMeet DEF Majority
  <2>4. t <= current_term[k] /\ current_term[k] <= Top(p)
    BY <2>2, <2>3 DEF Settled
  <2>5. current_term[k] \in Nat
    BY <1>0, <2>3 DEF TypeOK
  <2> QED BY <1>1, <1>2, <2>4, <2>5
<1>3. ASSUME NEW r \in Servers, NEW k \in 1..Len(log[r]), log[r][k].term > Top(p)
      PROVE  Has(log[r], p)
  <2>1. log[r] \in Seq(Entry)
    BY <1>0 DEF TypeOK
  <2>2. log[r][k].term \in Nat /\ k \in Nat
    BY <2>1, SeqEntries
  <2>3. Occurs(k, log[r][k], IF k = 1 THEN 0 ELSE log[r][k - 1].term)
    BY LogOccurs
  <2>4. HasEntry(log[r][k].term)
    BY <2>2, <2>3 DEF HasEntry
  <2> QED BY <1>2, <1>3, <2>2, <2>4
<1>4. ASSUME NEW r \in Servers, state[r] = "leader", current_term[r] >= Top(p)
      PROVE  Has(log[r], p)
  <2>1. current_term[r] \in Nat /\ Rules(current_term[r], r)
    BY <1>0, <1>4 DEF TypeOK, Rules
  <2>2. CASE current_term[r] = Top(p)
    BY <1>0, <1>4, <2>2 DEF ElectionSafety
  <2>3. CASE current_term[r] # Top(p)
    <3>1. current_term[r] > Top(p)
      BY <1>1, <1>4, <2>1, <2>3
    <3> QED BY <1>2, <2>1, <3>1
  <2> QED BY <2>2, <2>3
<1>5. ASSUME NEW a \in Servers, NEW b \in Servers, NEW m, In(net[a][b], m),
             m.type = "appendentries", m.term > Top(p)
      PROVE  Carries(m, p)
  <2>1. m \in Message
    <3>1. net[a][b] \in Seq(Message)
      BY <1>0 DEF TypeOK
    <3> QED BY <1>5, <3>1, ElementOfSeq DEF In
  <2>2. m.term \in Nat /\ Rules(m.term, a)
    BY <1>5, <2>1, MessageTerm DEF Rules
  <2> QED BY <1>2, <1>5, <2>2
<1> QED BY <1>3, <1>4, <1>5 DEF Pinned

LEMMA ChoiceFactsNext ==
    ASSUME BaseInv'
    PROVE  AckGuards' /\ Unopposed'
BY AckGuardsHold, UnopposedHold, PTL

LEMMA ChoiceKept ==
    ASSUME BaseInv, BaseInv', ChoiceInv, NEW i \in Servers, Move(i)
    PROVE  ChoiceInv'
<1>0. /\ TypeOK /\ TypeOK' /\ AcksToLeader /\ LogInv /\ AckGuards' /\ Unopposed' /\ AckSafe
  BY BaseFacts, BaseFactsNext, ChoiceFactsNext DEF BaseInv
<1> SUFFICES ASSUME NEW s \in Servers, state'[s] = "leader", NEW p \in Prefix, Has(log'[s], p),
                    Top(p) = current_term'[s], Open(s, Len(p))'
             PROVE  /\ Pinned(p)'
                    /\ \A q \in Servers \ {s} : Acked(s, q, Len(p))' =>
                          Guards(q, p)' /\ Backs(q, p)'
  BY DEF ChoiceInv
<1> DEFINE y == Len(p)
<1>1. /\ y \in Nat /\ y > 0 /\ y \in 1..Len(p) /\ Top(p) \in Nat
      /\ Len(log[s]) \in Nat /\ Len(log'[s]) \in Nat
  BY <1>0, PrefixType, LenProperties DEF TypeOK
<1>2. y \in 1..Len(log'[s]) /\ log'[s][y].term = Top(p)
  BY <1>1 DEF Has, Top
<1>3. state[s] = "leader" /\ current_term'[s] = current_term[s]
  <2>1. ASSUME s = i, NewReign(i), log'[i] = log[i], current_term'[i] = current_term[i]
        PROVE  FALSE
    <3>1. Occurs(y, log[i][y], IF y = 1 THEN 0 ELSE log[i][y - 1].term)
      BY <1>2, <2>1, LogOccurs
    <3>2. log[i][y].term = current_term'[i]
      BY <1>2, <2>1
    <3> HIDE DEF y
    <3>3. HasEntry(current_term'[i])
      BY <1>1, <3>1, <3>2 DEF HasEntry
    <3> QED BY <2>1, <3>3 DEF NewReign
  <2> QED BY <2>1, LeaderStays
<1>4. PICK Q \in SUBSET Servers :
        /\ Majority(Q)
        /\ \A q \in Q \ {s} : current_term'[q] <= current_term'[s] \/ Acked(s, q, y)'
  BY DEF Open, Majority
<1>5. /\ Len(log[s]) <= Len(log'[s]) /\ \A k \in 1..Len(log[s]) : log'[s][k] = log[s][k]
  BY <1>0, LeaderGrows
<1>6. ASSUME NEW q \in Servers \ {s}, Acked(s, q, y)'
      PROVE  \/ Acked(s, q, y)
             \/ q = i /\ current_term'[q] = current_term[s]
  <2>1. \/ Acked(s, q, y)
        \/ q = i /\ \E m : TookOver(i, s, m) /\ m.term = current_term[s] /\ y <= Reach(m)
    <3> HIDE DEF y
    <3> QED BY <1>0, <1>1, <1>6, AckedMove
  <2> QED BY <2>1 DEF TookOver, Took
<1> HIDE DEF y
<1>7. CASE y <= Len(log[s])
  <2>1. Has(log[s], p)
    <3>1. \A k \in 1..Len(p) : k \in 1..Len(log[s])
      BY <1>1, <1>7 DEF y
    <3> QED BY <1>5, <1>7, <3>1 DEF Has, y
  <2>2. ASSUME NEW q \in Q \ {s}
        PROVE  current_term[q] <= current_term[s] \/ Acked(s, q, y)
    <3>1. /\ current_term[q] \in Nat /\ current_term'[q] \in Nat
          /\ current_term[q] <= current_term'[q] /\ current_term[s] \in Nat
      BY <1>0, <2>2, TermsGrow
    <3>2. CASE current_term'[q] <= current_term'[s]
      BY <1>3, <3>1, <3>2
    <3>3. CASE Acked(s, q, y)'
      BY <1>6, <3>1, <3>3
    <3> QED BY <1>4, <3>2, <3>3
  <2>3. Open(s, Len(p))
    BY <1>4, <2>2 DEF Open, y
  <2>4. /\ Pinned(p)
        /\ \A q \in Servers \ {s} : Acked(s, q, y) => Guards(q, p) /\ Backs(q, p)
    BY <1>3, <2>1, <2>3 DEF ChoiceInv, y
  <2>5. \A q \in Q : current_term[q] > Top(p) => Backs(q, p)
    <3> TAKE q \in Q
    <3>1. current_term[q] \in Nat /\ current_term[s] \in Nat
      BY <1>0 DEF TypeOK
    <3>2. current_term[q] > Top(p) => q \in Q \ {s} /\ ~(current_term[q] <= current_term[s])
      BY <1>1, <1>3, <3>1
    <3> QED BY <2>2, <2>4, <3>2
  <2>6. Pinned(p)'
    BY <1>4, <2>1, <2>4, <2>5, PinnedKept
  <2>7. ASSUME NEW q \in Servers \ {s}, Acked(s, q, y)'
        PROVE  Guards(q, p)' /\ Backs(q, p)'
    <3>1. CASE Acked(s, q, y)
      BY <2>4, <2>6, <3>1, GuardsKept, BacksKept
    <3>2. CASE current_term'[q] = current_term[s]
      <4>1. current_term'[q] <= current_term'[s]
        BY <1>0, <1>3, <3>2 DEF TypeOK
      <4> QED BY <1>0, <2>7, <4>1 DEF AckGuards, y
    <3> QED BY <1>6, <2>7, <3>1, <3>2
  <2> QED BY <2>6, <2>7 DEF y
<1>8. CASE ~(y <= Len(log[s]))
  <2>1. s = i
    <3>1. log'[s] # log[s]
      BY <1>1, <1>2, <1>8
    <3> QED BY <1>0, <3>1, TermsGrow
  <2>2. ASSUME NEW q \in Servers \ {s}, Acked(s, q, y)' PROVE FALSE
    <3>1. Acked(s, q, y)
      BY <1>6, <2>1, <2>2
    <3> QED BY <1>0, <1>1, <1>3, <1>8, <3>1 DEF AckSafe
  <2>3. \A q \in Q : current_term'[q] <= current_term'[s]
    <3> TAKE q \in Q
    <3>1. CASE q = s
      <4>1. current_term'[s] \in Nat
        BY <1>0 DEF TypeOK
      <4> QED BY <3>1, <4>1
    <3>2. CASE q # s
      <4>1. q \in Q \ {s} /\ q \in Servers \ {s}
        BY <3>2
      <4>2. current_term'[q] <= current_term'[s] \/ Acked(s, q, y)'
        BY <1>4, <4>1
      <4> QED BY <2>2, <4>1, <4>2
    <3> QED BY <3>1, <3>2
  <2>4. Majority(Q)'
    BY <1>4 DEF Majority
  <2>5. Pinned(p)'
    BY <1>0, <2>3, <2>4 DEF Unopposed
  <2> QED BY <2>2, <2>5 DEF y
<1> QED BY <1>7, <1>8
-----------------------------------------------------------------------------
\* Counting.  Enough followers that hold an entry of the leader's term fix the
\* log up to the least of them.
CountFixes ==
    \A s \in Servers : \A H \in SUBSET Servers : \A c \in Nat :
        /\ state[s] = "leader" /\ s \notin H /\ Majority(H \cup {s})
        /\ \A k \in H : /\ c <= match_idx[s][k] /\ match_idx[s][k] > 0
                        /\ TermAt(log[s], match_idx[s][k]) = current_term[s]
        => \E p \in Prefix : Fixed(p) /\ c <= Len(p) /\ Guards(s, p)

LEMMA CountFixesHold == BaseInv /\ ChoiceInv => CountFixes
<1> SUFFICES ASSUME BaseInv, ChoiceInv, NEW s \in Servers, NEW H \in SUBSET Servers, NEW c \in Nat,
                    state[s] = "leader", s \notin H, Majority(H \cup {s}),
                    \A k \in H : /\ c <= match_idx[s][k] /\ match_idx[s][k] > 0
                                 /\ TermAt(log[s], match_idx[s][k]) = current_term[s]
             PROVE  \E p \in Prefix : Fixed(p) /\ c <= Len(p) /\ Guards(s, p)
  BY DEF CountFixes
<1>0. /\ TypeOK /\ OneReign /\ NoSelf /\ VoteKept /\ NotAlone /\ AckSafe
  BY BaseFacts DEF BaseInv
<1>1. PICK h \in H : \A k \in H : match_idx[s][h] <= match_idx[s][k]
  <2>1. H # {}
    <3>1. ASSUME H = {} PROVE FALSE
      <4>1. H \cup {s} = {s} /\ Cardinality({s}) = 1
        BY <3>1, FS_Singleton
      <4>2. Cardinality(Servers) < 2 * Cardinality({s})
        BY <4>1 DEF Majority
      <4>3. Cardinality(Servers) < 2
        BY <4>1, <4>2
      <4>4. Cardinality(Servers) > 1
        BY <1>0 DEF NotAlone, InOffice
      <4>5. Cardinality(Servers) \in Nat
        BY RaftAssumption, FS_CardinalityType
      <4> QED BY <4>3, <4>4, <4>5
    <3> QED BY <3>1
  <2> DEFINE V == {match_idx[s][k] : k \in H}
  <2>2. V \in SUBSET Nat /\ V # {}
    <3>1. ASSUME NEW k \in H PROVE match_idx[s][k] \in Nat
      <4>1. k \in Servers
        OBVIOUS
      <4> QED BY <1>0, <4>1 DEF TypeOK
    <3> QED BY <2>1, <3>1
  <2>3. PICK v \in V : \A w \in V : v <= w
    BY <2>2, NatMin
  <2> QED BY <2>3
<1> DEFINE y == match_idx[s][h]
<1>2. y \in Nat /\ y > 0 /\ c <= y /\ h \in Servers \ {s}
  BY <1>0 DEF TypeOK
<1>3. log[s] \in Seq(Entry) /\ Len(log[s]) \in Nat /\ current_term[s] \in Nat
  BY <1>0, LenProperties DEF TypeOK
<1>4. y \in 1..Len(log[s]) /\ log[s][y].term = current_term[s]
  <2>1. Acked(s, h, y)
    BY <1>2 DEF Acked
  <2>2. y <= Len(log[s])
    BY <1>0, <1>2, <2>1 DEF AckSafe
  <2>3. y \in 1..Len(log[s])
    BY <1>2, <1>3, <2>2
  <2> QED BY <2>3 DEF TermAt
<1> HIDE DEF y
<1> DEFINE p == SubSeq(log[s], 1, y)
<1>5. p \in Prefix /\ Len(p) = y /\ Has(log[s], p) /\ Top(p) = current_term[s]
  BY <1>3, <1>4, PrefixOf
<1> HIDE DEF p
<1>6. ASSUME NEW q \in H
      PROVE  q \in Servers \ {s} /\ Acked(s, q, y)
  BY <1>1 DEF Acked, y
<1>7. Open(s, Len(p))
  <2>1. H \cup {s} \in SUBSET Servers /\ \A q \in (H \cup {s}) \ {s} : q \in H
    OBVIOUS
  <2> QED BY <1>5, <1>6, <2>1 DEF Open
<1>8. Pinned(p) /\ \A q \in H : Guards(q, p) /\ Backs(q, p)
  BY <1>5, <1>6, <1>7 DEF ChoiceInv
<1>9. Guards(s, p)
  <2>1. ASSUME NEW a \in Servers, NEW m, In(net[a][s], m), m.type = "appendentries",
               m.term = current_term[s]
        PROVE  FALSE
    <3>1. Rules(current_term[s], a) /\ Rules(current_term[s], s)
      BY <2>1 DEF Rules
    <3>2. a = s
      BY <1>0, <1>3, <3>1 DEF OneReign
    <3> QED BY <1>0, <2>1, <3>2 DEF NoSelf
  <2>2. Top(p) <= current_term[s]
    BY <1>3, <1>5
  <2> QED BY <1>5, <2>1, <2>2 DEF Guards
<1>10. Backs(s, p)
  <2>1. ASSUME NEW b \in Servers, current_term[b] > Top(p), Grant(s, current_term[b], b)
        PROVE  FALSE
    <3>1. current_term[b] \in Nat
      BY <1>0 DEF TypeOK
    <3>2. current_term[b] <= current_term[s]
      BY <1>0, <2>1, <3>1 DEF VoteKept
    <3> QED BY <1>3, <1>5, <2>1, <3>1, <3>2
  <2> QED BY <2>1 DEF Backs
<1>11. Fixed(p)
  <2>1. H \cup {s} \in SUBSET Servers /\ Majority(H \cup {s})
        /\ \A q \in H \cup {s} : Guards(q, p) /\ Backs(q, p)
    BY <1>8, <1>9, <1>10
  <2> QED BY <1>8, <2>1 DEF Fixed
<1> QED BY <1>2, <1>5, <1>9, <1>11

LEMMA CountFixesNext ==
    ASSUME BaseInv', ChoiceInv'
    PROVE  CountFixes'
BY CountFixesHold, PTL

\* What a server holds as committed, and what a message says is committed, is
\* fixed, and no message takes it away.
CommitKept ==
    \A j \in Servers : commit_idx[j] > 0 =>
        \E p \in Prefix : Fixed(p) /\ commit_idx[j] <= Len(p) /\ Guards(j, p)
Tells(m, p) == m.leader_commit <= Len(p) /\ Top(p) <= m.term /\ Carries(m, p)
CommitSent ==
    \A a, b \in Servers : \A m :
        In(net[a][b], m) /\ m.type = "appendentries" /\ m.leader_commit > 0 =>
            \E p \in Prefix :
                /\ Fixed(p) /\ Tells(m, p)
                /\ \A n : /\ Later(net[a][b], m, n) /\ n.type = "appendentries"
                          /\ n.term = m.term
                      => Carries(n, p)

LEMMA FixedHeld ==
    ASSUME NEW p, Fixed(p)
    PROVE  \E r \in Servers : Has(log[r], p)
<1>1. PICK Q \in SUBSET Servers : Majority(Q) /\ \A q \in Q : Guards(q, p)
  BY DEF Fixed
<1>2. PICK k \in Q : k \in Q
  BY <1>1, MajoritiesMeet DEF Majority
<1> QED BY <1>1, <1>2 DEF Guards

LEMMA TakenCommit ==
    ASSUME BaseInv, BaseInv', CommitSent, NEW i \in Servers, Move(i), NEW j \in Servers, NEW m,
           TookOver(i, j, m), m.leader_commit > 0
    PROVE  \E p \in Prefix : Fixed(p)' /\ m.leader_commit <= Len(p) /\ Guards(i, p)'
<1>0. TypeOK /\ OneReign
  BY BaseFacts
<1>1. /\ In(net[j][i], m) /\ m \in Message /\ m.type = "appendentries"
      /\ m.term = current_term'[i] /\ \A x : In(net'[j][i], x) => Later(net[j][i], m, x)
  BY DEF TookOver, Took
<1>2. PICK p \in Prefix :
        /\ Fixed(p) /\ Tells(m, p)
        /\ \A n : Later(net[j][i], m, n) /\ n.type = "appendentries" /\ n.term = m.term
             => Carries(n, p)
  BY <1>1 DEF CommitSent
<1>3. Has(log'[i], p)
  <2>1. PICK r \in Servers : Has(log[r], p)
    BY <1>2, FixedHeld
  <2>2. Pinned(p) /\ Carries(m, p)
    BY <1>2 DEF Fixed, Tells
  <2> QED BY <2>1, <2>2, CarriedTaken
<1>4. ASSUME NEW a \in Servers, NEW n, In(net'[a][i], n), n.type = "appendentries",
             n.term = m.term
      PROVE  Carries(n, p)
  <2>1. In(net[a][i], n)
    BY <1>4 DEF Move, SendMove, IsNew
  <2>2. m.term \in Nat
    BY <1>1, MessageTerm
  <2>3. Rules(m.term, a) /\ Rules(m.term, j)
    BY <1>1, <1>4, <2>1 DEF Rules
  <2>4. a = j
    BY <1>0, <2>2, <2>3 DEF OneReign
  <2> QED BY <1>1, <1>2, <1>4, <2>4
<1>5. Guards(i, p)'
  <2>1. Top(p) <= current_term'[i]
    BY <1>1, <1>2 DEF Tells
  <2>2. current_term'[i] = Top(p) =>
          \A a \in Servers : \A n :
             In(net'[a][i], n) /\ n.type = "appendentries" /\ n.term = Top(p) => Carries(n, p)
    BY <1>1, <1>4
  <2> QED BY <1>3, <2>1, <2>2 DEF Guards
<1>6. Fixed(p)'
  BY <1>2, FixedKept
<1> QED BY <1>2, <1>5, <1>6 DEF Tells

LEMMA CommitKeptKept ==
    ASSUME BaseInv, BaseInv', ChoiceInv', CommitKept, CommitSent, NEW i \in Servers, Move(i)
    PROVE  CommitKept'
<1>0. TypeOK /\ TypeOK' /\ CountFixes'
  BY BaseFacts, BaseFactsNext, CountFixesNext
<1> SUFFICES ASSUME NEW j \in Servers, commit_idx'[j] > 0
             PROVE  \E p \in Prefix : Fixed(p)' /\ commit_idx'[j] <= Len(p) /\ Guards(j, p)'
  BY DEF CommitKept
<1>1. commit_idx[j] \in Nat /\ commit_idx'[j] \in Nat
  BY <1>0 DEF TypeOK
<1>2. CASE commit_idx'[j] <= commit_idx[j]
  <2>1. commit_idx[j] > 0
    BY <1>1, <1>2
  <2>2. PICK p \in Prefix : Fixed(p) /\ commit_idx[j] <= Len(p) /\ Guards(j, p)
    BY <2>1 DEF CommitKept
  <2>3. Fixed(p)'
    BY <2>2, FixedKept
  <2>4. Pinned(p) /\ Pinned(p)'
    BY <2>2, <2>3 DEF Fixed
  <2>5. Guards(j, p)'
    BY <2>2, <2>4, GuardsKept
  <2>6. Len(p) \in Nat
    BY PrefixType
  <2>7. commit_idx'[j] <= Len(p)
    BY <1>1, <1>2, <2>2, <2>6
  <2> QED BY <2>3, <2>5, <2>7
<1>3. CASE ~(commit_idx'[j] <= commit_idx[j])
  <2>1. j = i
    BY <1>1, <1>3 DEF Move, OthersKept
  <2>2. CASE \E k \in Servers : \E m : TookOver(i, k, m) /\ commit_idx'[i] <= m.leader_commit
    <3>0. PICK k \in Servers : \E m : TookOver(i, k, m) /\ commit_idx'[i] <= m.leader_commit
      BY <2>2
    <3>1. PICK m : TookOver(i, k, m) /\ commit_idx'[i] <= m.leader_commit
      BY <3>0
    <3>2. m.leader_commit \in Nat
      BY <3>1, MessageReach DEF TookOver, Took
    <3>3. m.leader_commit > 0
      BY <1>1, <2>1, <3>1, <3>2
    <3>4. PICK p \in Prefix : Fixed(p)' /\ m.leader_commit <= Len(p) /\ Guards(i, p)'
      BY <3>1, <3>3, TakenCommit
    <3>5. Len(p) \in Nat
      BY PrefixType
    <3>6. commit_idx'[j] <= Len(p)
      BY <1>1, <2>1, <3>1, <3>2, <3>4, <3>5
    <3> QED BY <2>1, <3>4, <3>6
  <2>3. CASE Counted(i)
    <3>1. PICK H \in SUBSET Servers :
            /\ i \notin H /\ Majority(H \cup {i})
            /\ \A k \in H : /\ commit_idx'[i] <= match_idx'[i][k] /\ match_idx'[i][k] > 0
                            /\ TermAt(log'[i], match_idx'[i][k]) = current_term'[i]
      BY <2>3 DEF Counted
    <3>2. state'[i] = "leader"
      BY <2>3 DEF Counted
    <3>3. commit_idx'[i] \in Nat
      BY <1>1, <2>1
    <3>4. \A c \in Nat : (\A k \in H : /\ c <= match_idx'[i][k] /\ match_idx'[i][k] > 0
                            /\ TermAt(log'[i], match_idx'[i][k]) = current_term'[i])
            => \E p \in Prefix : Fixed(p)' /\ c <= Len(p) /\ Guards(i, p)'
      BY <1>0, <3>1, <3>2 DEF CountFixes, Majority
    <3> QED BY <2>1, <3>1, <3>3, <3>4
  <2> QED BY <1>3, <2>1, <2>2, <2>3 DEF Move, CommitMove
<1> QED BY <1>2, <1>3

LEMMA CommitSentKept ==
    ASSUME BaseInv, BaseInv', CommitKept', CommitSent, NEW i \in Servers, Move(i)
    PROVE  CommitSent'
<1>0. TypeOK'
  BY BaseFactsNext
<1> SUFFICES ASSUME NEW a \in Servers, NEW b \in Servers, NEW m, In(net'[a][b], m),
                    m.type = "appendentries", m.leader_commit > 0
             PROVE  \E p \in Prefix :
                       /\ Fixed(p)' /\ Tells(m, p)
                       /\ \A n : /\ Later(net'[a][b], m, n) /\ n.type = "appendentries"
                                 /\ n.term = m.term
                             => Carries(n, p)
  BY DEF CommitSent
<1>1. \A n : Later(net'[a][b], m, n) =>
        Later(net[a][b], m, n) \/ (a = i /\ In(net[a][b], m) /\ IsNew(i, b, n))
  BY DEF Move, SendMove
<1>2. CASE In(net[a][b], m)
  <2>1. PICK p \in Prefix :
          /\ Fixed(p) /\ Tells(m, p)
          /\ \A n : /\ Later(net[a][b], m, n) /\ n.type = "appendentries" /\ n.term = m.term
                => Carries(n, p)
    BY <1>2 DEF CommitSent
  <2>2. Fixed(p)'
    BY <2>1, FixedKept
  <2>3. ASSUME NEW n, a = i, IsNew(i, b, n), n.type = "appendentries", n.term = m.term
        PROVE  Carries(n, p)
    <3>1. state'[i] = "leader" /\ current_term'[i] = m.term
      BY <2>3 DEF IsNew, FromLog
    <3>2. current_term'[i] \in Nat /\ Top(p) \in Nat
      BY <1>0, PrefixType DEF TypeOK
    <3>3. current_term'[i] >= Top(p)
      BY <2>1, <3>1, <3>2 DEF Tells
    <3>4. Has(log'[i], p)
      BY <2>2, <3>1, <3>3 DEF Fixed, Pinned
    <3> QED BY <2>3, <3>4, NewCarries
  <2> QED BY <1>1, <2>1, <2>2, <2>3
<1>3. CASE ~In(net[a][b], m)
  <2>1. a = i /\ IsNew(i, b, m)
    BY <1>3 DEF Move, SendMove
  <2>2. m.leader_commit = commit_idx'[i] /\ m.term = current_term'[i]
    BY <2>1 DEF IsNew, FromLog
  <2>3. PICK p \in Prefix : Fixed(p)' /\ commit_idx'[i] <= Len(p) /\ Guards(i, p)'
    BY <2>2 DEF CommitKept
  <2>4. Top(p) <= m.term /\ Has(log'[i], p)
    BY <2>2, <2>3 DEF Guards
  <2>5. Tells(m, p)
    BY <2>1, <2>2, <2>3, <2>4, NewCarries DEF Tells
  <2>6. ASSUME NEW n, Later(net'[a][b], m, n) PROVE FALSE
    BY <1>1, <1>3, <2>6 DEF Later, In
  <2> QED BY <2>3, <2>5, <2>6
<1> QED BY <1>2, <1>3

-----------------------------------------------------------------------------
\* The inductive invariant for the commit rule.  CommittedAgree and LeaderComplete
\* say nothing of the acknowledgements, votes and entries that are on the way, by
\* which a later leader is chosen and a follower's log is changed: BaseInv says
\* what these may contain, ChoiceInv that the acknowledged part of a leader's log
\* binds the majority it is still to be counted from, CommitKept and CommitSent
\* that whatever is called committed has been counted so.
RaftInv == BaseInv /\ ChoiceInv /\ CommitKept /\ CommitSent

LEMMA RaftInvKept ==
    ASSUME RaftInv, LogInv', NEW i \in Servers, Move(i)
    PROVE  RaftInv'
<1>1. BaseInv /\ LogInv /\ TermInv /\ AskInv /\ SendInv /\ AckSafe /\ TypeOK /\ TypeOK'
  BY DEF RaftInv, BaseInv, LogInv, ElectionInv
<1>2. TermInv' /\ AskInv' /\ SendInv'
  BY <1>1, TermInvKept, AskInvKept, SendInvKept
<1>3. LogFacts'
  BY <1>2, LogFactsHoldNext
<1>4. AckSafe'
  BY <1>1, <1>2, <1>3, AckSafeKept
<1>5. BaseInv'
  BY <1>2, <1>4 DEF BaseInv
<1>6. ChoiceInv'
  BY <1>5, ChoiceKept DEF RaftInv
<1>7. CommitKept'
  BY <1>5, <1>6, CommitKeptKept DEF RaftInv
<1>8. CommitSent'
  BY <1>5, <1>7, CommitSentKept DEF RaftInv
<1> QED BY <1>5, <1>6, <1>7, <1>8 DEF RaftInv

\* What it says of the states.
LEMMA CommittedHeld ==
    ASSUME RaftInv, NEW j \in Servers, commit_idx[j] > 0
    PROVE  \E p \in Prefix : /\ Fixed(p) /\ commit_idx[j] <= Len(p) /\ Guards(j, p)
                             /\ \A k \in 1..commit_idx[j] : k \in 1..Len(p) /\ log[j][k] = p[k]
<1>1. PICK p \in Prefix : Fixed(p) /\ commit_idx[j] <= Len(p) /\ Guards(j, p)
  BY DEF RaftInv, CommitKept
<1>2. commit_idx[j] \in Nat /\ Len(p) \in Nat
  BY BaseFacts, PrefixType DEF RaftInv, TypeOK
<1>3. \A k \in 1..commit_idx[j] : k \in 1..Len(p) /\ log[j][k] = p[k]
  BY <1>1, <1>2 DEF Guards, Has
<1> QED BY <1>1, <1>3

LEMMA InvComplete == RaftInv => LeaderComplete
<1> SUFFICES ASSUME RaftInv, NEW i \in Servers, NEW j \in Servers, state[i] = "leader",
                    current_term[j] <= current_term[i]
             PROVE  /\ commit_idx[j] <= Len(log[i])
                    /\ \A k \in 1..commit_idx[j] : log[i][k] = log[j][k]
  BY DEF LeaderComplete
<1>1. /\ current_term[i] \in Nat /\ current_term[j] \in Nat /\ commit_idx[j] \in Nat
      /\ log[i] \in Seq(Entry)
  BY BaseFacts DEF RaftInv, TypeOK
<1>2. Len(log[i]) \in Nat
  BY <1>1, LenProperties
<1>3. CASE commit_idx[j] = 0
  BY <1>2, <1>3
<1>4. CASE commit_idx[j] > 0
  <2>1. PICK p \in Prefix : /\ Fixed(p) /\ commit_idx[j] <= Len(p) /\ Guards(j, p)
               /\ \A k \in 1..commit_idx[j] : k \in 1..Len(p) /\ log[j][k] = p[k]
    BY <1>4, CommittedHeld
  <2>2. Len(p) \in Nat /\ Top(p) \in Nat
    BY PrefixType
  <2>3. Top(p) <= current_term[i]
    BY <1>1, <2>1, <2>2 DEF Guards
  <2>4. Has(log[i], p)
    BY <1>1, <2>1, <2>2, <2>3 DEF Fixed, Pinned
  <2> QED BY <1>1, <1>2, <2>1, <2>2, <2>4 DEF Has
<1> QED BY <1>1, <1>3, <1>4

LEMMA CommitsMeet ==
    ASSUME RaftInv, NEW i \in Servers, NEW j \in Servers, NEW p \in Prefix, NEW q \in Prefix,
           Fixed(p), Has(log[i], p), Has(log[j], q),
           Top(p) < Top(q) \/ (Top(p) = Top(q) /\ Len(p) <= Len(q))
    PROVE  Has(log[j], p)
<1>1. TypeOK /\ PrefixesRun
  BY BaseFacts DEF RaftInv
<1>2. Len(q) \in Nat /\ Len(q) \in 1..Len(q) /\ Top(q) \in Nat /\ Top(p) \in Nat
  BY PrefixType
<1>3. Len(log[j]) \in Nat
  BY <1>1, LenProperties DEF TypeOK
<1>4. Len(q) \in 1..Len(log[j]) /\ log[j][Len(q)].term = Top(q)
  BY <1>2, <1>3 DEF Has, Top
<1>5. CASE Top(p) < Top(q)
  <2>1. log[j][Len(q)].term > Top(p)
    BY <1>2, <1>4, <1>5
  <2> QED BY <1>4, <2>1 DEF Fixed, Pinned
<1>6. CASE Top(p) = Top(q) /\ Len(p) <= Len(q)
  BY <1>1, <1>4, <1>6 DEF PrefixesRun
<1> QED BY <1>5, <1>6

LEMMA InvAgree == RaftInv => CommittedAgree
<1> SUFFICES ASSUME RaftInv, NEW i \in Servers, NEW j \in Servers,
                    NEW k \in 1..MinOf(commit_idx[i], commit_idx[j])
             PROVE  log[i][k] = log[j][k]
  BY DEF CommittedAgree
<1>1. commit_idx[i] \in Nat /\ commit_idx[j] \in Nat
  BY BaseFacts DEF RaftInv, TypeOK
<1>2. /\ k \in 1..commit_idx[i] /\ k \in 1..commit_idx[j]
      /\ commit_idx[i] > 0 /\ commit_idx[j] > 0
  BY <1>1 DEF MinOf
<1>3. PICK p \in Prefix : /\ Fixed(p) /\ Guards(i, p)
             /\ \A n \in 1..commit_idx[i] : n \in 1..Len(p) /\ log[i][n] = p[n]
  BY <1>2, CommittedHeld
<1>4. PICK q \in Prefix : /\ Fixed(q) /\ Guards(j, q)
             /\ \A n \in 1..commit_idx[j] : n \in 1..Len(q) /\ log[j][n] = q[n]
  BY <1>2, CommittedHeld
<1>5. Has(log[i], p) /\ Has(log[j], q)
  BY <1>3, <1>4 DEF Guards
<1>6. /\ k \in 1..Len(p) /\ log[i][k] = p[k] /\ k \in 1..Len(q) /\ log[j][k] = q[k]
  BY <1>2, <1>3, <1>4
<1>7. Top(p) \in Nat /\ Top(q) \in Nat /\ Len(p) \in Nat /\ Len(q) \in Nat
  BY PrefixType
<1>8. CASE Top(p) < Top(q) \/ (Top(p) = Top(q) /\ Len(p) <= Len(q))
  <2>1. Has(log[j], p)
    BY <1>3, <1>5, <1>8, CommitsMeet
  <2> QED BY <1>6, <2>1 DEF Has
<1>9. CASE Top(q) < Top(p) \/ (Top(q) = Top(p) /\ Len(q) <= Len(p))
  <2>1. Has(log[i], q)
    BY <1>4, <1>5, <1>9, CommitsMeet
  <2> QED BY <1>6, <2>1 DEF Has
<1> QED BY <1>7, <1>8, <1>9

LEMMA InvMatches == RaftInv => MatchHolds
BY BaseFacts, AckSafeMatches DEF RaftInv, BaseInv

-----------------------------------------------------------------------------
\* Every step is a move.  First what the actions have in common.
LEMMA SendMoves ==
    ASSUME NEW i \in Servers, NEW out, Keeps(i, out),
           \A b \in Servers : \A x : In(out[b], x) => IsNew(i, b, x)
    PROVE  SendMove(i)
BY DEF Keeps, SendMove

LEMMA QuietGrantMove ==
    ASSUME NEW i \in Servers, Quiet(i)
    PROVE  GrantMove(i)
BY QuietGrants DEF GrantMove

LEMMA QuietOffice ==
    ASSUME NotAlone, NEW i \in Servers, Quiet(i), state'[i] = "candidate" => log'[i] = log[i]
    PROVE  OfficeMove(i)
<1>1. InOffice(state'[i]) => state'[i] = state[i]
  BY DEF Quiet
<1>2. InOffice(state'[i]) => Cardinality(Servers) > 1
  BY <1>1 DEF NotAlone
<1>3. ~(state'[i] = "leader" /\ state[i] # "leader")
  BY <1>1 DEF InOffice
<1> QED BY <1>2, <1>3 DEF OfficeMove

LEMMA SameIndexes ==
    ASSUME NEW i \in Servers, match_idx'[i] = match_idx[i], next_idx'[i] = next_idx[i]
    PROVE  IndexMove(i)
BY DEF IndexMove, Acked

LEMMA Steady ==
    ASSUME TypeOK, NEW i \in Servers, UNCHANGED <<match_idx, next_idx, commit_idx>>
    PROVE  IndexMove(i) /\ CommitMove(i) /\ OthersKept(i)
<1>1. commit_idx[i] \in Nat /\ commit_idx'[i] = commit_idx[i]
  BY DEF TypeOK
<1>2. commit_idx'[i] <= commit_idx[i]
  BY <1>1
<1> QED BY <1>2, SameIndexes DEF CommitMove, OthersKept

\* What raft_send_appendentries sends.
LEMMA FromLogSent ==
    ASSUME NEW term \in Nat, NEW l \in Seq(Entry), NEW commit \in Nat,
           NEW next \in Nat \ {0}, next <= Len(l) + 1
    PROVE  LET x == Appendentries(term, l, commit, next) IN
           /\ x \in Message /\ x.type = "appendentries" /\ x.term = term
           /\ x.leader_commit = commit /\ Copies(x, l) /\ Reach(x) = Len(l)
<1> DEFINE x == Appendentries(term, l, commit, next)
<1>1. x \in Message /\ x.type = "appendentries"
  BY AppendentriesType
<1>2. /\ x.term = term /\ x.leader_commit = commit /\ x.prev_log_idx = next - 1
      /\ x.prev_log_term = TermAt(l, next - 1) /\ x.entries = SubSeq(l, next, Len(l))
  BY DEF Appendentries
<1>3. Len(l) \in Nat
  BY LenProperties
<1>4. /\ Len(SubSeq(l, next, Len(l))) = Len(l) - next + 1
      /\ \A k \in 1..(Len(l) - next + 1) : SubSeq(l, next, Len(l))[k] = l[next + k - 1]
  <2>1. CASE next <= Len(l)
    <3>1. /\ Len(SubSeq(l, next, Len(l))) = IF next <= Len(l) THEN Len(l) - next + 1 ELSE 0
          /\ \A k \in 1..(Len(l) - next + 1) : SubSeq(l, next, Len(l))[k] = l[next + k - 1]
      BY <1>3, <2>1, SubSeqProperties
    <3> QED BY <2>1, <3>1
  <2>2. CASE next = Len(l) + 1
    <3>1. SubSeq(l, next, Len(l)) = << >>
      BY <1>3, <2>2, SubSeqEmpty
    <3> QED BY <1>3, <2>2, <3>1, EmptySeq
  <2> QED BY <1>3, <2>1, <2>2
<1> HIDE DEF x
<1>5. Reach(x) = Len(l)
  BY <1>2, <1>3, <1>4 DEF Reach
<1>6. ASSUME NEW k \in 1..Len(x.entries)
      PROVE  x.entries[k] = l[x.prev_log_idx + k]
  <2>1. next + k - 1 = x.prev_log_idx + k /\ k \in 1..(Len(l) - next + 1)
    BY <1>2, <1>3, <1>4
  <2> QED BY <1>2, <1>4, <2>1
<1>7. ASSUME x.prev_log_idx > 0
      PROVE  x.prev_log_term = l[x.prev_log_idx].term
  <2>1. next - 1 \in 1..Len(l)
    BY <1>2, <1>3, <1>7
  <2> QED BY <1>2, <2>1 DEF TermAt
<1>8. Reach(x) <= Len(l)
  BY <1>3, <1>5
<1>9. Copies(x, l)
  BY <1>6, <1>7, <1>8 DEF Copies
<1> QED BY <1>1, <1>2, <1>5, <1>9 DEF x

LEMMA LeaderSendsNew ==
    ASSUME NEW i \in Servers, NEW b \in Servers, b # i, state'[i] = "leader",
           NEW t \in Nat, t = current_term'[i], NEW l \in Seq(Entry), l = log'[i],
           NEW c \in Nat, c = commit_idx'[i], NEW next \in Nat \ {0}, next <= Len(l) + 1
    PROVE  IsNew(i, b, Appendentries(t, l, c, next))
<1> DEFINE x == Appendentries(t, l, c, next)
<1>1. /\ x \in Message /\ x.type = "appendentries" /\ x.term = t
      /\ x.leader_commit = c /\ Copies(x, l) /\ Reach(x) = Len(l)
  BY FromLogSent
<1> HIDE DEF x
<1>2. FromLog(i, x)
  BY <1>1 DEF FromLog
<1> QED BY <1>1, <1>2 DEF IsNew, x

LEMMA ApplyIsMove ==
    ASSUME LogInv, NotAlone, NEW i \in Servers, raft_periodic_apply(i)
    PROVE  Move(i)
<1>1. /\ TypeOK /\ ElectionInv /\ log' = log /\ net' = net
      /\ UNCHANGED <<match_idx, next_idx, commit_idx>>
  BY DEF LogInv, ElectionInv, raft_periodic_apply, progressVars
<1>2. Quiet(i)
  BY <1>1, ApplyQuiet
<1>3. SendMove(i)
  BY <1>1 DEF SendMove
<1> QED BY <1>1, <1>2, <1>3, ApplyLogMove, QuietGrantMove, QuietOffice, Steady DEF Move, LogStep

LEMMA LeaderIsMove ==
    ASSUME LogInv, NotAlone, NextInLog, NEW i \in Servers, raft_periodic_leader(i)
    PROVE  Move(i)
<1> DEFINE out == raft_send_appendentries_all(i)
<1>1. /\ TypeOK /\ ElectionInv
  BY DEF LogInv, ElectionInv
<1>2. /\ log' = log /\ net' = Sent(net, i, out) /\ state[i] = "leader" /\ state' = state
      /\ current_term' = current_term /\ UNCHANGED <<match_idx, next_idx, commit_idx>>
  BY DEF raft_periodic_leader, progressVars, electionVars
<1>3. Quiet(i)
  BY <1>1, LeaderQuiet
<1>4. /\ log[i] \in Seq(Entry) /\ current_term[i] \in Nat /\ commit_idx[i] \in Nat
      /\ \A b \in Servers : next_idx[i][b] \in Nat \ {0}
  BY <1>1 DEF TypeOK
<1>5. ASSUME NEW b \in Servers, NEW x, In(out[b], x)
      PROVE  IsNew(i, b, x)
  <2> DEFINE m == Appendentries(current_term[i], log[i], commit_idx[i], next_idx[i][b])
  <2>1. out[b] = IF b = i THEN << >> ELSE <<m>>
    BY DEF raft_send_appendentries_all
  <2>2. m \in Message
    BY <1>4, AppendentriesType
  <2> HIDE DEF m, out
  <2>3. b # i
    BY <1>5, <2>1, EmptyChannel
  <2>4. x = m
    BY <1>5, <2>1, <2>2, <2>3, OneMessage
  <2>5. next_idx[i][b] <= Len(log[i]) + 1
    BY <1>2, <2>3 DEF NextInLog
  <2>6. IsNew(i, b, m)
    BY <1>2, <1>4, <2>3, <2>5, LeaderSendsNew DEF m
  <2> QED BY <2>4, <2>6
<1>6. out \in OutType
  BY <1>1, SendAllType
<1> HIDE DEF out
<1>7. SendMove(i)
  BY <1>1, <1>2, <1>5, <1>6, SentKeeps, SendMoves
<1> QED BY <1>1, <1>2, <1>3, <1>7, LeaderLogMove, QuietGrantMove, QuietOffice, Steady DEF Move, LogStep

LEMMA ElectionIsMove ==
    ASSUME LogInv, NEW i \in Servers, raft_periodic_election(i)
    PROVE  Move(i)
<1>1. TypeOK
  BY DEF LogInv, ElectionInv
<1>2. /\ log' = log /\ net' = Sent(net, i, VoteRequests(i)) /\ Cardinality(Servers) > 1
      /\ UNCHANGED <<match_idx, next_idx, commit_idx>>
  BY DEF raft_periodic_election, VoteRequests, VoteRequest, progressVars
<1>3. /\ current_term'[i] = current_term[i] + 1 /\ state'[i] = "candidate"
      /\ OnlyNewGrant(i, current_term[i] + 1, i) /\ current_term[i] \in Nat
  BY <1>1, ElectionEffect DEF TypeOK
<1>4. VoteRequests(i) \in OutType /\ Sends(VoteRequests(i), "requestvote")
  BY <1>1, VoteRequestsType
<1>5. ASSUME NEW b \in Servers, NEW x, In(VoteRequests(i)[b], x)
      PROVE  IsNew(i, b, x)
  <2>1. VoteRequests(i)[b] = IF b = i THEN << >> ELSE <<VoteRequest(i)>>
    BY DEF VoteRequests
  <2>2. b # i
    BY <1>5, <2>1, EmptyChannel
  <2>3. /\ log[i] \in Seq(Entry) /\ Len(log[i]) \in Nat
    BY <1>1, LenProperties DEF TypeOK
  <2>4. VoteRequest(i) \in Message
    <3>1. raft_get_last_log_term(log[i]) \in Nat
      BY <2>3, TermAtType DEF raft_get_last_log_term
    <3> QED BY <1>3, <2>3, <3>1 DEF VoteRequest, Message
  <2>5. x = VoteRequest(i)
    BY <1>5, <2>1, <2>2, <2>4, OneMessage
  <2>6. x.type = "requestvote" /\ Asks(i, x)
    BY <1>2, <1>3, <2>5 DEF VoteRequest, Asks
  <2> QED BY <2>2, <2>4, <2>5, <2>6 DEF IsNew
<1>6. SendMove(i)
  BY <1>1, <1>2, <1>4, <1>5, SentKeeps, SendMoves
<1>7. GrantMove(i)
  <2>1. Votes(i, i)
    BY <1>2, <1>3 DEF Votes
  <2> QED BY <1>3, <2>1 DEF OnlyNewGrant, GrantMove
<1>8. OfficeMove(i)
  BY <1>2, <1>3 DEF OfficeMove
<1> QED BY <1>1, <1>2, <1>6, <1>7, <1>8, ElectionLogMove, Steady DEF Move, LogStep

LEMMA RebornIsMove ==
    ASSUME LogInv, NotAlone, NEW i \in Servers, NEW term \in Nat, Reborn(i, term),
           term >= current_term[i]
    PROVE  Move(i)
<1>1. TypeOK /\ ElectionInv /\ log' = log /\ net' = net
  BY DEF LogInv, ElectionInv, Reborn
<1>2. Quiet(i)
  BY <1>1, RebornQuiet
<1>3. SendMove(i)
  BY <1>1 DEF SendMove
<1>4. state'[i] = "follower" /\ commit_idx'[i] = 0 /\ commit_idx[i] \in Nat /\ OthersKept(i)
  BY <1>1 DEF Reborn, TypeOK, OthersKept
<1>5. IndexMove(i) /\ CommitMove(i)
  BY <1>4 DEF IndexMove, CommitMove
<1>6. OfficeMove(i)
  BY <1>2, <1>4, QuietOffice
<1> QED BY <1>1, <1>2, <1>3, <1>4, <1>5, <1>6, RebornLogMove, QuietGrantMove DEF Move, LogStep

LEMMA EntryIsMove ==
    ASSUME LogInv, NotAlone, NextInLog, NEW i \in Servers, NEW id \in Ids, raft_recv_entry(i, id)
    PROVE  Move(i)
<1> DEFINE l == EntryLog(i, id)
           out == EntryOut(i, id)
           e0 == [term |-> current_term[i], id |-> id]
<1>1. TypeOK /\ ElectionInv
  BY DEF LogInv, ElectionInv
<1>2. /\ log' = [log EXCEPT ![i] = l] /\ net' = Sent(net, i, out)
      /\ state' = state /\ current_term' = current_term /\ state[i] = "leader"
      /\ match_idx' = match_idx /\ next_idx' = next_idx
      /\ commit_idx' = [commit_idx EXCEPT ![i] = IF Cardinality(Servers) = 1 THEN Len(l) ELSE @]
  BY DEF raft_recv_entry, EntryLog, EntryOut, electionVars, progressVars
<1>3. /\ log[i] \in Seq(Entry) /\ current_term[i] \in Nat /\ commit_idx[i] \in Nat
      /\ \A b \in Servers : next_idx[i][b] \in Nat \ {0}
  BY <1>1 DEF TypeOK
<1>4. l \in Seq(Entry) /\ out \in OutType
  BY <1>1, EntryOutType
<1>5. log'[i] = l
  <2> HIDE DEF l
  <2> QED BY <1>1, <1>2 DEF TypeOK
<1>6. LogStep(i)
  <2>1. e0 \in Entry /\ e0.term = current_term[i]
    BY <1>3, RaftAssumption DEF Entry
  <2>2. l = log[i] \/ l = Append(log[i], e0)
    BY DEF EntryLog
  <2> HIDE DEF l, e0
  <2>3. state'[i] = "leader" /\ current_term'[i] = current_term[i]
    BY <1>2
  <2> QED BY <1>2, <1>5, <2>1, <2>2, <2>3 DEF LogStep, Grew
<1>7. commit_idx' = commit_idx
  <2>1. Cardinality(Servers) > 1
    BY <1>2 DEF NotAlone, InOffice
  <2>2. Cardinality(Servers) # 1
    BY <2>1
  <2> HIDE DEF l
  <2> QED BY <1>1, <1>2, <2>2 DEF TypeOK
<1>8. ASSUME NEW b \in Servers, NEW x, In(out[b], x)
      PROVE  IsNew(i, b, x)
  <2> DEFINE m == Appendentries(current_term[i], l, commit_idx[i], next_idx[i][b])
  <2>1. out[b] = IF b # i /\ next_idx[i][b] = Len(l) THEN <<m>> ELSE << >>
    BY DEF EntryOut
  <2> HIDE DEF l
  <2>2. m \in Message
    BY <1>3, <1>4, AppendentriesType
  <2> HIDE DEF m, out
  <2>3. b # i /\ next_idx[i][b] = Len(l)
    BY <1>8, <2>1, EmptyChannel
  <2>4. x = m
    BY <1>8, <2>1, <2>2, <2>3, OneMessage
  <2>5. Len(l) \in Nat
    BY <1>4, LenProperties
  <2>6. next_idx[i][b] <= Len(l) + 1
    BY <2>3, <2>5
  <2>7. state'[i] = "leader" /\ current_term[i] = current_term'[i] /\ commit_idx[i] = commit_idx'[i]
    BY <1>2, <1>7
  <2>8. IsNew(i, b, m)
    BY <1>3, <1>4, <1>5, <2>3, <2>6, <2>7, LeaderSendsNew DEF m
  <2> QED BY <2>4, <2>8
<1> HIDE DEF l, out
<1>9. SendMove(i)
  BY <1>1, <1>2, <1>4, <1>8, SentKeeps, SendMoves
<1>10. Quiet(i)
  BY <1>1, EntryQuiet
<1>11. state'[i] # "candidate"
  BY <1>2
<1> QED BY <1>1, <1>2, <1>6, <1>7, <1>9, <1>10, <1>11, EntryLogMove, QuietGrantMove, QuietOffice,
           Steady DEF Move

LEMMA RequestvoteIsMove ==
    ASSUME LogInv, NotAlone, Ordered, NEW i \in Servers, NEW j \in Servers,
           raft_recv_requestvote(i, j, 1)
    PROVE  Move(i)
<1> DEFINE m == net[j][i][1]
           out == IF VoteRefusedByAssert(i, m) THEN Nothing ELSE To(j, VoteAnswer(i, m))
<1>1. /\ TypeOK /\ log' = log /\ 1 \in 1..Len(net[j][i])
      /\ UNCHANGED <<match_idx, next_idx, commit_idx>>
  BY DEF LogInv, ElectionInv, raft_recv_requestvote, progressVars
<1>2. j # i
  BY <1>1 DEF LogInv, NoSelf, In
<1>3. \E base \in Taken(j, i, 1) : net' = Sent(base, i, out)
  BY DEF raft_recv_requestvote, VoteRefusedByAssert, VoteAnswer, Granting, Role
<1>4. /\ m \in Message /\ m.type = "requestvote" /\ In(net[j][i], m)
  BY <1>1, RecvRequestvoteNet
<1>5. RequestvoteEffect(i, j, m)
  BY <1>1, RecvRequestvoteEffect
<1> HIDE DEF m
<1>6. VoteAnswer(i, m) \in Message /\ VoteAnswer(i, m).type = "requestvote_response"
  BY <1>1, <1>4, VoteAnswerType
<1>7. out \in OutType /\ \A b \in Servers : \A x : In(out[b], x) => b = j /\ x = VoteAnswer(i, m)
  <2>1. CASE VoteRefusedByAssert(i, m)
    <3>1. out = Nothing
      BY <2>1
    <3> HIDE DEF out
    <3> QED BY <3>1, NothingIsOut, EmptyChannel
  <2>2. CASE ~VoteRefusedByAssert(i, m)
    <3>1. out = To(j, VoteAnswer(i, m))
      BY <2>2
    <3> HIDE DEF out
    <3> QED BY <1>6, <3>1, ToIsOut, SMTT(30)
  <2> QED BY <2>1, <2>2
<1> HIDE DEF out
<1>8. SendMove(i)
  <2>1. \A b \in Servers : \A x : In(out[b], x) => IsNew(i, b, x)
    BY <1>2, <1>6, <1>7 DEF IsNew
  <2>2. Keeps(i, out)
    BY <1>1, <1>3, <1>7, HeadTaken
  <2> QED BY <2>1, <2>2, SendMoves
<1>9. GrantMove(i)
  <2>1. ASSUME Granting(i, m)
        PROVE  MaxOf(current_term[i], m.term) = current_term'[i] /\ Votes(i, j)
    <3>1. current_term'[i] = MaxOf(current_term[i], m.term)
      BY <1>5 DEF RequestvoteEffect
    <3>2. m.term >= current_term[i] /\ UpToDate(log[i], m)
      BY <2>1 DEF Granting, should_grant_vote, UpToDate
    <3>3. m.term \in Nat /\ current_term[i] \in Nat
      BY <1>1, <1>4, MessageTerm DEF TypeOK
    <3>4. m.term = current_term'[i]
      BY <3>1, <3>2, <3>3 DEF MaxOf
    <3> QED BY <1>1, <1>2, <1>4, <3>1, <3>2, <3>4 DEF Votes
  <2> QED BY <1>5, <2>1 DEF GrantMove, RequestvoteEffect
<1>10. OfficeMove(i)
  <2>1. InOffice(state'[i]) => state'[i] = state[i]
    BY <1>5 DEF RequestvoteEffect
  <2> QED BY <1>1, <2>1 DEF OfficeMove, NotAlone, InOffice
<1> QED BY <1>1, <1>8, <1>9, <1>10, RequestvoteLogMove, Steady DEF Move, LogStep

LEMMA VoteCountIsMove ==
    ASSUME LogInv, ElectionInv', NotAlone, Ordered, NEW i \in Servers, NEW j \in Servers,
           raft_recv_requestvote_response(i, j, 1)
    PROVE  Move(i)
<1> DEFINE m == net[j][i][1]
           out == LeaderOut(i, j, m)
           ae == Appendentries(current_term[i], log[i], commit_idx[i], Len(log[i]) + 1)
           newer == state[i] = "candidate" /\ m.term > current_term[i]
<1>1. /\ TypeOK /\ log' = log /\ commit_idx' = commit_idx
      /\ 1 \in 1..Len(net[j][i]) /\ m.type = "requestvote_response"
  BY DEF LogInv, ElectionInv, raft_recv_requestvote_response
<1>2. VoteEffect(i, j, m)
  BY <1>1, RecvVoteEffect
<1>3. \E base \in Taken(j, i, 1) : net' = Sent(base, i, out)
  BY DEF raft_recv_requestvote_response, LeaderOut, Elected
<1>4. out \in OutType
  BY <1>1, LeaderOutType
<1>5. /\ state' = [state EXCEPT ![i] = IF newer THEN "follower"
                                       ELSE IF Elected(i, j, m) THEN "leader" ELSE @]
      /\ current_term' = [current_term EXCEPT ![i] = IF newer THEN m.term ELSE @]
      /\ next_idx' = [next_idx EXCEPT ![i] =
                IF Elected(i, j, m) THEN [k \in Servers |-> Len(log[i]) + 1] ELSE @]
      /\ match_idx' = [match_idx EXCEPT ![i] =
                IF Elected(i, j, m) THEN [k \in Servers |-> 0] ELSE @]
  BY DEF raft_recv_requestvote_response, Elected
<1>6. In(net[j][i], m)
  BY <1>1 DEF In
<1> HIDE DEF m
<1>7. /\ log[i] \in Seq(Entry) /\ current_term[i] \in Nat /\ commit_idx[i] \in Nat
      /\ Len(log[i]) \in Nat /\ Len(log[i]) + 1 \in Nat \ {0}
  <2>1. log[i] \in Seq(Entry) /\ current_term[i] \in Nat /\ commit_idx[i] \in Nat
    BY <1>1 DEF TypeOK
  <2>2. Len(log[i]) \in Nat
    BY <2>1, LenProperties
  <2> QED BY <2>1, <2>2
<1>8. Elected(i, j, m) => ~newer /\ state[i] = "candidate"
  BY <1>7 DEF Elected
<1> HIDE DEF newer
<1>9. Elected(i, j, m) => state'[i] = "leader" /\ current_term'[i] = current_term[i]
  BY <1>1, <1>5, <1>8 DEF TypeOK
<1>10. SendMove(i)
  <2>1. ASSUME NEW b \in Servers, NEW x, In(out[b], x)
        PROVE  IsNew(i, b, x)
    <3>1. out[b] = IF Elected(i, j, m) /\ b # i THEN <<ae>> ELSE << >>
      BY DEF LeaderOut
    <3>2. ae \in Message
      BY <1>7, AppendentriesType
    <3> HIDE DEF ae, out
    <3>3. b # i /\ Elected(i, j, m)
      BY <2>1, <3>1, EmptyChannel
    <3>4. x = ae
      BY <2>1, <3>1, <3>2, <3>3, OneMessage
    <3>5. /\ log[i] = log'[i] /\ commit_idx[i] = commit_idx'[i] /\ state'[i] = "leader"
          /\ current_term[i] = current_term'[i] /\ Len(log[i]) + 1 <= Len(log[i]) + 1
      BY <1>1, <1>7, <1>9, <3>3
    <3>6. IsNew(i, b, ae)
      BY <1>7, <3>3, <3>5, LeaderSendsNew DEF ae
    <3> QED BY <3>4, <3>6
  <2> HIDE DEF out
  <2>2. Keeps(i, out)
    BY <1>1, <1>3, <1>4, HeadTaken
  <2> QED BY <2>1, <2>2, SendMoves
<1>11. GrantMove(i)
  BY <1>2 DEF VoteEffect, GrantMove
<1>12. ASSUME Elected(i, j, m) PROVE Won(i)
  <2> DEFINE t == current_term[i]
             R == (votes[i] \cup {j}) \cup {i}
  <2>1. R \in SUBSET Servers /\ votes[i] \cup {j} \in SUBSET Servers
    BY <1>1 DEF TypeOK
  <2>2. /\ state[i] = "candidate" /\ m.term = t /\ m.vote_granted
        /\ raft_votes_is_majority(raft_get_nvotes_for_me(i, votes[i] \cup {j}))
    BY <1>12 DEF Elected
  <2>3. Grant(i, t, i) /\ \A k \in R : Grant(k, t, i)
    BY <1>1, <1>6, <2>2 DEF Grant, InOffice
  <2>4. voted_for[i] = i
    BY <1>7, <2>3 DEF LogInv, ElectionInv, VoteKept
  <2>5. Cardinality(Servers) < 2 * Cardinality(R)
    BY <1>1, <2>1, <2>2, <2>4, CountIsMajority
  <2>6. \A k \in Servers : match_idx'[i][k] = 0 /\ next_idx'[i][k] = Len(log[i]) + 1
    BY <1>1, <1>5, <1>12 DEF TypeOK
  <2> HIDE DEF R
  <2> QED BY <1>1, <2>1, <2>2, <2>3, <2>5, <2>6 DEF Won, Majority
<1>13. InOffice(state'[i]) => InOffice(state[i])
  BY <1>2, <1>8 DEF VoteEffect, InOffice
<1>14. OfficeMove(i)
  <2>1. state'[i] = "leader" /\ state[i] # "leader" => Elected(i, j, m)
    BY <1>2 DEF VoteEffect, InOffice
  <2> QED BY <1>1, <1>12, <1>13, <2>1 DEF OfficeMove, NotAlone
<1>15. IndexMove(i)
  <2>1. CASE state[i] = "leader"
    <3>1. ~Elected(i, j, m)
      BY <1>8, <2>1
    <3>2. match_idx'[i] = match_idx[i] /\ next_idx'[i] = next_idx[i]
      BY <1>1, <1>5, <3>1 DEF TypeOK
    <3> QED BY <3>2, SameIndexes
  <2>2. CASE state[i] # "leader"
    BY <2>2 DEF IndexMove
  <2> QED BY <2>1, <2>2
<1>16. OthersKept(i)
  BY <1>1, <1>5 DEF TypeOK, OthersKept
<1>17. CommitMove(i)
  BY <1>1, <1>7 DEF CommitMove
<1> QED BY <1>1, <1>10, <1>11, <1>14, <1>15, <1>16, <1>17, VoteCountLogMove DEF Move, LogStep

\* What raft_recv_appendentries does at i with the message m of j.
AppendOk(i, m) ==
    m.term >= current_term[i] /\ ~Missing(log[i], m) /\ ~Mismatch(log[i], m)
AppendFails(i, m) ==
    \/ /\ m.term >= current_term[i] /\ ~Missing(log[i], m)
       /\ DeletedFrom(log[i], m) <= Len(log[i]) /\ DeletedFrom(log[i], m) <= commit_idx[i]
    \/ /\ AppendOk(i, m) /\ log'[i] = LogAfter(log[i], m) /\ commit_idx[i] < m.leader_commit
       /\ LET c == MinOf(MaxOf(Len(log'[i]), 1), m.leader_commit)
          IN  ~(commit_idx[i] <= c /\ c <= Len(log'[i]))
AppendEffect(i, j, m) ==
    /\ In(net[j][i], m) /\ m \in Message /\ m.type = "appendentries"
    /\ current_term'[i] = MaxOf(current_term[i], m.term)
    /\ m.term = current_term[i] => state'[i] # "candidate"
    /\ state'[i] = "aborted" => AppendFails(i, m)
    /\ \/ log'[i] = log[i]
       \/ m.term >= current_term[i] /\ ~Missing(log[i], m) /\ log'[i] = LogAfter(log[i], m)
    /\ AppendOk(i, m) /\ state'[i] # "aborted" => log'[i] = LogAfter(log[i], m)
    /\ \/ commit_idx'[i] = commit_idx[i]
       \/ /\ AppendOk(i, m) /\ state'[i] # "aborted"
          /\ commit_idx'[i] <= m.leader_commit
    /\ \E out \in OutType :
          /\ \E base \in Taken(j, i, 1) : net' = Sent(base, i, out)
          /\ \A b \in Servers : \A x : In(out[b], x) =>
                /\ b = j /\ x \in Message /\ x.type = "appendentries_response"
                /\ x.term = MaxOf(current_term[i], m.term)
                /\ x.success => /\ AppendOk(i, m) /\ state'[i] # "aborted"
                                /\ x.current_idx = Reach(m)

LEMMA RecvAppendEffect ==
    ASSUME TypeOK, NEW i \in Servers, NEW j \in Servers, raft_recv_appendentries(i, j, 1)
    PROVE  AppendEffect(i, j, net[j][i][1])
<1> DEFINE m == net[j][i][1]
           newer == m.term > current_term[i]
           rival == state[i] = "candidate" /\ m.term = current_term[i]
           fresh == m.term >= current_term[i] /\ ~Missing(log[i], m)
           ok == fresh /\ ~Mismatch(log[i], m)
           l == IF fresh THEN LogAfter(log[i], m) ELSE log[i]
           commit == IF ok /\ commit_idx[i] < m.leader_commit
                     THEN MinOf(MaxOf(Len(l), 1), m.leader_commit) ELSE commit_idx[i]
           delete_fails == /\ fresh /\ DeletedFrom(log[i], m) <= Len(log[i])
                           /\ DeletedFrom(log[i], m) <= commit_idx[i]
           commit_fails == /\ commit # commit_idx[i]
                           /\ ~(commit_idx[i] <= commit /\ commit <= Len(l))
           aborts == delete_fails \/ commit_fails
           current == IF ok THEN m.prev_log_idx + Len(m.entries)
                      ELSE IF fresh THEN m.prev_log_idx - 1 ELSE Len(log[i])
           answer == AppendAnswer(MaxOf(current_term[i], m.term), ok, current)
           out == IF aborts THEN Nothing ELSE To(j, answer)
<1>1. 1 \in 1..Len(net[j][i]) /\ m.type = "appendentries" /\ state[i] # "aborted"
  BY DEF raft_recv_appendentries
<1>2. m \in Message /\ In(net[j][i], m)
  <2>1. net[j][i] \in Seq(Message)
    BY DEF TypeOK
  <2> QED BY <1>1, <2>1, ElementOfSeq DEF In
<1>3. /\ current_term' = [current_term EXCEPT ![i] = MaxOf(@, m.term)]
      /\ state' = [state EXCEPT ![i] = IF aborts THEN "aborted"
                                       ELSE IF newer \/ rival THEN "follower" ELSE @]
      /\ log' = [log EXCEPT ![i] = IF delete_fails THEN @ ELSE l]
      /\ commit_idx' = [commit_idx EXCEPT ![i] = IF aborts THEN @ ELSE commit]
      /\ \E base \in Taken(j, i, 1) : net' = Sent(base, i, out)
  BY DEF raft_recv_appendentries, AppendAnswer
<1> HIDE DEF m
<1>4. /\ m.leader_commit \in Nat /\ m.prev_log_idx \in Nat
      /\ m.prev_log_term \in Nat /\ m.entries \in Seq(Entry) /\ m.term \in Nat
      /\ current_term[i] \in Nat /\ commit_idx[i] \in Nat /\ state[i] \in States
  BY <1>1, <1>2, AppendentriesFields, MessageTerm DEF TypeOK
<1>5. log[i] \in Seq(Entry) /\ Len(log[i]) \in Nat /\ Len(m.entries) \in Nat
  <2>1. log[i] \in Seq(Entry)
    BY DEF TypeOK
  <2> QED BY <1>4, <2>1, LenProperties
<1>6. Len(l) \in Nat
  <2>1. l \in Seq(Entry)
    BY <1>1, <1>2, <1>5, LogAfterType
  <2> QED BY <2>1, LenProperties
<1>7. /\ current_term'[i] = MaxOf(current_term[i], m.term)
      /\ state'[i] = IF aborts THEN "aborted" ELSE IF newer \/ rival THEN "follower" ELSE state[i]
      /\ log'[i] = IF delete_fails THEN log[i] ELSE l
      /\ commit_idx'[i] = IF aborts THEN commit_idx[i] ELSE commit
  <2> HIDE DEF aborts, newer, rival, delete_fails, l, commit
  <2> QED BY <1>3 DEF TypeOK
<1>8. ok <=> AppendOk(i, m)
  BY DEF AppendOk
<1>9. aborts <=> state'[i] = "aborted"
  <2> HIDE DEF aborts, newer, rival
  <2> QED BY <1>1, <1>7
<1>10. answer \in Message /\ answer.type = "appendentries_response"
  <2>1. MaxOf(current_term[i], m.term) \in Nat
    BY <1>4 DEF MaxOf
  <2>2. ok \in BOOLEAN
    OBVIOUS
  <2>3. current \in Nat
    <3>1. CASE ok
      BY <1>4, <1>5, <3>1
    <3>2. CASE ~ok /\ fresh
      <4>1. m.prev_log_idx \in 1..Len(log[i])
        BY <3>2 DEF Mismatch
      <4> QED BY <1>4, <1>5, <3>2, <4>1
    <3>3. CASE ~ok /\ ~fresh
      BY <1>5, <3>3
    <3> QED BY <3>1, <3>2, <3>3
  <2> HIDE DEF ok, current
  <2> QED BY <2>1, <2>2, <2>3 DEF AppendAnswer, Message
<1>11. /\ answer.term = MaxOf(current_term[i], m.term)
       /\ answer.success => AppendOk(i, m) /\ answer.current_idx = Reach(m)
  <2>1. answer.term = MaxOf(current_term[i], m.term) /\ answer.success = ok
        /\ answer.current_idx = current
    BY DEF AppendAnswer
  <2>2. ok => current = Reach(m)
    BY DEF Reach
  <2> HIDE DEF answer, ok, current
  <2> QED BY <1>8, <2>1, <2>2
<1>12. out \in OutType /\ \A b \in Servers : \A x : In(out[b], x) => ~aborts /\ b = j /\ x = answer
  <2>1. CASE aborts
    <3>1. out = Nothing
      BY <2>1
    <3> HIDE DEF out
    <3> QED BY <3>1, NothingIsOut, EmptyChannel
  <2>2. CASE ~aborts
    <3>1. out = To(j, answer)
      BY <2>2
    <3> HIDE DEF out, answer, aborts
    <3> QED BY <1>10, <2>2, <3>1, ToIsOut
  <2> QED BY <2>1, <2>2
<1>13. \A b \in Servers : \A x : In(out[b], x) =>
         /\ b = j /\ x \in Message /\ x.type = "appendentries_response"
         /\ x.term = MaxOf(current_term[i], m.term)
         /\ x.success => /\ AppendOk(i, m) /\ state'[i] # "aborted" /\ x.current_idx = Reach(m)
  <2> HIDE DEF out, answer, aborts
  <2> QED BY <1>9, <1>10, <1>11, <1>12
<1>14. m.term = current_term[i] => state'[i] # "candidate"
  <2> HIDE DEF aborts
  <2> QED BY <1>7
<1>15. /\ \/ log'[i] = log[i]
          \/ m.term >= current_term[i] /\ ~Missing(log[i], m) /\ log'[i] = LogAfter(log[i], m)
       /\ AppendOk(i, m) /\ state'[i] # "aborted" => log'[i] = LogAfter(log[i], m)
  <2>1. ~delete_fails /\ fresh => log'[i] = LogAfter(log[i], m)
    <3> HIDE DEF delete_fails, fresh
    <3> QED BY <1>7
  <2>2. delete_fails \/ ~fresh => log'[i] = log[i]
    <3> HIDE DEF delete_fails, fresh
    <3> QED BY <1>7
  <2>3. state'[i] # "aborted" => ~delete_fails
    BY <1>9
  <2>4. AppendOk(i, m) => fresh
    BY DEF AppendOk
  <2> HIDE DEF delete_fails, l, commit, aborts
  <2> QED BY <2>1, <2>2, <2>3, <2>4
<1>16. \/ commit_idx'[i] = commit_idx[i]
       \/ AppendOk(i, m) /\ state'[i] # "aborted" /\ commit_idx'[i] <= m.leader_commit
  <2>1. CASE aborts \/ ~(ok /\ commit_idx[i] < m.leader_commit)
    <3> HIDE DEF aborts, ok, l
    <3> QED BY <1>7, <2>1
  <2>2. CASE ~aborts /\ ok /\ commit_idx[i] < m.leader_commit
    <3>1. commit_idx'[i] = MinOf(MaxOf(Len(l), 1), m.leader_commit)
      <4> HIDE DEF aborts, ok, l
      <4> QED BY <1>7, <2>2
    <3> HIDE DEF aborts, ok, l
    <3>2. commit_idx'[i] <= m.leader_commit
      BY <1>4, <1>6, <3>1 DEF MinOf, MaxOf
    <3> QED BY <1>8, <1>9, <2>2, <3>2
  <2> QED BY <2>1, <2>2
<1>17. ASSUME state'[i] = "aborted" PROVE AppendFails(i, m)
  <2>1. CASE delete_fails
    BY <2>1 DEF AppendFails
  <2>2. CASE ~delete_fails /\ commit_fails
    <3>1. log'[i] = l
      <4> HIDE DEF delete_fails, l
      <4> QED BY <1>7, <2>2
    <3>2. ok /\ commit_idx[i] < m.leader_commit
      <4> HIDE DEF ok, l
      <4> QED BY <2>2
    <3>3. l = LogAfter(log[i], m)
      BY <3>2
    <3> HIDE DEF l
    <3>4. commit = MinOf(MaxOf(Len(l), 1), m.leader_commit)
      <4> HIDE DEF ok
      <4> QED BY <3>2
    <3>5. ~(commit_idx[i] <= commit /\ commit <= Len(l))
      BY <2>2
    <3> HIDE DEF commit, ok
    <3> QED BY <1>8, <3>1, <3>2, <3>3, <3>4, <3>5 DEF AppendFails
  <2>3. aborts
    BY <1>9, <1>17
  <2> HIDE DEF delete_fails, commit_fails
  <2> QED BY <2>1, <2>2, <2>3
<1> HIDE DEF newer, rival, fresh, ok, l, commit, delete_fails, commit_fails, aborts, current,
           answer, out
<1>18. \E o \in OutType :
          /\ \E base \in Taken(j, i, 1) : net' = Sent(base, i, o)
          /\ \A b \in Servers : \A x : In(o[b], x) =>
                /\ b = j /\ x \in Message /\ x.type = "appendentries_response"
                /\ x.term = MaxOf(current_term[i], m.term)
                /\ x.success => /\ AppendOk(i, m) /\ state'[i] # "aborted"
                                /\ x.current_idx = Reach(m)
  BY <1>3, <1>12, <1>13
<1>19. AppendEffect(i, j, m)
  BY <1>1, <1>2, <1>7, <1>14, <1>15, <1>16, <1>17, <1>18 DEF AppendEffect
<1> QED BY <1>19 DEF m

LEMMA AppendIsMove ==
    ASSUME LogInv, NotAlone, Ordered, NEW i \in Servers, NEW j \in Servers,
           raft_recv_appendentries(i, j, 1)
    PROVE  /\ Move(i)
           /\ LET m == net[j][i][1] IN
              AppendOk(i, m) /\ log'[i] = LogAfter(log[i], m) => TookOver(i, j, m)
<1> DEFINE m == net[j][i][1]
<1>1. /\ TypeOK /\ ElectionInv /\ OneReign /\ 1 \in 1..Len(net[j][i])
      /\ UNCHANGED <<match_idx, next_idx>>
  BY DEF LogInv, ElectionInv, raft_recv_appendentries, progressVars
<1>2. AppendEffect(i, j, m)
  BY <1>1, RecvAppendEffect
<1>3. i # j
  BY <1>1 DEF LogInv, NoSelf, In
<1>4. Quiet(i)
  BY <1>1, AppendQuiet
<1>5. \A k \in Servers \ {i} : commit_idx'[k] = commit_idx[k]
  BY <1>1, AppendLog
<1>6. PICK out \in OutType :
          /\ \E base \in Taken(j, i, 1) : net' = Sent(base, i, out)
          /\ \A b \in Servers : \A x : In(out[b], x) =>
                /\ b = j /\ x \in Message /\ x.type = "appendentries_response"
                /\ x.term = MaxOf(current_term[i], m.term)
                /\ x.success => /\ AppendOk(i, m) /\ state'[i] # "aborted"
                                /\ x.current_idx = Reach(m)
  BY <1>2 DEF AppendEffect
<1>7. Keeps(i, out) /\ \A x : In(net'[j][i], x) => Later(net[j][i], m, x)
  BY <1>1, <1>3, <1>6, HeadTaken
<1> HIDE DEF m
<1>8. /\ In(net[j][i], m) /\ m \in Message /\ m.type = "appendentries"
      /\ current_term'[i] = MaxOf(current_term[i], m.term)
      /\ current_term[i] \in Nat /\ m.term \in Nat
      /\ commit_idx[i] \in Nat
  BY <1>1, <1>2, MessageTerm DEF AppendEffect, TypeOK
<1>9. ASSUME m.term >= current_term[i], InOffice(state'[i]) PROVE FALSE
  <2>1. state'[i] = state[i] /\ current_term'[i] = current_term[i]
    BY <1>4, <1>9 DEF Quiet
  <2>2. m.term = current_term[i]
    BY <1>8, <1>9, <2>1 DEF MaxOf
  <2>3. state[i] = "leader"
    BY <1>2, <1>9, <2>1, <2>2 DEF AppendEffect, InOffice
  <2>4. Rules(current_term[i], i) /\ Rules(current_term[i], j)
    BY <1>8, <2>2, <2>3 DEF Rules
  <2> QED BY <1>1, <1>3, <1>8, <2>4 DEF OneReign
<1>10. ASSUME m.term >= current_term[i], ~Missing(log[i], m), log'[i] = LogAfter(log[i], m)
       PROVE  Took(i, j, m)
  <2>1. m.term = current_term'[i]
    BY <1>8, <1>10 DEF MaxOf
  <2> QED BY <1>7, <1>8, <1>9, <1>10, <2>1 DEF Took
<1>11. AppendOk(i, m) /\ log'[i] = LogAfter(log[i], m) => TookOver(i, j, m)
  BY <1>10 DEF AppendOk, TookOver
<1>12. LogStep(i)
  BY <1>2, <1>10 DEF AppendEffect, LogStep
<1>13. state'[i] = "candidate" => log'[i] = log[i]
  BY <1>2, <1>9 DEF AppendEffect, InOffice
<1>14. SendMove(i)
  <2>1. ASSUME NEW b \in Servers, NEW x, In(out[b], x) PROVE IsNew(i, b, x)
    <3>1. b = j /\ x \in Message /\ x.type = "appendentries_response"
      BY <1>6, <2>1
    <3>2. ASSUME x.success
          PROVE  TookOver(i, j, m) /\ x.term = m.term /\ x.current_idx = Reach(m)
      <4>1. /\ AppendOk(i, m) /\ state'[i] # "aborted" /\ x.current_idx = Reach(m)
            /\ x.term = MaxOf(current_term[i], m.term)
        BY <1>6, <2>1, <3>2
      <4>2. log'[i] = LogAfter(log[i], m)
        BY <1>2, <4>1 DEF AppendEffect
      <4>3. x.term = m.term
        BY <1>8, <4>1 DEF AppendOk, MaxOf
      <4> QED BY <1>11, <4>1, <4>2, <4>3
    <3> QED BY <1>3, <3>1, <3>2 DEF IsNew
  <2> QED BY <1>7, <2>1, SendMoves
<1>15. CommitMove(i)
  <2>1. CASE commit_idx'[i] = commit_idx[i]
    BY <1>8, <2>1 DEF CommitMove
  <2>2. CASE AppendOk(i, m) /\ state'[i] # "aborted" /\ commit_idx'[i] <= m.leader_commit
    <3>1. log'[i] = LogAfter(log[i], m)
      BY <1>2, <2>2 DEF AppendEffect
    <3> QED BY <1>11, <2>2, <3>1 DEF CommitMove
  <2> QED BY <1>2, <2>1, <2>2 DEF AppendEffect
<1>16. IndexMove(i) /\ OthersKept(i)
  BY <1>1, <1>5, SameIndexes DEF OthersKept
<1>17. Move(i)
  BY <1>4, <1>12, <1>13, <1>14, <1>15, <1>16, AppendLogMove, QuietGrantMove, QuietOffice DEF Move
<1> QED BY <1>11, <1>17 DEF m

\* What raft_recv_appendentries_response does at i with the answer m of j, when
\* it is neither stale nor of another term.
AckMine(i, m) == state[i] = "leader" /\ m.term = current_term[i]
AckEffect(i, j, m) ==
    /\ In(net[j][i], m) /\ m \in Message /\ m.type = "appendentries_response"
    /\ state'[i] = "aborted" => AckMine(i, m) /\ m.success /\ m.current_idx > Len(log[i])
    /\ \A k \in Servers :
          \/ match_idx'[i][k] = match_idx[i][k]
          \/ /\ k = j /\ AckMine(i, m) /\ m.success
             /\ match_idx'[i][k] = m.current_idx
    /\ \A k \in Servers :
          next_idx'[i][k] = next_idx[i][k] \/ next_idx'[i][k] <= Len(log[i]) + 1
    /\ \/ commit_idx'[i] = commit_idx[i]
       \/ /\ state'[i] = "leader" /\ current_term'[i] = current_term[i]
          /\ Cardinality(Servers) \div 2 <
                1 + Cardinality(Holders(i, match_idx'[i], commit_idx'[i]))
    /\ \E out \in OutType :
          /\ \E base \in Taken(j, i, 1) : net' = Sent(base, i, out)
          /\ \/ \A b \in Servers : \A x : ~In(out[b], x)
             \/ /\ state'[i] = "leader" /\ current_term'[i] = current_term[i]
                /\ \E next \in Nat \ {0} :
                      /\ next <= Len(log[i]) + 1
                      /\ Answers(out, j,
                           Appendentries(current_term[i], log[i], commit_idx'[i], next))

LEMMA RecvAckEffect ==
    ASSUME TypeOK, NextInLog, NEW i \in Servers, NEW j \in Servers, i # j,
           raft_recv_appendentries_response(i, j, 1)
    PROVE  AckEffect(i, j, net[j][i][1])
<1> DEFINE m == net[j][i][1]
           stale == m.current_idx # 0 /\ m.current_idx <= match_idx[i][j]
           newer == ~stale /\ state[i] = "leader" /\ m.term > current_term[i]
           mine == ~stale /\ state[i] = "leader" /\ m.term = current_term[i]
           aborts == mine /\ m.success /\ m.current_idx > Len(log[i])
           next == IF m.success THEN m.current_idx + 1
                   ELSE IF m.current_idx < next_idx[i][j] - 1
                   THEN MaxOf(1, MinOf(m.current_idx + 1, Len(log[i])))
                   ELSE MaxOf(1, next_idx[i][j] - 1)
           match == [match_idx[i] EXCEPT ![j] = IF m.success THEN m.current_idx ELSE @]
           held == Cardinality(Servers) \div 2 <
                       1 + Cardinality(Holders(i, match, m.current_idx))
           commits == mine /\ m.success /\ held /\ commit_idx[i] < m.current_idx
           commit == IF commits THEN m.current_idx ELSE commit_idx[i]
           sends == mine /\ ~aborts /\ (~m.success \/ next <= Len(log[i]))
           ae == Appendentries(current_term[i], log[i], commit, next)
           out == IF sends THEN To(j, ae) ELSE Nothing
<1>1. /\ 1 \in 1..Len(net[j][i]) /\ m.type = "appendentries_response"
      /\ state[i] # "aborted"
  BY DEF raft_recv_appendentries_response
<1>2. m \in Message /\ In(net[j][i], m)
  <2>1. net[j][i] \in Seq(Message)
    BY DEF TypeOK
  <2> QED BY <1>1, <2>1, ElementOfSeq DEF In
<1>3. /\ current_term' = [current_term EXCEPT ![i] = IF newer THEN m.term ELSE @]
      /\ state' = [state EXCEPT ![i] = IF aborts THEN "aborted"
                                       ELSE IF newer THEN "follower" ELSE @]
      /\ next_idx' = [next_idx EXCEPT ![i][j] = IF mine /\ ~aborts THEN next ELSE @]
      /\ match_idx' = [match_idx EXCEPT ![i] = IF mine /\ ~aborts THEN match ELSE @]
      /\ commit_idx' = [commit_idx EXCEPT ![i] = IF aborts THEN @ ELSE commit]
      /\ \E base \in Taken(j, i, 1) : net' = Sent(base, i, out)
  BY DEF raft_recv_appendentries_response
<1> HIDE DEF m
<1>4. /\ m.success \in BOOLEAN /\ m.current_idx \in Nat /\ m.term \in Nat
      /\ current_term[i] \in Nat /\ commit_idx[i] \in Nat /\ state[i] \in States
      /\ next_idx[i][j] \in Nat \ {0} /\ match_idx[i] \in [Servers -> Nat]
  BY <1>1, <1>2, ResponseFields, MessageTerm DEF TypeOK
<1>5. log[i] \in Seq(Entry) /\ Len(log[i]) \in Nat
  <2>1. log[i] \in Seq(Entry)
    BY DEF TypeOK
  <2> QED BY <2>1, LenProperties
<1>6. mine => AckMine(i, m) /\ ~newer
  BY <1>4 DEF AckMine
<1>7. mine /\ ~aborts => next \in Nat \ {0} /\ next <= Len(log[i]) + 1
  <2>1. CASE m.success
    BY <1>4, <1>5, <2>1
  <2>2. CASE ~m.success
    <3>1. mine => next_idx[i][j] <= Len(log[i]) + 1
      BY DEF NextInLog
    <3>2. /\ MaxOf(1, MinOf(m.current_idx + 1, Len(log[i]))) \in Nat \ {0}
          /\ MaxOf(1, MinOf(m.current_idx + 1, Len(log[i]))) <= Len(log[i]) + 1
      BY <1>4, <1>5, SMTT(30) DEF MaxOf, MinOf
    <3>3. /\ MaxOf(1, next_idx[i][j] - 1) \in Nat \ {0}
          /\ mine => MaxOf(1, next_idx[i][j] - 1) <= Len(log[i]) + 1
      <4> HIDE DEF mine
      <4> QED BY <1>4, <1>5, <3>1, SMTT(30) DEF MaxOf
    <3> HIDE DEF mine
    <3> QED BY <2>2, <3>2, <3>3
  <2> QED BY <1>4, <2>1, <2>2
<1>8. /\ current_term'[i] = IF newer THEN m.term ELSE current_term[i]
      /\ state'[i] = IF aborts THEN "aborted" ELSE IF newer THEN "follower" ELSE state[i]
      /\ match_idx'[i] = IF mine /\ ~aborts THEN match ELSE match_idx[i]
      /\ commit_idx'[i] = IF aborts THEN commit_idx[i] ELSE commit
      /\ next_idx'[i][j] = IF mine /\ ~aborts THEN next ELSE next_idx[i][j]
      /\ \A k \in Servers \ {j} : next_idx'[i][k] = next_idx[i][k]
  <2> HIDE DEF newer, aborts, mine, next, match, commit
  <2> QED BY <1>3 DEF TypeOK
<1>9. mine /\ ~aborts => state'[i] = "leader" /\ current_term'[i] = current_term[i]
  <2>1. mine => state[i] = "leader"
    OBVIOUS
  <2> HIDE DEF mine, newer, aborts
  <2> QED BY <1>6, <1>8, <2>1
<1>10. state'[i] = "aborted" => AckMine(i, m) /\ m.success /\ m.current_idx > Len(log[i])
  <2>1. state'[i] = "aborted" => aborts
    <3> HIDE DEF aborts, newer
    <3> QED BY <1>1, <1>8
  <2> QED BY <1>6, <2>1
<1>11. ASSUME NEW k \in Servers
       PROVE  \/ match_idx'[i][k] = match_idx[i][k]
              \/ k = j /\ AckMine(i, m) /\ m.success /\ match_idx'[i][k] = m.current_idx
  <2>1. match[k] = IF k = j /\ m.success THEN m.current_idx ELSE match_idx[i][k]
    BY <1>4
  <2> HIDE DEF match, mine, aborts
  <2> QED BY <1>6, <1>8, <2>1
<1>12. ASSUME NEW k \in Servers
       PROVE  next_idx'[i][k] = next_idx[i][k] \/ next_idx'[i][k] <= Len(log[i]) + 1
  <2> HIDE DEF next, mine, aborts
  <2> QED BY <1>7, <1>8
<1>13. \/ commit_idx'[i] = commit_idx[i]
       \/ /\ state'[i] = "leader" /\ current_term'[i] = current_term[i]
          /\ Cardinality(Servers) \div 2 <
                1 + Cardinality(Holders(i, match_idx'[i], commit_idx'[i]))
  <2>1. CASE aborts \/ ~commits
    <3> HIDE DEF aborts, commits
    <3> QED BY <1>8, <2>1
  <2>2. CASE ~aborts /\ commits
    <3>1. mine /\ held
      BY <2>2
    <3>2. match_idx'[i] = match /\ commit_idx'[i] = m.current_idx
      <4> HIDE DEF aborts, commits, mine, match
      <4> QED BY <1>8, <2>2, <3>1
    <3>3. state'[i] = "leader" /\ current_term'[i] = current_term[i]
      <4> HIDE DEF aborts, mine
      <4> QED BY <1>9, <2>2, <3>1
    <3> HIDE DEF match, mine
    <3> QED BY <3>1, <3>2, <3>3
  <2> QED BY <2>1, <2>2
<1>14. /\ out \in OutType
       /\ \/ \A b \in Servers : \A x : ~In(out[b], x)
          \/ /\ state'[i] = "leader" /\ current_term'[i] = current_term[i]
             /\ \E nx \in Nat \ {0} :
                   /\ nx <= Len(log[i]) + 1
                   /\ Answers(out, j, Appendentries(current_term[i], log[i], commit_idx'[i], nx))
  <2>1. CASE ~sends
    <3>1. out = Nothing
      <4> HIDE DEF sends, ae
      <4> QED BY <2>1
    <3> HIDE DEF out
    <3> QED BY <3>1, NothingIsOut, EmptyChannel
  <2>2. CASE sends
    <3>1. out = To(j, ae)
      <4> HIDE DEF sends, ae
      <4> QED BY <2>2
    <3>2. mine /\ ~aborts
      BY <2>2
    <3> HIDE DEF mine, aborts, sends
    <3>3. next \in Nat \ {0} /\ next <= Len(log[i]) + 1
      BY <1>7, <3>2
    <3>4. commit_idx'[i] = commit
      <4> HIDE DEF commit
      <4> QED BY <1>8, <3>2
    <3>5. commit \in Nat
      <4> HIDE DEF commits
      <4> QED BY <1>4
    <3> HIDE DEF next, commit
    <3>6. ae \in Message
      BY <1>4, <1>5, <3>3, <3>5, AppendentriesType
    <3>7. out \in OutType /\ Answers(out, j, ae)
      <4> HIDE DEF out, ae
      <4> QED BY <3>1, <3>6, ToIsOut DEF Answers
    <3> HIDE DEF out
    <3> QED BY <1>9, <3>2, <3>3, <3>4, <3>7
  <2> QED BY <2>1, <2>2
<1> HIDE DEF stale, newer, mine, aborts, next, match, held, commits, commit, sends, ae, out
<1>15. \E o \in OutType :
          /\ \E base \in Taken(j, i, 1) : net' = Sent(base, i, o)
          /\ \/ \A b \in Servers : \A x : ~In(o[b], x)
             \/ /\ state'[i] = "leader" /\ current_term'[i] = current_term[i]
                /\ \E nx \in Nat \ {0} :
                      /\ nx <= Len(log[i]) + 1
                      /\ Answers(o, j, Appendentries(current_term[i], log[i], commit_idx'[i], nx))
  BY <1>3, <1>14
<1>16. AckEffect(i, j, m)
  BY <1>1, <1>2, <1>10, <1>11, <1>12, <1>13, <1>15 DEF AckEffect
<1> QED BY <1>16 DEF m

LEMMA AckIsMove ==
    ASSUME LogInv, TypeOK', NotAlone, NextInLog, Ordered, NEW i \in Servers, NEW j \in Servers,
           raft_recv_appendentries_response(i, j, 1)
    PROVE  Move(i)
<1> DEFINE m == net[j][i][1]
<1>1. /\ TypeOK /\ ElectionInv /\ 1 \in 1..Len(net[j][i]) /\ log' = log
  BY DEF LogInv, ElectionInv, raft_recv_appendentries_response
<1>2. i # j
  BY <1>1 DEF LogInv, NoSelf, In
<1>3. AckEffect(i, j, m)
  BY <1>1, <1>2, RecvAckEffect
<1>4. Quiet(i)
  BY <1>1, AckQuiet
<1>5. OthersKept(i)
  <2>1. \E c, ma, nx :
          /\ commit_idx' = [commit_idx EXCEPT ![i] = c]
          /\ match_idx' = [match_idx EXCEPT ![i] = ma]
          /\ next_idx' = [next_idx EXCEPT ![i][j] = nx]
    <3>1. \E newer \in BOOLEAN, role \in States, nexts \in Nat \ {0},
             match \in [Servers -> Nat], commit \in Nat, out \in OutType :
             AckStep(i, j, 1, m, newer, role, nexts, match, commit, out)
      BY <1>1, RecvAckStep
    <3>2. PICK newer \in BOOLEAN, role \in States, nexts \in Nat \ {0},
               match \in [Servers -> Nat], commit \in Nat, out \in OutType :
             AckStep(i, j, 1, m, newer, role, nexts, match, commit, out)
      BY <3>1
    <3> HIDE DEF m
    <3>3. /\ commit_idx' = [commit_idx EXCEPT ![i] = commit]
          /\ match_idx' = [match_idx EXCEPT ![i] = match]
          /\ next_idx' = [next_idx EXCEPT ![i][j] = nexts]
      BY <3>2 DEF AckStep
    <3> QED BY <3>3
  <2>2. PICK c, ma, nx :
          /\ commit_idx' = [commit_idx EXCEPT ![i] = c]
          /\ match_idx' = [match_idx EXCEPT ![i] = ma]
          /\ next_idx' = [next_idx EXCEPT ![i][j] = nx]
    BY <2>1
  <2>3. ASSUME NEW k \in Servers \ {i}
        PROVE  /\ commit_idx'[k] = commit_idx[k]
               /\ match_idx'[k] = match_idx[k] /\ next_idx'[k] = next_idx[k]
    BY <1>1, <2>2 DEF TypeOK
  <2> QED BY <2>3 DEF OthersKept
<1>6. PICK out \in OutType :
          /\ \E base \in Taken(j, i, 1) : net' = Sent(base, i, out)
          /\ \/ \A b \in Servers : \A x : ~In(out[b], x)
             \/ /\ state'[i] = "leader" /\ current_term'[i] = current_term[i]
                /\ \E next \in Nat \ {0} :
                      /\ next <= Len(log[i]) + 1
                      /\ Answers(out, j,
                           Appendentries(current_term[i], log[i], commit_idx'[i], next))
  BY <1>3 DEF AckEffect
<1>7. Keeps(i, out)
  BY <1>1, <1>6, HeadTaken
<1> HIDE DEF m
<1>8. /\ log[i] \in Seq(Entry) /\ current_term[i] \in Nat /\ commit_idx'[i] \in Nat
      /\ commit_idx[i] \in Nat
  BY <1>1 DEF TypeOK
<1>9. SendMove(i)
  <2>1. ASSUME NEW b \in Servers, NEW x, In(out[b], x) PROVE IsNew(i, b, x)
    <3>1. PICK next \in Nat \ {0} :
            /\ next <= Len(log[i]) + 1
            /\ Answers(out, j, Appendentries(current_term[i], log[i], commit_idx'[i], next))
      BY <1>6, <2>1
    <3>2. state'[i] = "leader" /\ current_term[i] = current_term'[i] /\ log[i] = log'[i]
      BY <1>1, <1>6, <2>1
    <3>3. IsNew(i, j, Appendentries(current_term[i], log[i], commit_idx'[i], next))
      BY <1>2, <1>8, <3>1, <3>2, LeaderSendsNew
    <3> QED BY <2>1, <3>1, <3>3 DEF Answers
  <2> QED BY <1>7, <2>1, SendMoves
<1>10. IndexMove(i)
  <2> SUFFICES ASSUME state[i] = "leader", NEW k \in Servers \ {i}
               PROVE  /\ \A x \in Nat : x <= match_idx'[i][k] => Acked(i, k, x)
                      /\ \/ next_idx'[i][k] = next_idx[i][k]
                         \/ next_idx'[i][k] <= Len(log'[i]) + 1
    BY DEF IndexMove
  <2>1. \/ match_idx'[i][k] = match_idx[i][k]
        \/ /\ k = j /\ AckMine(i, m) /\ m.success /\ In(net[j][i], m)
           /\ m.type = "appendentries_response" /\ match_idx'[i][k] = m.current_idx
    BY <1>3 DEF AckEffect
  <2>2. \A x \in Nat : x <= match_idx'[i][k] => Acked(i, k, x)
    BY <2>1 DEF Acked, AckMine
  <2>3. next_idx'[i][k] = next_idx[i][k] \/ next_idx'[i][k] <= Len(log'[i]) + 1
    BY <1>1, <1>3 DEF AckEffect
  <2> QED BY <2>2, <2>3
<1>11. CommitMove(i)
  <2>1. CASE commit_idx'[i] = commit_idx[i]
    BY <1>8, <2>1 DEF CommitMove
  <2>2. CASE /\ state'[i] = "leader" /\ current_term'[i] = current_term[i]
             /\ Cardinality(Servers) \div 2 <
                   1 + Cardinality(Holders(i, match_idx'[i], commit_idx'[i]))
    <3> DEFINE H == Holders(i, match_idx'[i], commit_idx'[i])
    <3>1. H \in SUBSET Servers /\ i \notin H
      BY DEF Holders
    <3>2. \A k \in H : /\ commit_idx'[i] <= match_idx'[i][k] /\ match_idx'[i][k] > 0
                       /\ TermAt(log'[i], match_idx'[i][k]) = current_term'[i]
      BY <1>1, <2>2 DEF Holders
    <3>3. Cardinality(Servers) \div 2 < 1 + Cardinality(H)
      BY <2>2
    <3> HIDE DEF H
    <3>4. IsFiniteSet(H) /\ Cardinality(H) \in Nat /\ Cardinality(Servers) \in Nat
      BY <3>1, RaftAssumption, FS_Subset, FS_CardinalityType
    <3>5. Cardinality(H \cup {i}) = Cardinality(H) + 1
      BY <3>1, <3>4, FS_AddElement
    <3>6. Cardinality(Servers) < 2 * (Cardinality(H) + 1)
      BY <3>3, <3>4
    <3>7. Majority(H \cup {i})
      BY <3>5, <3>6 DEF Majority
    <3>8. Counted(i)
      BY <2>2, <3>1, <3>2, <3>7 DEF Counted
    <3> QED BY <3>8 DEF CommitMove
  <2> QED BY <1>3, <2>1, <2>2 DEF AckEffect
<1>12. OfficeMove(i)
  BY <1>1, <1>4, QuietOffice
<1> QED BY <1>1, <1>4, <1>5, <1>9, <1>10, <1>11, <1>12, AckLogMove, QuietGrantMove DEF Move, LogStep

-----------------------------------------------------------------------------
\* The asserts of the library.

\* A leader or candidate has voted for itself, and so grants no vote in its term.
LEMMA RequestvoteNoAbort ==
    ASSUME RaftInv, NEW i \in Servers, NEW j \in Servers, raft_recv_requestvote(i, j, 1)
    PROVE  state'[i] # "aborted"
<1> DEFINE m == net[j][i][1]
<1>1. TypeOK /\ VoteKept
  BY BaseFacts DEF RaftInv
<1>2. /\ state' = [state EXCEPT ![i] =
             IF VoteRefusedByAssert(i, m) THEN "aborted" ELSE Role(i, m)]
      /\ state[i] # "aborted"
  BY DEF raft_recv_requestvote, VoteRefusedByAssert, Role
<1>3. m \in Message
  BY <1>1, RecvRequestvoteNet
<1> HIDE DEF m
<1>4. m.term \in Nat /\ current_term[i] \in Nat /\ state[i] \in States
  BY <1>1, <1>3, MessageTerm DEF TypeOK
<1>5. ASSUME VoteRefusedByAssert(i, m) PROVE FALSE
  <2>1. should_grant_vote(i, m) /\ Role(i, m) # "follower"
    BY <1>5 DEF VoteRefusedByAssert
  <2>2. ~(m.term > current_term[i]) /\ InOffice(state[i])
    BY <1>2, <1>4, <2>1 DEF Role, States, InOffice
  <2>3. voted_for[i] = None
    BY <2>1, <2>2 DEF should_grant_vote
  <2>4. Grant(i, current_term[i], i)
    BY <2>2 DEF Grant
  <2>5. voted_for[i] = i
    BY <1>1, <1>4, <2>4 DEF VoteKept
  <2> QED BY <2>3, <2>5, RaftAssumption
<1>6. state'[i] = Role(i, m)
  BY <1>1, <1>2, <1>5 DEF TypeOK
<1> QED BY <1>2, <1>6 DEF Role

\* What is deleted is not committed, and what the message says is committed is
\* in the log once the entries are.
LEMMA AppendNoAbort ==
    ASSUME RaftInv, LogInv', Ordered, NEW i \in Servers, NEW j \in Servers,
           raft_recv_appendentries(i, j, 1)
    PROVE  state'[i] # "aborted"
<1> DEFINE m == net[j][i][1]
<1>0. BaseInv /\ TypeOK /\ LogInv /\ NotAlone
  BY BaseFacts DEF RaftInv, BaseInv
<1>1. /\ Move(i)
      /\ AppendOk(i, m) /\ log'[i] = LogAfter(log[i], m) => TookOver(i, j, m)
  BY <1>0, AppendIsMove
<1>2. AppendEffect(i, j, m)
  BY <1>0, RecvAppendEffect
<1> HIDE DEF m
<1>3. BaseInv' /\ TypeOK'
  <2>1. RaftInv'
    BY <1>1, RaftInvKept
  <2>2. BaseInv'
    BY <2>1 DEF RaftInv
  <2> QED BY <2>2, BaseFactsNext
<1>4. /\ In(net[j][i], m) /\ m \in Message /\ m.type = "appendentries" /\ m.term \in Nat
      /\ m.leader_commit \in Nat
  BY <1>2, MessageReach DEF AppendEffect
<1>5. /\ log[i] \in Seq(Entry) /\ log'[i] \in Seq(Entry) /\ commit_idx[i] \in Nat
      /\ current_term[i] \in Nat
  BY <1>0, <1>3 DEF TypeOK
<1>6. ASSUME m.term >= current_term[i], ~Missing(log[i], m),
             DeletedFrom(log[i], m) <= commit_idx[i]
      PROVE  FALSE
  <2>1. DeletedFrom(log[i], m) \in Nat /\ DeletedFrom(log[i], m) > 0
    <3>1. DeletedFrom(log[i], m) \in 1..(Len(log[i]) + 1)
      BY <1>4, <1>5, <1>6, LogAfterShape
    <3>2. Len(log[i]) \in Nat
      BY <1>5, LenProperties
    <3> QED BY <3>1, <3>2
  <2>2. commit_idx[i] > 0
    BY <1>5, <1>6, <2>1
  <2>3. PICK p \in Prefix : Fixed(p) /\ commit_idx[i] <= Len(p) /\ Guards(i, p)
    BY <2>2 DEF RaftInv, CommitKept
  <2>4. Len(p) \in Nat /\ Top(p) \in Nat /\ p \in Seq(Entry)
    BY PrefixType
  <2>5. Has(log[i], p) /\ Top(p) <= current_term[i]
    BY <2>3 DEF Guards
  <2>6. Carries(m, p)
    <3>1. CASE m.term > Top(p)
      BY <1>4, <2>3, <3>1 DEF Fixed, Pinned
    <3>2. CASE m.term = Top(p)
      <4>1. current_term[i] = Top(p)
        BY <1>4, <1>5, <1>6, <2>4, <2>5, <3>2
      <4> QED BY <1>4, <2>3, <3>2, <4>1 DEF Guards
    <3> QED BY <1>4, <1>5, <1>6, <2>4, <2>5, <3>1, <3>2
  <2>7. Len(p) < DeletedFrom(log[i], m)
    BY <1>4, <1>5, <1>6, <2>4, <2>5, <2>6, FittingKept DEF Carries
  <2> QED BY <1>5, <1>6, <2>1, <2>3, <2>4, <2>7
<1>7. ASSUME AppendOk(i, m), log'[i] = LogAfter(log[i], m), commit_idx[i] < m.leader_commit
      PROVE  LET c == MinOf(MaxOf(Len(log'[i]), 1), m.leader_commit)
             IN  commit_idx[i] <= c /\ c <= Len(log'[i])
  <2>1. TookOver(i, j, m)
    BY <1>1, <1>7
  <2>2. m.leader_commit > 0
    BY <1>4, <1>5, <1>7
  <2>3. PICK p \in Prefix : Fixed(p) /\ Tells(m, p)
    BY <1>4, <2>2 DEF RaftInv, CommitSent
  <2>4. PICK r \in Servers : Has(log[r], p)
    BY <2>3, FixedHeld
  <2>5. Has(log'[i], p)
    BY <1>0, <1>1, <1>3, <2>1, <2>3, <2>4, CarriedTaken DEF Fixed, Tells
  <2>6. Len(p) \in Nat /\ Len(log'[i]) \in Nat
    BY <1>5, PrefixType, LenProperties
  <2>7. m.leader_commit <= Len(log'[i])
    BY <1>4, <2>3, <2>5, <2>6 DEF Has, Tells
  <2> QED BY <1>4, <1>5, <1>7, <2>2, <2>6, <2>7 DEF MinOf, MaxOf
<1> QED BY <1>2, <1>6, <1>7 DEF AppendEffect, AppendFails

\* No follower acknowledges more than the leader of its term has.
LEMMA AckNoAbort ==
    ASSUME RaftInv, NEW i \in Servers, NEW j \in Servers,
           raft_recv_appendentries_response(i, j, 1)
    PROVE  state'[i] # "aborted"
<1> DEFINE m == net[j][i][1]
<1>1. TypeOK /\ NextInLog /\ NoSelf /\ AckSafe /\ 1 \in 1..Len(net[j][i])
  BY BaseFacts DEF RaftInv, BaseInv, SendInv, raft_recv_appendentries_response
<1>2. i # j
  BY <1>1 DEF NoSelf, In
<1>3. AckEffect(i, j, m)
  BY <1>1, <1>2, RecvAckEffect
<1> HIDE DEF m
<1> SUFFICES ASSUME state'[i] = "aborted" PROVE FALSE
  OBVIOUS
<1>4. /\ In(net[j][i], m) /\ m \in Message /\ m.type = "appendentries_response"
      /\ AckMine(i, m) /\ m.success /\ m.current_idx > Len(log[i])
  BY <1>3 DEF AckEffect
<1>5. m.current_idx \in Nat /\ Len(log[i]) \in Nat
  BY <1>1, <1>4, ResponseFields, LenProperties DEF TypeOK
<1>6. Acked(i, j, m.current_idx)
  BY <1>4, <1>5 DEF Acked, AckMine
<1>7. m.current_idx <= Len(log[i])
  BY <1>1, <1>2, <1>4, <1>5, <1>6 DEF AckSafe, AckMine
<1> QED BY <1>4, <1>5, <1>7

\* Every step of the specification is a move of some server, which does not abort.
LEMMA NextMove ==
    ASSUME Ordered, RaftInv, LogInv', Next
    PROVE  \E i \in Servers : Move(i) /\ (state[i] # "aborted" => state'[i] # "aborted")
<1>0. LogInv /\ TypeOK /\ NotAlone /\ NextInLog /\ ElectionInv' /\ TypeOK'
  BY BaseFacts DEF RaftInv, BaseInv, SendInv, LogInv, ElectionInv
<1>1. \A i, j \in Servers : Deliverable(i, j) = {1}
  BY DEF Deliverable
<1>2. ASSUME NEW i \in Servers, raft_periodic_apply(i)
      PROVE  Move(i) /\ state'[i] = state[i]
  BY <1>0, <1>2, ApplyIsMove DEF raft_periodic_apply
<1>3. ASSUME NEW i \in Servers, raft_periodic_leader(i)
      PROVE  Move(i) /\ state'[i] = state[i]
  BY <1>0, <1>3, LeaderIsMove DEF raft_periodic_leader
<1>4. ASSUME NEW i \in Servers, raft_periodic_election(i)
      PROVE  Move(i) /\ state'[i] # "aborted"
  <2>1. state'[i] = "candidate"
    BY <1>0, <1>4, ElectionEffect
  <2> QED BY <1>0, <1>4, <2>1, ElectionIsMove
<1>5. ASSUME NEW i \in Servers, NEW id \in Ids, raft_recv_entry(i, id)
      PROVE  Move(i) /\ state'[i] = state[i]
  <2>1. state' = state
    BY <1>5 DEF raft_recv_entry
  <2> QED BY <1>0, <1>5, <2>1, EntryIsMove
<1>6. ASSUME NEW i \in Servers, NEW j \in Servers, raft_recv_requestvote(i, j, 1)
      PROVE  Move(i) /\ state'[i] # "aborted"
  BY <1>0, <1>6, RequestvoteIsMove, RequestvoteNoAbort
<1>7. ASSUME NEW i \in Servers, NEW j \in Servers, raft_recv_requestvote_response(i, j, 1)
      PROVE  Move(i) /\ (state[i] # "aborted" => state'[i] # "aborted")
  <2>1. VoteEffect(i, j, net[j][i][1])
    BY <1>0, <1>7, RecvVoteEffect
  <2>2. state'[i] = IF state[i] = "candidate" /\ net[j][i][1].term > current_term[i]
                    THEN "follower"
                    ELSE IF Elected(i, j, net[j][i][1]) THEN "leader" ELSE state[i]
    BY <1>0, <1>7, SMTT(40) DEF raft_recv_requestvote_response, Elected, TypeOK
  <2> QED BY <1>0, <1>7, <2>2, VoteCountIsMove
<1>8. ASSUME NEW i \in Servers, NEW j \in Servers, raft_recv_appendentries(i, j, 1)
      PROVE  Move(i) /\ state'[i] # "aborted"
  BY <1>0, <1>8, AppendIsMove, AppendNoAbort
<1>9. ASSUME NEW i \in Servers, NEW j \in Servers, raft_recv_appendentries_response(i, j, 1)
      PROVE  Move(i) /\ state'[i] # "aborted"
  BY <1>0, <1>9, AckIsMove, AckNoAbort
<1>10. ASSUME NEW i \in Servers, Restart(i) \/ RestartBetweenSaves(i)
       PROVE  Move(i) /\ state'[i] # "aborted"
  <2>1. /\ current_term[i] \in Nat /\ current_term[i] + 1 \in Nat
        /\ current_term[i] >= current_term[i] /\ current_term[i] + 1 >= current_term[i]
    BY <1>0 DEF TypeOK
  <2>2. PICK term \in Nat : Reborn(i, term) /\ term >= current_term[i]
    BY <1>10, <2>1 DEF Restart, RestartBetweenSaves
  <2>3. state'[i] = "follower"
    BY <1>0, <2>2 DEF Reborn, TypeOK
  <2> QED BY <1>0, <2>2, <2>3, RebornIsMove
<1>11. ASSUME NEW i \in Servers, NEW j \in Servers, NEW n \in Deliverable(i, j)
       PROVE  n = 1
  BY <1>1
<1> QED BY <1>2, <1>3, <1>4, <1>5, <1>6, <1>7, <1>8, <1>9, <1>10, <1>11 DEF Next

LEMMA StutterIsMove ==
    ASSUME RaftInv, UNCHANGED vars, NEW i \in Servers
    PROVE  Move(i) /\ state'[i] = state[i]
<1>0. LogInv /\ TypeOK /\ NotAlone /\ ElectionInv
  BY BaseFacts DEF RaftInv, BaseInv, LogInv
<1>1. /\ net' = net /\ log' = log /\ state' = state /\ current_term' = current_term
      /\ voted_for' = voted_for /\ disk_vote' = disk_vote /\ votes' = votes
      /\ UNCHANGED <<match_idx, next_idx, commit_idx>>
  BY DEF vars
<1>2. Quiet(i)
  BY <1>1 DEF Quiet, NoNewVotes, OthersUntouched
<1>3. SendMove(i) /\ NetMove(i)
  BY <1>1 DEF SendMove, NetMove
<1>4. LogMove(i)
  BY <1>0, <1>1, <1>2, <1>3, QuietMove, QuietLeaders, SameLogs DEF LogMove
<1> QED BY <1>0, <1>1, <1>2, <1>3, <1>4, QuietGrantMove, QuietOffice, Steady DEF Move, LogStep

\* Without servers there is nothing to keep.
LEMMA NoServers ==
    ASSUME LogInv', Servers = {}
    PROVE  RaftInv' /\ AssertsHold'
<1>1. \A k, e, p : ~Occurs(k, e, p)'
  BY DEF Occurs
<1>2. TermInv'
  BY <1>1 DEF TermInv, LogTerms, TermsRise, Contiguous, LeaderHas
<1>3. AskInv' /\ SendInv' /\ AckSafe'
  BY DEF AskInv, RequestsTrue, VotesPast, NotAlone, SendInv, LeaderSends, NextInLog, AcksToLeader,
         AckSafe
<1>4. ChoiceInv' /\ CommitKept' /\ CommitSent' /\ AssertsHold'
  BY DEF ChoiceInv, CommitKept, CommitSent, AssertsHold
<1> QED BY <1>2, <1>3, <1>4 DEF RaftInv, BaseInv

LEMMA NextRaft == Ordered /\ RaftInv /\ AssertsHold /\ [Next]_vars => RaftInv' /\ AssertsHold'
<1> SUFFICES ASSUME Ordered, RaftInv, AssertsHold, [Next]_vars PROVE RaftInv' /\ AssertsHold'
  OBVIOUS
<1>0. LogInv' /\ TypeOK /\ TypeOK'
  BY NextLog, BaseFacts DEF RaftInv, BaseInv, LogInv, ElectionInv
<1>1. CASE Servers = {}
  BY <1>0, <1>1, NoServers
<1>2. CASE Servers # {}
  <2>1. PICK i \in Servers : Move(i) /\ (state[i] # "aborted" => state'[i] # "aborted")
    BY <1>0, <1>2, NextMove, StutterIsMove
  <2>2. RaftInv'
    BY <1>0, <2>1, RaftInvKept
  <2>3. \A s \in Servers \ {i} : state'[s] = state[s]
    BY <1>0, <2>1, TermsGrow
  <2> QED BY <2>1, <2>2, <2>3 DEF AssertsHold
<1> QED BY <1>1, <1>2

LEMMA InitRaft == Init => RaftInv /\ AssertsHold
<1> SUFFICES ASSUME Init PROVE RaftInv /\ AssertsHold
  OBVIOUS
<1>1. \A a, b \in Servers : \A m : ~In(net[a][b], m)
  BY EmptyChannel DEF Init, Nothing
<1>2. \A s \in Servers : log[s] = << >> /\ state[s] = "follower" /\ commit_idx[s] = 0
  BY DEF Init
<1>3. \A k, e, p : ~EntryAt(<< >>, k, e, p)
  BY EmptySeq DEF EntryAt
<1>4. \A k, e, p : ~Occurs(k, e, p)
  BY <1>1, <1>2, <1>3 DEF Occurs
<1>5. \A k, t, c : k \in Servers /\ c \in Servers => ~Grant(k, t, c)
  BY <1>1, <1>2 DEF Grant, InOffice
<1>6. TermInv
  <2>1. LogTerms
    <3>1. \A s \in Servers : \A k : ~(k \in 1..Len(log[s]))
      BY <1>2, EmptySeq
    <3> QED BY <1>1, <3>1 DEF LogTerms
  <2> QED BY <1>2, <1>4, <2>1 DEF TermInv, TermsRise, Contiguous, LeaderHas
<1>7. AskInv
  BY <1>1, <1>2, <1>5 DEF AskInv, RequestsTrue, VotesPast, NotAlone, InOffice
<1>8. SendInv /\ AckSafe
  BY <1>1, <1>2 DEF SendInv, LeaderSends, NextInLog, AcksToLeader, AckSafe
<1>9. ChoiceInv
  BY <1>2 DEF ChoiceInv
<1>10. CommitKept /\ CommitSent
  BY <1>1, <1>2 DEF CommitKept, CommitSent
<1>11. AssertsHold
  BY <1>2 DEF AssertsHold
<1> QED BY <1>6, <1>7, <1>8, <1>9, <1>10, <1>11, InitLog DEF RaftInv, BaseInv

\* Over a transport that keeps the order of the messages, for any number of
\* servers, any loss and any restarts: match_idx never counts an entry that the
\* follower no longer has.
THEOREM AcknowledgedStay ==
    ASSUME Ordered
    PROVE  Spec => []MatchHolds
<1>1. RaftInv /\ AssertsHold /\ [Next]_vars => RaftInv' /\ AssertsHold'
  BY NextRaft
<1> QED BY <1>1, InitRaft, InvMatches, PTL DEF Spec

\* Under the same condition a leader has every entry that was committed in its
\* term or before: should_grant_vote elects no server that misses one.
THEOREM LeadersComplete ==
    ASSUME Ordered
    PROVE  Spec => []LeaderComplete
<1>1. RaftInv /\ AssertsHold /\ [Next]_vars => RaftInv' /\ AssertsHold'
  BY NextRaft
<1> QED BY <1>1, InitRaft, InvComplete, PTL DEF Spec

\* Under the same condition no two servers hold different entries as committed,
\* and so raft_apply_entry gives every state machine the same sequence.
THEOREM CommitsAgree ==
    ASSUME Ordered
    PROVE  Spec => []CommittedAgree
<1>1. RaftInv /\ AssertsHold /\ [Next]_vars => RaftInv' /\ AssertsHold'
  BY NextRaft
<1> QED BY <1>1, InitRaft, InvAgree, PTL DEF Spec

\* Under the same condition no assert of the library fails.
THEOREM NoAssertFails ==
    ASSUME Ordered
    PROVE  Spec => []AssertsHold
<1>1. RaftInv /\ AssertsHold /\ [Next]_vars => RaftInv' /\ AssertsHold'
  BY NextRaft
<1> QED BY <1>1, InitRaft, PTL DEF Spec
=============================================================================
