-------------------------------- MODULE Raft --------------------------------
(***************************************************************************)
(* The replication library src/raft/raft.hpp: a fixed set of voting nodes, *)
(* the messages between them, and restarts from what the callbacks saved.  *)
(* One action per entry point of the library.  timeout_elapsed is          *)
(* abstracted: a timeout may fire at any call of raft_periodic.            *)
(* current_leader and first_idx are only reported, never read; entries     *)
(* carry a term and the client's id.                                       *)
(***************************************************************************)
EXTENDS Integers, Sequences, FiniteSets

CONSTANTS
    Servers,      \* the nodes, all voting
    Ids,          \* ids of the entries clients submit; 0 is refused by the log
    None,         \* voted_for = -1
    Ordered,      \* TRUE: the transport keeps the order and does not duplicate
    MaxTerm,      \* bound on the number of elections
    MaxLog,       \* bound on the length of a log
    MaxInFlight   \* messages a channel holds; a further one pushes the oldest out

ASSUME RaftAssumption ==
    /\ IsFiniteSet(Servers) /\ None \notin Servers
    /\ Ids \subseteq Nat /\ Ordered \in BOOLEAN
    /\ MaxTerm \in Nat /\ MaxLog \in Nat /\ MaxInFlight \in Nat \ {0}

VARIABLES
    current_term, voted_for, state, log, commit_idx, last_applied_idx,
    votes,        \* votes[i]: the nodes whose RAFT_NODE_VOTED_FOR_ME flag is set at i
    next_idx, match_idx,
    disk_vote,    \* what persist_vote saved last; the term and the log on disk
                  \* are always those in memory
    net           \* net[i][j]: the messages from i to j, oldest first

vars == <<current_term, voted_for, state, log, commit_idx, last_applied_idx,
          votes, next_idx, match_idx, disk_vote, net>>
electionVars == <<current_term, voted_for, votes, disk_vote>>
progressVars == <<next_idx, match_idx>>

Entry == [term : Nat, id : Nat]
States == {"follower", "candidate", "leader", "aborted"}
Message ==
    [type : {"requestvote"}, term : Nat, last_log_idx : Nat, last_log_term : Nat]
    \cup [type : {"requestvote_response"}, term : Nat, vote_granted : BOOLEAN]
    \cup [type : {"appendentries"}, term : Nat, leader_commit : Nat,
          prev_log_idx : Nat, prev_log_term : Nat, entries : Seq(Entry)]
    \cup [type : {"appendentries_response"}, term : Nat, success : BOOLEAN,
          current_idx : Nat]

TypeOK ==
    /\ current_term \in [Servers -> Nat]
    /\ voted_for \in [Servers -> Servers \cup {None}]
    /\ state \in [Servers -> States]
    /\ log \in [Servers -> Seq(Entry)]
    /\ commit_idx \in [Servers -> Nat]
    /\ last_applied_idx \in [Servers -> Nat]
    /\ votes \in [Servers -> SUBSET Servers]
    /\ next_idx \in [Servers -> [Servers -> Nat \ {0}]]
    /\ match_idx \in [Servers -> [Servers -> Nat]]
    /\ disk_vote \in [Servers -> Servers \cup {None}]
    /\ net \in [Servers -> [Servers -> Seq(Message)]]

-----------------------------------------------------------------------------
MinOf(a, b) == IF a < b THEN a ELSE b
MaxOf(a, b) == IF a < b THEN b ELSE a
TermAt(l, idx) == IF idx \in 1..Len(l) THEN l[idx].term ELSE 0
raft_get_last_log_term(l) == TermAt(l, Len(l))
raft_votes_is_majority(nvotes) ==
    nvotes <= Cardinality(Servers) /\ Cardinality(Servers) \div 2 + 1 <= nvotes
\* With the candidate's own vote: voted_for is its own id while it is candidate.
raft_get_nvotes_for_me(i, flags) ==
    Cardinality(flags \ {i}) + (IF voted_for[i] = i THEN 1 ELSE 0)

\* The transport: a channel that is full loses its oldest message.  A message is
\* also as good as lost while it stays in the channel.
Enqueue(q, ms) ==
    IF Len(q) + Len(ms) <= MaxInFlight THEN q \o ms ELSE Tail(q) \o ms
\* base with out[j] put on the channel from i to every j.
Sent(base, i, out) ==
    [base EXCEPT ![i] = [j \in Servers |-> Enqueue(base[i][j], out[j])]]
Nothing == [j \in Servers |-> << >>]
To(j, m) == [Nothing EXCEPT ![j] = <<m>>]
Without(q, n) == SubSeq(q, 1, n - 1) \o SubSeq(q, n + 1, Len(q))
\* Message n of the channel from j to i is taken off, or, where the transport
\* may duplicate, stays.
Taken(j, i, n) ==
    {[net EXCEPT ![j][i] = q] :
        q \in {Without(net[j][i], n)} \cup (IF Ordered THEN {} ELSE {net[j][i]})}

\* Mutant: the previous index is decremented twice.
Appendentries_PrevTwice(term, l, commit, next) ==
    [type |-> "appendentries", term |-> term, leader_commit |-> commit,
     prev_log_idx |-> next - 2, prev_log_term |-> TermAt(l, next - 2),
     entries |-> SubSeq(l, next, Len(l))]
\* raft_send_appendentries to a node with the given next_idx, from log l.
Appendentries(term, l, commit, next) ==
    [type |-> "appendentries", term |-> term, leader_commit |-> commit,
     prev_log_idx |-> next - 1, prev_log_term |-> TermAt(l, next - 1),
     entries |-> SubSeq(l, next, Len(l))]
raft_send_appendentries_all(i) ==
    [j \in Servers |-> IF j = i THEN << >>
        ELSE <<Appendentries(current_term[i], log[i], commit_idx[i], next_idx[i][j])>>]

-----------------------------------------------------------------------------
Init ==
    /\ current_term = [i \in Servers |-> 0]
    /\ voted_for = [i \in Servers |-> None]
    /\ state = [i \in Servers |-> "follower"]
    /\ log = [i \in Servers |-> << >>]
    /\ commit_idx = [i \in Servers |-> 0]
    /\ last_applied_idx = [i \in Servers |-> 0]
    /\ votes = [i \in Servers |-> {}]
    /\ next_idx = [i \in Servers |-> [j \in Servers |-> 1]]
    /\ match_idx = [i \in Servers |-> [j \in Servers |-> 0]]
    /\ disk_vote = [i \in Servers |-> None]
    /\ net = [i \in Servers |-> Nothing]

\* Mutant: the test against commit_idx is off by one.
raft_apply_entry_Early(i) ==
    last_applied_idx' = [last_applied_idx EXCEPT ![i] =
        IF @ <= commit_idx[i] /\ @ < Len(log[i]) THEN @ + 1 ELSE @]
\* The end of raft_periodic: at most one committed entry is applied.
raft_apply_entry(i) ==
    last_applied_idx' = [last_applied_idx EXCEPT ![i] =
        IF @ < commit_idx[i] /\ @ < Len(log[i]) THEN @ + 1 ELSE @]

\* raft_periodic with no timeout.
raft_periodic_apply(i) ==
    /\ state[i] # "aborted"
    /\ last_applied_idx[i] < commit_idx[i]
    /\ raft_apply_entry(i)
    /\ UNCHANGED <<electionVars, state, log, commit_idx, progressVars, net>>

\* raft_periodic of a leader whose request timeout has passed.
raft_periodic_leader(i) ==
    /\ state[i] = "leader"
    /\ net' = Sent(net, i, raft_send_appendentries_all(i))
    /\ raft_apply_entry(i)
    /\ UNCHANGED <<electionVars, state, log, commit_idx, progressVars>>

\* raft_periodic of another server whose election timeout has passed:
\* raft_election_start, raft_become_candidate.
raft_periodic_election(i) ==
    /\ state[i] \in {"follower", "candidate"}
    /\ Cardinality(Servers) > 1
    /\ current_term[i] < MaxTerm
    /\ current_term' = [current_term EXCEPT ![i] = @ + 1]
    /\ voted_for' = [voted_for EXCEPT ![i] = i]
    /\ disk_vote' = [disk_vote EXCEPT ![i] = i]
    /\ votes' = [votes EXCEPT ![i] = {}]
    /\ state' = [state EXCEPT ![i] = "candidate"]
    /\ net' = Sent(net, i, [j \in Servers |-> IF j = i THEN << >> ELSE
                <<[type |-> "requestvote", term |-> current_term[i] + 1,
                   last_log_idx |-> Len(log[i]),
                   last_log_term |-> raft_get_last_log_term(log[i])]>>])
    /\ raft_apply_entry(i)
    /\ UNCHANGED <<log, commit_idx, progressVars>>

\* raft_recv_entry: a client's entry at the leader.  Only the nodes that were up
\* to date get it at once.  log_append_entry refuses the id 0.
raft_recv_entry(i, id) ==
    LET l == IF id = 0 THEN log[i]
             ELSE Append(log[i], [term |-> current_term[i], id |-> id])
    IN  /\ state[i] = "leader"
        /\ Len(log[i]) < MaxLog
        /\ log' = [log EXCEPT ![i] = l]
        /\ net' = Sent(net, i, [j \in Servers |->
                    IF j # i /\ next_idx[i][j] = Len(l)
                    THEN <<Appendentries(current_term[i], l, commit_idx[i], Len(l))>>
                    ELSE << >>])
        /\ commit_idx' = [commit_idx EXCEPT ![i] =
                            IF Cardinality(Servers) = 1 THEN Len(l) ELSE @]
        /\ UNCHANGED <<electionVars, state, last_applied_idx, progressVars>>

-----------------------------------------------------------------------------
\* raft_recv_requestvote

\* Mutant: the logs are not compared.
should_grant_vote_AnyLog(i, m) ==
    /\ m.term >= current_term[i]
    /\ m.term > current_term[i] \/ voted_for[i] = None
\* Mutant: the terms of the last entries are compared the wrong way round.
should_grant_vote_Swapped(i, m) ==
    /\ m.term >= current_term[i]
    /\ m.term > current_term[i] \/ voted_for[i] = None
    /\ raft_get_last_log_term(log[i]) >= m.last_log_term
\* __raft__should_grant_vote, after the term of the request has been taken over.
should_grant_vote(i, m) ==
    /\ m.term >= current_term[i]
    /\ m.term > current_term[i] \/ voted_for[i] = None
    /\ \/ log[i] = << >>
       \/ raft_get_last_log_term(log[i]) < m.last_log_term
       \/ /\ raft_get_last_log_term(log[i]) = m.last_log_term
          /\ Len(log[i]) <= m.last_log_idx

raft_recv_requestvote(i, j, n) ==
    /\ state[i] # "aborted"
    /\ n \in 1..Len(net[j][i]) /\ net[j][i][n].type = "requestvote"
    /\ LET m == net[j][i][n]
           newer == m.term > current_term[i]
           role == IF newer THEN "follower" ELSE state[i]
           \* assert: neither a leader nor a candidate grants a vote
           aborts == should_grant_vote(i, m) /\ role # "follower"
           grant == should_grant_vote(i, m) /\ role = "follower"
       IN  /\ current_term' = [current_term EXCEPT ![i] = MaxOf(@, m.term)]
           /\ voted_for' = [voted_for EXCEPT ![i] =
                              IF grant THEN j ELSE IF newer THEN None ELSE @]
           /\ disk_vote' = [disk_vote EXCEPT ![i] = IF grant THEN j ELSE @]
           /\ state' = [state EXCEPT ![i] = IF aborts THEN "aborted" ELSE role]
           /\ \E base \in Taken(j, i, n) :
                net' = Sent(base, i, IF aborts THEN Nothing ELSE
                    To(j, [type |-> "requestvote_response",
                           term |-> MaxOf(current_term[i], m.term),
                           vote_granted |-> grant]))
    /\ UNCHANGED <<votes, log, commit_idx, last_applied_idx, progressVars>>

\* raft_recv_requestvote_response with raft_become_leader
raft_recv_requestvote_response(i, j, n) ==
    /\ state[i] # "aborted"
    /\ n \in 1..Len(net[j][i]) /\ net[j][i][n].type = "requestvote_response"
    /\ LET m == net[j][i][n]
           newer == state[i] = "candidate" /\ m.term > current_term[i]
           vote == state[i] = "candidate" /\ m.term = current_term[i] /\ m.vote_granted
           flags == votes[i] \cup {j}
           elected == vote /\ raft_votes_is_majority(raft_get_nvotes_for_me(i, flags))
           next == Len(log[i]) + 1
       IN  /\ current_term' = [current_term EXCEPT ![i] = IF newer THEN m.term ELSE @]
           /\ voted_for' = [voted_for EXCEPT ![i] = IF newer THEN None ELSE @]
           /\ votes' = [votes EXCEPT ![i] = IF vote THEN flags ELSE @]
           /\ state' = [state EXCEPT ![i] = IF newer THEN "follower"
                                            ELSE IF elected THEN "leader" ELSE @]
           /\ next_idx' = [next_idx EXCEPT ![i] =
                             IF elected THEN [k \in Servers |-> next] ELSE @]
           /\ match_idx' = [match_idx EXCEPT ![i] =
                              IF elected THEN [k \in Servers |-> 0] ELSE @]
           /\ \E base \in Taken(j, i, n) :
                net' = Sent(base, i, [k \in Servers |->
                    IF elected /\ k # i
                    THEN <<Appendentries(current_term[i], log[i], commit_idx[i], next)>>
                    ELSE << >>])
    /\ UNCHANGED <<disk_vote, log, commit_idx, last_applied_idx>>

-----------------------------------------------------------------------------
\* raft_recv_appendentries, by the conditions in the order of the code.

Missing(l, m) == m.prev_log_idx > Len(l)
Mismatch(l, m) == m.prev_log_idx \in 1..Len(l) /\ l[m.prev_log_idx].term # m.prev_log_term
\* A message without entries deletes what follows prev_log_idx, if more than one
\* entry follows.
Trims(l, m) == m.entries = << >> /\ m.prev_log_idx > 0 /\ m.prev_log_idx + 1 < Len(l)
\* Mutant: an entry of another term is taken for the one in the message.
Differs_ByLength(l, m) == {n \in 1..Len(m.entries) : m.prev_log_idx + n > Len(l)}
\* Where the entries of the message first differ from the log or leave it.
Differs(l, m) == {n \in 1..Len(m.entries) :
    \/ m.prev_log_idx + n > Len(l)
    \/ l[m.prev_log_idx + n].term # m.entries[n].term}
FirstDiff(l, m) == CHOOSE n \in Differs(l, m) : \A k \in Differs(l, m) : n <= k
\* Mutant: the previous entry is deleted too.
DeletedFrom_WithPrevious(l, m) ==
    IF Mismatch(l, m) \/ Trims(l, m) THEN m.prev_log_idx
    ELSE IF Differs(l, m) # {} THEN m.prev_log_idx + FirstDiff(l, m)
    ELSE Len(l) + 1
\* Mutant: an entry that differs is not deleted.
DeletedFrom_NotOnConflict(l, m) ==
    IF Mismatch(l, m) THEN m.prev_log_idx
    ELSE IF Trims(l, m) THEN m.prev_log_idx + 1
    ELSE Len(l) + 1
\* The index from which the log is deleted, Len + 1 if nothing is.
DeletedFrom(l, m) ==
    IF Mismatch(l, m) THEN m.prev_log_idx
    ELSE IF Trims(l, m) THEN m.prev_log_idx + 1
    ELSE IF Differs(l, m) # {} THEN m.prev_log_idx + FirstDiff(l, m)
    ELSE Len(l) + 1
LogAfter(l, m) ==
    LET kept == SubSeq(l, 1, DeletedFrom(l, m) - 1)
    IN  IF Mismatch(l, m) \/ Differs(l, m) = {} THEN kept
        ELSE kept \o SubSeq(m.entries, FirstDiff(l, m), Len(m.entries))

raft_recv_appendentries(i, j, n) ==
    /\ state[i] # "aborted"
    /\ n \in 1..Len(net[j][i]) /\ net[j][i][n].type = "appendentries"
    /\ LET m == net[j][i][n]
           newer == m.term > current_term[i]
           rival == state[i] = "candidate" /\ m.term = current_term[i]
           fresh == m.term >= current_term[i] /\ ~Missing(log[i], m)
           ok == fresh /\ ~Mismatch(log[i], m)
           l == IF fresh THEN LogAfter(log[i], m) ELSE log[i]
           commit == IF ok /\ commit_idx[i] < m.leader_commit
                     THEN MinOf(MaxOf(Len(l), 1), m.leader_commit) ELSE commit_idx[i]
           \* assert: only entries that are not committed are deleted
           delete_fails == /\ fresh /\ DeletedFrom(log[i], m) <= Len(log[i])
                           /\ DeletedFrom(log[i], m) <= commit_idx[i]
           \* assert in raft_set_commit_idx
           commit_fails == commit # commit_idx[i] /\ ~(commit_idx[i] <= commit /\ commit <= Len(l))
           aborts == delete_fails \/ commit_fails
           current == IF ok THEN m.prev_log_idx + Len(m.entries)
                      ELSE IF fresh THEN m.prev_log_idx - 1 ELSE Len(log[i])
       IN  /\ current_term' = [current_term EXCEPT ![i] = MaxOf(@, m.term)]
           /\ voted_for' = [voted_for EXCEPT ![i] = IF newer \/ rival THEN None ELSE @]
           /\ state' = [state EXCEPT ![i] = IF aborts THEN "aborted"
                                            ELSE IF newer \/ rival THEN "follower" ELSE @]
           /\ log' = [log EXCEPT ![i] = IF delete_fails THEN @ ELSE l]
           /\ commit_idx' = [commit_idx EXCEPT ![i] = IF aborts THEN @ ELSE commit]
           /\ \E base \in Taken(j, i, n) :
                net' = Sent(base, i, IF aborts THEN Nothing ELSE
                    To(j, [type |-> "appendentries_response",
                           term |-> MaxOf(current_term[i], m.term), success |-> ok,
                           current_idx |-> current]))
    /\ UNCHANGED <<votes, disk_vote, last_applied_idx, progressVars>>

\* raft_recv_appendentries_response

\* The nodes that hold the log of leader i up to point, counted by an entry of
\* the current term.  match is match_idx[i] with the new answer in it.
Holders(i, match, point) ==
    {k \in Servers \ {i} : /\ match[k] > 0
                           /\ TermAt(log[i], match[k]) = current_term[i]
                           /\ point <= match[k]}

raft_recv_appendentries_response(i, j, n) ==
    /\ state[i] # "aborted"
    /\ n \in 1..Len(net[j][i]) /\ net[j][i][n].type = "appendentries_response"
    /\ LET m == net[j][i][n]
           stale == m.current_idx # 0 /\ m.current_idx <= match_idx[i][j]
           newer == ~stale /\ state[i] = "leader" /\ m.term > current_term[i]
           mine == ~stale /\ state[i] = "leader" /\ m.term = current_term[i]
           \* assert: the follower is not ahead of the leader
           aborts == mine /\ m.success /\ m.current_idx > Len(log[i])
           next == IF m.success THEN m.current_idx + 1
                   ELSE IF m.current_idx < next_idx[i][j] - 1
                   THEN MaxOf(1, MinOf(m.current_idx + 1, Len(log[i])))
                   ELSE MaxOf(1, next_idx[i][j] - 1)
           match == [match_idx[i] EXCEPT ![j] = IF m.success THEN m.current_idx ELSE @]
           commits == /\ mine /\ m.success
                      /\ Cardinality(Servers) \div 2 <
                            1 + Cardinality(Holders(i, match, m.current_idx))
                      /\ commit_idx[i] < m.current_idx
           commit == IF commits THEN m.current_idx ELSE commit_idx[i]
       IN  /\ current_term' = [current_term EXCEPT ![i] = IF newer THEN m.term ELSE @]
           /\ voted_for' = [voted_for EXCEPT ![i] = IF newer THEN None ELSE @]
           /\ state' = [state EXCEPT ![i] = IF aborts THEN "aborted"
                                            ELSE IF newer THEN "follower" ELSE @]
           /\ next_idx' = [next_idx EXCEPT ![i][j] = IF mine /\ ~aborts THEN next ELSE @]
           /\ match_idx' = [match_idx EXCEPT ![i] = IF mine /\ ~aborts THEN match ELSE @]
           /\ commit_idx' = [commit_idx EXCEPT ![i] = IF aborts THEN @ ELSE commit]
           /\ \E base \in Taken(j, i, n) :
                net' = Sent(base, i,
                    IF mine /\ ~aborts /\ (~m.success \/ next <= Len(log[i]))
                    THEN To(j, Appendentries(current_term[i], log[i], commit, next))
                    ELSE Nothing)
    /\ UNCHANGED <<votes, disk_vote, log, last_applied_idx>>

-----------------------------------------------------------------------------
\* Mutant: the saved vote is not read back.
Reborn_NoVote(i, term) ==
    /\ current_term' = [current_term EXCEPT ![i] = term]
    /\ voted_for' = [voted_for EXCEPT ![i] = None]
    /\ state' = [state EXCEPT ![i] = "follower"]
    /\ commit_idx' = [commit_idx EXCEPT ![i] = 0]
    /\ last_applied_idx' = [last_applied_idx EXCEPT ![i] = 0]
    /\ votes' = [votes EXCEPT ![i] = {}]
    /\ next_idx' = [next_idx EXCEPT ![i] = [j \in Servers |-> 1]]
    /\ match_idx' = [match_idx EXCEPT ![i] = [j \in Servers |-> 0]]
    /\ UNCHANGED <<log, disk_vote, net>>
\* A server stops and comes back with raft_new and what it has saved: term and
\* log, and the vote that was saved last, whatever the term it was cast in.
Reborn(i, term) ==
    /\ current_term' = [current_term EXCEPT ![i] = term]
    /\ voted_for' = [voted_for EXCEPT ![i] = disk_vote[i]]
    /\ state' = [state EXCEPT ![i] = "follower"]
    /\ commit_idx' = [commit_idx EXCEPT ![i] = 0]
    /\ last_applied_idx' = [last_applied_idx EXCEPT ![i] = 0]
    /\ votes' = [votes EXCEPT ![i] = {}]
    /\ next_idx' = [next_idx EXCEPT ![i] = [j \in Servers |-> 1]]
    /\ match_idx' = [match_idx EXCEPT ![i] = [j \in Servers |-> 0]]
    /\ UNCHANGED <<log, disk_vote, net>>

Restart(i) == Reborn(i, current_term[i])

\* It stops after persist_term of a new term, before persist_vote.
RestartBetweenSaves(i) ==
    /\ state[i] \in {"follower", "candidate"}
    /\ current_term[i] < MaxTerm
    /\ Reborn(i, current_term[i] + 1)

Deliverable(i, j) == IF Ordered THEN {1} ELSE 1..Len(net[j][i])

Next ==
    \/ \E i \in Servers : raft_periodic_apply(i)
    \/ \E i \in Servers : raft_periodic_leader(i)
    \/ \E i \in Servers : raft_periodic_election(i)
    \/ \E i \in Servers, id \in Ids : raft_recv_entry(i, id)
    \/ \E i, j \in Servers : \E n \in Deliverable(i, j) : raft_recv_requestvote(i, j, n)
    \/ \E i, j \in Servers : \E n \in Deliverable(i, j) : raft_recv_requestvote_response(i, j, n)
    \/ \E i, j \in Servers : \E n \in Deliverable(i, j) : raft_recv_appendentries(i, j, n)
    \/ \E i, j \in Servers : \E n \in Deliverable(i, j) : raft_recv_appendentries_response(i, j, n)
    \/ \E i \in Servers : Restart(i)
    \/ \E i \in Servers : RestartBetweenSaves(i)

Spec == Init /\ [][Next]_vars

-----------------------------------------------------------------------------
\* At most one server is leader of a term, although a candidate's vote is reset
\* by an appendentries message of its own term (raft_recv_appendentries) and the
\* saved vote may be older than the saved term.
ElectionSafety ==
    \A i, j \in Servers :
        state[i] = "leader" /\ state[j] = "leader" /\ current_term[i] = current_term[j]
            => i = j

\* No assert of the library fails: a leader or candidate does not grant a vote,
\* committed entries are not deleted, commit_idx stays inside the log, no
\* follower acknowledges more than the leader has.
AssertsHold == \A i \in Servers : state[i] # "aborted"

\* What two servers hold as committed is the same: no two state machines are
\* given different entries by raft_apply_entry.
CommittedAgree ==
    \A i, j \in Servers : \A k \in 1..MinOf(commit_idx[i], commit_idx[j]) :
        log[i][k] = log[j][k]

\* A leader has every entry that a server of its term or an earlier one holds as
\* committed (should_grant_vote and the counting of raft_recv_appendentries_response).
LeaderComplete ==
    \A i, j \in Servers :
        state[i] = "leader" /\ current_term[j] <= current_term[i]
            => /\ commit_idx[j] <= Len(log[i])
               /\ \A k \in 1..commit_idx[j] : log[i][k] = log[j][k]

\* Entries of the same index and term have the same history: what
\* raft_recv_appendentries deletes and appends never joins two logs in the middle.
LogMatching ==
    \A i, j \in Servers : \A k \in 1..MinOf(Len(log[i]), Len(log[j])) :
        log[i][k].term = log[j][k].term => SubSeq(log[i], 1, k) = SubSeq(log[j], 1, k)

\* A server applies only committed entries, and these are in its log.
AppliedCommitted ==
    \A i \in Servers : last_applied_idx[i] <= commit_idx[i] /\ commit_idx[i] <= Len(log[i])

\* What a follower has acknowledged stays in its log while the leader's term
\* lasts: match_idx, from which raft_recv_appendentries_response commits, never
\* counts an entry that a later message or a restart has taken away.
MatchHolds ==
    \A i, j \in Servers :
        i # j /\ state[i] = "leader" /\ current_term[j] <= current_term[i]
            => /\ match_idx[i][j] <= Len(log[j])
               /\ \A k \in 1..match_idx[i][j] : log[j][k] = log[i][k]
=============================================================================
