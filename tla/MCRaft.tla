------------------------------- MODULE MCRaft -------------------------------
EXTENDS Raft, TLC

\* Servers are compared only with each other.
Symmetry == Permutations(Servers)

\* The vote flags are read only by a candidate, which has cleared them, and the
\* progress of the other nodes only by a leader, which has reset it: what is left
\* in them at another server does not distinguish states.
View ==
    <<current_term, voted_for, state, log, commit_idx, last_applied_idx, disk_vote, net,
      [i \in Servers |-> IF state[i] = "candidate" THEN votes[i] ELSE {}],
      [i \in Servers |-> IF state[i] = "leader" THEN <<next_idx[i], match_idx[i]>> ELSE << >>]>>

Channels == Cardinality({c \in Servers \X Servers : net[c[1]][c[2]] # << >>})
Short == \A i \in Servers : Len(log[i]) <= 1 /\ \A k \in 1 .. Len(log[i]) : log[i][k].id = 1
Unapplied == \A i \in Servers : last_applied_idx[i] = 0

(* Channels that hold a message at the same time: four while every log has *)
(* at most one entry and nothing is applied, three when it is applied, two *)
(* when the logs are longer, before anything is applied.                   *)
FewMessages ==
    \/ Channels <= 4 /\ Short /\ Unapplied
    \/ Channels <= 3 /\ Short
    \/ Channels <= 2 /\ Unapplied
=============================================================================
