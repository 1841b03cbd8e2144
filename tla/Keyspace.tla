------------------------------ MODULE Keyspace ------------------------------
(***************************************************************************)
(* The keyspace of the server: EntryManager (the table db_ and the TTL     *)
(* heap heap_) driven by the handlers of CommandProcessor.                 *)
(*                                                                         *)
(* The server's poll loop is the only thread that reaches them, so one     *)
(* handler is one step.  What makes the steps delicate is inside them:     *)
(*                                                                         *)
(*  - HTable::insert never looks for the key, it pushes a node in front:   *)
(*    the nodes of one key form a stack, chain[k], whose last element is   *)
(*    the node that lookup and remove find;                                *)
(*  - a heap item holds a raw pointer (position_ref_) to the heap_idx of   *)
(*    an entry: a `ref' is the key and the place of the entry in its       *)
(*    stack, which never changes while the entry lives;                    *)
(*  - three code paths lock a std::shared_mutex the calling thread already *)
(*    owns.  The standard leaves that undefined; the builds the project    *)
(*    targets either throw std::system_error (libstdc++) or block for ever *)
(*    (libc++).  Both outcomes are modelled.  Where the second lock is     *)
(*    taken in a noexcept function, the exception terminates the process.  *)
(***************************************************************************)
EXTENDS Integers, FiniteSets, HeapOps

CONSTANTS
    Keys,               \* keys clients use
    Vals,               \* string values clients store
    TTLs,               \* arguments of PEXPIRE, in milliseconds
    k_min_cap,          \* buckets of a fresh HTable (4 in the code)
    k_max_load_factor,  \* nodes per bucket that trigger start_resize (8)
    UsecPerMs,          \* microseconds per millisecond (1000)
    Word,               \* 2^64: uint64_t arithmetic is modulo Word
    MaxClock            \* bound on the clock

ASSUME KeyspaceAssumption ==
    /\ k_min_cap \in Nat \ {0}
    /\ k_max_load_factor \in Nat \ {0}
    /\ UsecPerMs \in Nat \ {0}
    /\ Word \in Nat \ {0}
    /\ MaxClock \in Nat
    /\ TTLs \subseteq Nat

VARIABLES
    chain,   \* db_: for every key the stack of its entries, oldest first
    size,    \* db_.primary_table_.size_
    heap,    \* heap_.items_
    now,     \* get_monotonic_usec()
    status,  \* the process: "up", "hung" (blocked for ever) or "aborted"
    last     \* the last command and its reply

vars == <<chain, size, heap, now, status, last>>

None == 0                \* static_cast<size_t>(-1); positions are 1-based
NoVal == ""              \* value of an entry whose ZSet is empty
NoKey == ""              \* FLUSHALL and rejected commands concern no key
MaxNodes == k_min_cap * k_max_load_factor

Entry == [kind : {"str", "zset"}, value : Vals \cup {NoVal}, heap_idx : Nat]
HeapItem == [value : Nat, ref : Keys \X (Nat \ {0})]
Commands == {"none", "get", "set", "del", "exists", "flushall", "zadd", "zrem",
             "pexpire", "pttl", "invalid"}
Replies == ({"int"} \X Int) \cup ({"str"} \X (Vals \cup {NoVal, "OK"})) \cup {<<"nil", "">>}
             \cup ({"err"} \X {"ARG", "UNKNOWN", "TYPE"}) \cup {<<"closed", "">>, <<"lost", "">>}

int(n) == <<"int", n>>
str(s) == <<"str", s>>
nil == <<"nil", "">>
err(e) == <<"err", e>>
closed == <<"closed", "">>   \* the exception reaches the event loop, which closes the connection
lost == <<"lost", "">>       \* the process never answers

Reply(cmd, k, r) == last' = [cmd |-> cmd, key |-> k, reply |-> r]

-----------------------------------------------------------------------------
(* EntryManager::find_entry and the entry the handlers then use            *)

Found(k) == chain[k] # <<>>
Top(k) == Len(chain[k])
find_entry(k) == chain[k][Top(k)]

\* Every item at a position in `path' stores its position through position_ref_.
WriteRefs(c, h, path) ==
    [k \in Keys |-> [n \in DOMAIN c[k] |->
        IF \E i \in path : h[i].ref = <<k, n>>
        THEN [c[k][n] EXCEPT !.heap_idx = CHOOSE i \in path : h[i].ref = <<k, n>>]
        ELSE c[k][n]]]

\* push sifts the new item up.  The last two statements then store size() - 1
\* in the entry, whatever position the item was sifted to, and update that
\* position.
add_to_heap(k, expire_at) ==
    LET end == Len(heap) + 1
        appended == Append(heap, [value |-> expire_at, ref |-> <<k, Top(k)>>])
        pushed == sift_up(appended, end)
        indexed == [WriteRefs(chain, pushed, UpPath(appended, end))
                        EXCEPT ![k][Top(k)].heap_idx = end]
    IN  /\ heap' = update(pushed, end)
        /\ chain' = WriteRefs(indexed, heap', UpdatePath(pushed, end))

\* Writes the item at heap_idx, whichever entry that item belongs to.
update_heap(k, expire_at) ==
    LET pos == find_entry(k).heap_idx
        written == [heap EXCEPT ![pos].value = expire_at]
    IN  IF pos \in DOMAIN heap
        THEN /\ heap' = update(written, pos)
             /\ chain' = WriteRefs(chain, heap', UpdatePath(written, pos))
        ELSE UNCHANGED <<chain, heap>>

Expiry(ttl) == (now + ttl * UsecPerMs) % Word

\* Mutant: a second TTL is pushed again instead of updated.
MutAlwaysPush(k, ttl) == add_to_heap(k, Expiry(ttl))

\* set_entry_ttl with a positive TTL.
set_entry_ttl(k, ttl) ==
    IF find_entry(k).heap_idx = None
    THEN add_to_heap(k, Expiry(ttl))
    ELSE update_heap(k, Expiry(ttl))

\* The cast of a uint64_t to int64_t.
Signed(x) == IF x >= Word \div 2 THEN x - Word ELSE x

get_expiry_time(k) ==
    LET pos == find_entry(k).heap_idx
        remaining == Signed(((heap[pos].value - now) % Word) \div UsecPerMs)
    IN  IF pos \in DOMAIN heap /\ remaining > 0 THEN remaining ELSE -1

-----------------------------------------------------------------------------
(* Locking a shared_mutex this thread owns                                 *)

\* ... in a function an exception can leave: the handler is abandoned.
RelockThrows(cmd, k) ==
    \/ status' = "up" /\ Reply(cmd, k, closed)
    \/ status' = "hung" /\ Reply(cmd, k, lost)

\* ... in a noexcept function.
RelockAborts(cmd, k) ==
    /\ status' \in {"aborted", "hung"}
    /\ Reply(cmd, k, lost)

-----------------------------------------------------------------------------
(* db_.insert: at the maximal load factor start_resize locks map_mutex_,   *)
(* which insert holds, so the table never grows.                           *)

TableFull == size >= MaxNodes

NewEntry(kind, v) == [kind |-> kind, value |-> v, heap_idx |-> None]

create_entry(k, e) ==
    /\ chain' = [chain EXCEPT ![k] = Append(@, e)]
    /\ size' = size + 1

\* Mutant: the entry is removed from the table and its heap item is left.
MutDeleteLeavesItem(cmd, k) ==
    /\ chain' = [chain EXCEPT ![k] = SubSeq(@, 1, Len(@) - 1)]
    /\ size' = size - 1
    /\ Reply(cmd, k, int(1))
    /\ UNCHANGED status

\* Mutant: size_ is decremented before the item is taken off the heap, which
\* may abandon the command.
MutDeleteCountsFirst(cmd, k) ==
    /\ size' = size - 1
    /\ IF find_entry(k).heap_idx \in DOMAIN heap
       THEN RelockAborts(cmd, k) /\ UNCHANGED chain
       ELSE /\ chain' = [chain EXCEPT ![k] = SubSeq(@, 1, Len(@) - 1)]
            /\ Reply(cmd, k, int(1))
            /\ UNCHANGED status

\* delete_entry of a key that is in the table.  remove_from_heap calls
\* heap_.pop(), which locks heap_mutex_ and then calls empty(), which locks it
\* again and is noexcept.
delete_entry(cmd, k) ==
    IF find_entry(k).heap_idx \in DOMAIN heap
    THEN /\ RelockAborts(cmd, k)
         /\ UNCHANGED <<chain, size>>
    ELSE /\ chain' = [chain EXCEPT ![k] = SubSeq(@, 1, Len(@) - 1)]
         /\ size' = size - 1
         /\ Reply(cmd, k, int(1))
         /\ UNCHANGED status

-----------------------------------------------------------------------------
(* The command handlers                                                    *)

\* A command that reads and answers.
ReadOnly(cmd, k, r) ==
    /\ status = "up"
    /\ Reply(cmd, k, r)
    /\ UNCHANGED <<chain, size, heap, now, status>>

handle_get(k) ==
    ReadOnly("get", k,
        IF ~Found(k) THEN nil
        ELSE IF find_entry(k).kind = "str" THEN str(find_entry(k).value)
        ELSE err("TYPE"))

handle_exists(k) == ReadOnly("exists", k, int(IF Found(k) THEN 1 ELSE 0))

handle_pttl(k) ==
    ReadOnly("pttl", k, int(IF Found(k) THEN get_expiry_time(k) ELSE -2))

\* The ZSet of an entry is always empty (see handle_zadd): nothing to remove.
handle_zrem(k) ==
    ReadOnly("zrem", k,
        IF Found(k) /\ find_entry(k).kind # "zset" THEN err("TYPE") ELSE int(0))

\* No arguments, an unknown command, a wrong number of arguments, a score or
\* a TTL that does not parse, a negative TTL.
process_invalid == \E e \in {"ARG", "UNKNOWN"} : ReadOnly("invalid", NoKey, err(e))

\* Mutant: start_resize moves the table away before it takes the lock.
MutResizeMovesFirst(k, v) ==
    /\ status = "up"
    /\ IF TableFull
       THEN RelockThrows("set", k) /\ chain' = [j \in Keys |-> <<>>] /\ size' = 0
       ELSE /\ create_entry(k, NewEntry("str", v))
            /\ Reply("set", k, str("OK"))
            /\ UNCHANGED status
    /\ UNCHANGED <<heap, now>>

handle_set(k, v) ==
    /\ status = "up"
    /\ IF TableFull
       THEN RelockThrows("set", k) /\ UNCHANGED <<chain, size>>
       ELSE /\ create_entry(k, NewEntry("str", v))
            /\ Reply("set", k, str("OK"))
            /\ UNCHANGED status
    /\ UNCHANGED <<heap, now>>

\* Mutant: size_ is decremented although the key was not found.
MutDelCountsMissing(k) ==
    /\ status = "up"
    /\ IF Found(k)
       THEN delete_entry("del", k)
       ELSE Reply("del", k, int(0)) /\ size' = size - 1 /\ UNCHANGED <<chain, status>>
    /\ UNCHANGED <<heap, now>>

handle_del(k) ==
    /\ status = "up"
    /\ IF Found(k)
       THEN delete_entry("del", k)
       ELSE Reply("del", k, int(0)) /\ UNCHANGED <<chain, size, status>>
    /\ UNCHANGED <<heap, now>>

handle_flushall ==
    /\ status = "up"
    /\ chain' = [j \in Keys |-> <<>>]
    /\ size' = 0
    /\ heap' = <<>>
    /\ Reply("flushall", NoKey, int(1))
    /\ UNCHANGED <<now, status>>

\* ZSet::add_internal locks zset_mutex_ and calls lookup, which locks it again:
\* no member is ever added.  The empty ZSet the handler created before stays.
handle_zadd(k) ==
    /\ status = "up"
    /\ IF Found(k) /\ find_entry(k).kind # "zset"
       THEN Reply("zadd", k, err("TYPE")) /\ UNCHANGED <<chain, size, status>>
       ELSE /\ RelockThrows("zadd", k)
            /\ IF Found(k) \/ TableFull
               THEN UNCHANGED <<chain, size>>
               ELSE create_entry(k, NewEntry("zset", NoVal))
    /\ UNCHANGED <<heap, now>>

handle_pexpire(k, ttl) ==
    /\ status = "up"
    /\ IF ~Found(k)
       THEN Reply("pexpire", k, int(0)) /\ UNCHANGED <<chain, size, heap, status>>
       ELSE IF ttl = 0
       THEN delete_entry("pexpire", k) /\ UNCHANGED heap
       ELSE /\ set_entry_ttl(k, ttl)
            /\ Reply("pexpire", k, int(1))
            /\ UNCHANGED <<size, status>>
    /\ UNCHANGED now

\* Time passes between two commands.
Tick ==
    /\ now < MaxClock
    /\ now' = now + 1
    /\ UNCHANGED <<chain, size, heap, status, last>>

-----------------------------------------------------------------------------
Init ==
    /\ chain = [k \in Keys |-> <<>>]
    /\ size = 0
    /\ heap = <<>>
    /\ now = 0
    /\ status = "up"
    /\ last = [cmd |-> "none", key |-> NoKey, reply |-> nil]

Next ==
    \/ \E k \in Keys :
        \/ handle_get(k)
        \/ handle_exists(k)
        \/ handle_pttl(k)
        \/ handle_zrem(k)
        \/ \E v \in Vals : handle_set(k, v)
        \/ handle_del(k)
        \/ handle_zadd(k)
        \/ \E ttl \in TTLs : handle_pexpire(k, ttl)
    \/ handle_flushall
    \/ process_invalid
    \/ Tick

Spec == Init /\ [][Next]_vars

-----------------------------------------------------------------------------
(* Properties                                                              *)

\* Every variable keeps its type; the heap_idx of an entry is a position or None.
TypeOK ==
    /\ chain \in [Keys -> Seq(Entry)]
    /\ size \in Nat
    /\ heap \in Seq(HeapItem)
    /\ now \in 0 .. MaxClock
    /\ status \in {"up", "hung", "aborted"}
    /\ last \in [cmd : Commands, key : Keys \cup {NoKey}, reply : Replies]

Live(ref) == ref[2] \in DOMAIN chain[ref[1]]
EntryAt(ref) == chain[ref[1]][ref[2]]

\* position_ref_ is a raw pointer into an entry.  Every item of the heap points
\* to an entry that is still in the table and that knows it has a TTL, so the
\* sift loops never write through a dangling pointer.
RefsLive ==
    \A i \in DOMAIN heap : Live(heap[i].ref) /\ EntryAt(heap[i].ref).heap_idx # None

\* The heap_idx of an entry with a TTL is a position of the heap, so the range
\* checks of update_heap, remove_from_heap and get_expiry_time never fail.
IdxInHeap ==
    \A k \in Keys : \A n \in DOMAIN chain[k] :
        chain[k][n].heap_idx \in {None} \cup DOMAIN heap

\* The pointers from the heap into the table and the indexes from the table into
\* the heap are both usable, after any sequence of commands.
RefsSound == RefsLive /\ IdxInHeap

\* An entry that has a TTL has exactly one item in the heap, over any sequence
\* of SET, DEL, PEXPIRE and FLUSHALL on the same keys.
OneItemPerTtl ==
    \A k \in Keys : \A n \in DOMAIN chain[k] :
        chain[k][n].heap_idx # None =>
            \E i \in DOMAIN heap :
                \A j \in DOMAIN heap : heap[j].ref = <<k, n>> <=> i = j

\* The heap stays a min-heap on the deadlines, although add_to_heap leaves
\* wrong indexes behind and update_heap then writes to the wrong position.
HeapOrdered ==
    \A i \in DOMAIN heap : i > 1 => heap[parent(i)].value <= heap[i].value

\* Every item's owner holds that item's position: what the comment on
\* position_ref_ says it is for.
RefExact ==
    \A i \in DOMAIN heap : EntryAt(heap[i].ref).heap_idx = i

\* Updating the deadline of a key never makes exact indexes inexact: only a
\* step that adds an item (the store after the push in add_to_heap) does.
UpdateKeepsRefsExact ==
    [][RefExact /\ Len(heap') = Len(heap) => RefExact']_vars

\* A command that is abandoned by an exception, or that never returns, leaves
\* every entry that was stored before it in place.
AbandonedCommandKeepsData ==
    [][last'.reply \in {closed, lost} =>
        \A k \in Keys : \A n \in DOMAIN chain[k] :
            n \in DOMAIN chain'[k] /\ chain'[k][n] = chain[k][n]]_vars

\* The nodes of the table, as the refs that would point to them.
Nodes == UNION {{k} \X DOMAIN chain[k] : k \in Keys}

\* size_ counts the nodes of the table, duplicates of a key included, after any
\* mix of SETs, ZADDs, DELs and a FLUSHALL and of commands abandoned half-way:
\* insert throws the table away when size_ is 0 and resizes it when it is full.
SizeExact == Cardinality(Nodes) = size
=============================================================================
