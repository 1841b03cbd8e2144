----------------------------- MODULE KeyStacks -----------------------------
(***************************************************************************)
(* What HMap promises its users: for every key a stack of values.  insert  *)
(* pushes, find reads the top, remove pops, clear empties every stack.     *)
(* The table refuses to hold more than MaxNodes values; the insert that is *)
(* refused does not return normally.                                       *)
(***************************************************************************)
EXTENDS Naturals, Sequences, FiniteSets

CONSTANTS Keys, Vals, MaxNodes, Nothing

VARIABLES stack, ret

svars == <<stack, ret>>

Places == UNION {{k} \X DOMAIN stack[k] : k \in Keys}
Full == Cardinality(Places) >= MaxNodes

SInit == stack = [k \in Keys |-> <<>>] /\ ret = "void"

SInsert(k, v) ==
    /\ ~Full
    /\ stack' = [stack EXCEPT ![k] = Append(@, v)]
    /\ ret' = "void"

SRefuse == Full /\ ret' \in {"threw", "hung"} /\ UNCHANGED stack

STop(k) == IF stack[k] = <<>> THEN Nothing ELSE stack[k][Len(stack[k])]

SFind(k) == ret' = STop(k) /\ UNCHANGED stack

SRemove(k) ==
    /\ ret' = STop(k)
    /\ stack' = [stack EXCEPT ![k] = IF @ = <<>> THEN @ ELSE SubSeq(@, 1, Len(@) - 1)]

SClear == stack' = [k \in Keys |-> <<>>] /\ ret' = "void"

SNext ==
    /\ ret # "hung"
    /\ \/ \E k \in Keys : SFind(k) \/ SRemove(k) \/ \E v \in Vals : SInsert(k, v)
       \/ SRefuse
       \/ SClear

SSpec == SInit /\ [][SNext]_svars
=============================================================================
