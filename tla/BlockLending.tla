---------------------------- MODULE BlockLending ----------------------------
(***************************************************************************)
(* What the memory pool of a compiled model promises to the threads that   *)
(* run inferences: a block of device memory is either at hand or lent to   *)
(* exactly one client, it comes back only from the client it was lent to,  *)
(* and while a block is at hand and a client asks for one, some client is  *)
(* served.  How clients wait, and in which order they are served, is left  *)
(* open.                                                                   *)
(***************************************************************************)
CONSTANTS Clients, Blocks, None

VARIABLES
    pool,     \* the blocks at hand
    asking,   \* the clients that asked for a block and have none yet
    lent      \* lent[c]: the block client c has, or None

vars == <<pool, asking, lent>>

Init ==
    /\ pool \in (SUBSET Blocks) \ {{}}
    /\ asking = {}
    /\ lent = [c \in Clients |-> None]

Ask(c) ==
    /\ c \notin asking
    /\ lent[c] = None
    /\ asking' = asking \union {c}
    /\ UNCHANGED <<pool, lent>>

Lend(c) ==
    /\ c \in asking
    /\ \E b \in pool :
         /\ pool' = pool \ {b}
         /\ lent' = [lent EXCEPT ![c] = b]
    /\ asking' = asking \ {c}

Return(c) ==
    /\ lent[c] # None
    /\ pool' = pool \union {lent[c]}
    /\ lent' = [lent EXCEPT ![c] = None]
    /\ UNCHANGED asking

(* The owner may give memory up, but only blocks nobody has and never all. *)
Shrink ==
    /\ pool' \in (SUBSET pool) \ {{}}
    /\ pool' # pool
    /\ UNCHANGED <<asking, lent>>

Next ==
    \/ \E c \in Clients : Ask(c) \/ Lend(c) \/ Return(c)
    \/ Shrink

(* Somebody is served as long as a block is at hand and somebody asks, and *)
(* a loan ends.                                                            *)
Fairness ==
    /\ WF_vars(\E c \in Clients : Lend(c))
    /\ \A c \in Clients : WF_vars(Return(c))

Spec == Init /\ [][Next]_vars /\ Fairness
=============================================================================
