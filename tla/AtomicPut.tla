----------------------------- MODULE AtomicPut -----------------------------
(***************************************************************************)
(* What an upload promises the client and whoever reads the file: a store  *)
(* holding one file, which changes only when a finished upload replaces    *)
(* the whole of it in one step, by exactly the content the client said it  *)
(* had finished sending.  An upload answered "ok" has done so.             *)
(***************************************************************************)
CONSTANTS
    Uploads,   \* attempts to replace the file
    Contents,  \* what a file may hold
    None,      \* nobody has replaced the file yet
    Initial    \* what it held before

VARIABLES
    state,     \* of each upload: "unfinished", "offered" or "settled"
    offered,   \* what its client finished sending
    answer,    \* what its client was told
    store      \* the file: who replaced it last, and what it holds

vars == <<state, offered, answer, store>>

Init ==
    /\ state = [u \in Uploads |-> "unfinished"]
    /\ offered = [u \in Uploads |-> Initial]
    /\ answer = [u \in Uploads |-> "none"]
    /\ store = [by |-> None, data |-> Initial]

\* The client finishes: what it sent is now the whole of what it means to store.
Offer(u, data) ==
    /\ state[u] = "unfinished"
    /\ state' = [state EXCEPT ![u] = "offered"]
    /\ offered' = [offered EXCEPT ![u] = data]
    /\ UNCHANGED <<answer, store>>

\* The store takes it.  The answer saying so may be lost on the way.
Put(u, told) ==
    /\ state[u] = "offered"
    /\ state' = [state EXCEPT ![u] = "settled"]
    /\ store' = [by |-> u, data |-> offered[u]]
    /\ answer' = [answer EXCEPT ![u] = told]
    /\ UNCHANGED offered

\* The store does not take it, which is never answered "ok".
Decline(u) ==
    /\ state[u] = "offered"
    /\ state' = [state EXCEPT ![u] = "settled"]
    /\ answer' = [answer EXCEPT ![u] = "failure"]
    /\ UNCHANGED <<offered, store>>

\* An upload that never finished may be answered too, with a failure.
Refuse(u) ==
    /\ state[u] = "unfinished"
    /\ answer' = [answer EXCEPT ![u] = "failure"]
    /\ UNCHANGED <<state, offered, store>>

Next ==
    \E u \in Uploads :
       \/ \E data \in Contents : Offer(u, data)
       \/ \E told \in {"ok", "failure"} : Put(u, told)
       \/ Decline(u)
       \/ Refuse(u)

Spec == Init /\ [][Next]_vars
=============================================================================
