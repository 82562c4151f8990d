---------------------------- MODULE BackendCalls ----------------------------
(***************************************************************************)
(* Calls of a vfs.Backend (src/server/internal/vfs/backend.go) that change *)
(* or list a place several clients and the outside world share.  A call is *)
(* several requests to the place, each taking effect at one moment, and    *)
(* whatever happens in between.                                            *)
(*                                                                         *)
(* The place is a directory, the empty path, with names in it and names in *)
(* those.  Each kind of backend (S3, LocalFS) keeps its own kind of store. *)
(***************************************************************************)
EXTENDS Naturals, FiniteSets, Sequences

CONSTANTS
    Clients,     \* calls that may be under way at once
    Names,       \* names in the directory
    Members,     \* names in a directory in it
    Setups,      \* [scheme, granted, page, limit]: which backend, what the
                 \* node permits, and (s3) the sizes of a page and a listing
    MaxCalls,    \* bound: calls made
    MaxOutside,  \* bound: changes from outside
    None         \* nothing: at a path, or under way

VARIABLES
    setup,    \* which of them it is
    store,    \* the place
    call,     \* the call each client has under way: what it does, where, the
              \* mask of the node it was given, and the request it makes next
    answer,   \* how the last call ended
    before,   \* history: the store when the call began, unless something else
              \* has changed it since
    calls,    \* calls made so far
    outside   \* changes from outside so far

ASSUME BoundsAssumption == MaxCalls \in Nat /\ MaxOutside \in Nat

callVars == <<setup, call, answer, before, calls, outside>>

Root == <<>>
Top == {<<n>> : n \in Names}
Paths == Top \cup {<<n, m>> : n \in Names, m \in Members}
Parent(p) == SubSeq(p, 1, Len(p) - 1)
Beneath(p, q) == Len(p) <= Len(q) /\ SubSeq(q, 1, Len(p)) = p

Operations == {"list", "put", "mkdir", "remove", "rmdir", "rename"}
OutcomeSet == {"none", "ok", "notExist", "exist", "permission", "unsupported", "failure"}

CallsOK ==
    /\ setup \in Setups
    /\ answer \in OutcomeSet
    /\ calls \in 0..MaxCalls /\ outside \in 0..MaxOutside
    /\ \A c \in Clients : call[c] # None => /\ call[c].op \in Operations
                                            /\ call[c].path \in Paths \cup {Root}
                                            /\ call[c].to \in Paths \cup {Root}

CallsInit ==
    /\ setup \in Setups
    /\ call = [c \in Clients |-> None]
    /\ answer = "none"
    /\ before = [c \in Clients |-> None]
    /\ calls = 0 /\ outside = 0

\* A call starts, with the request it makes first.
Begin(c, op, path, to, mask, request) ==
    /\ call[c] = None /\ calls < MaxCalls
    /\ calls' = calls + 1
    /\ call' = [call EXCEPT ![c] = [op |-> op, path |-> path, to |-> to, mask |-> mask,
                                    request |-> request]]
    /\ before' = [before EXCEPT ![c] = store]
    /\ UNCHANGED <<setup, answer, outside, store>>

Makes(c, request) == call[c] # None /\ call[c].request = request

\* The next request of a call, or its end.
Goes(c, request) ==
    /\ call' = [call EXCEPT ![c].request = request]
    /\ UNCHANGED <<setup, answer, calls, outside>>
Returns(c, how) ==
    /\ call' = [call EXCEPT ![c] = None]
    /\ answer' = how
    /\ UNCHANGED <<setup, calls, outside>>

\* The store changes, under every other call.
Becomes(c, new) ==
    /\ store' = new
    /\ before' = [d \in Clients |-> IF d = c THEN IF call'[c] = None THEN None ELSE before[c]
                                    ELSE IF new = store THEN before[d] ELSE None]
Stays(c) == Becomes(c, store)

FromOutside(new) ==
    /\ outside < MaxOutside
    /\ outside' = outside + 1
    /\ store' = new
    /\ before' = [d \in Clients |-> None]
    /\ UNCHANGED <<setup, call, answer, calls>>

Alone(c) == before[c] # None

\* The call of c ends with this step, and nothing else changed the store while
\* it was under way.
EndsAlone(c) == call[c] # None /\ call'[c] = None /\ Alone(c)
=============================================================================
