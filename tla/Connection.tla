----------------------------- MODULE Connection -----------------------------
(***************************************************************************)
(* One connection from accept to its end: serveConnection and clientAlive  *)
(* in src/server/internal/server/server.go.                                *)
(*                                                                         *)
(* Until a client is let in, the connection has a deadline; from then on   *)
(* clientAlive probes it.  Each probe is a goroutine of its own in         *)
(* SendRequest, which x/crypto (external) lets one goroutine into at a     *)
(* time, and which returns when the client answers or the connection is    *)
(* gone.  A probe whose interval has passed is an old one: its answer, if  *)
(* it comes, reaches nobody.                                               *)
(***************************************************************************)
EXTENDS Auth

CONSTANTS
    Alives   \* what users state about probing

ASSUME AliveAssumption == \A a \in Alives : a.ms \in Int /\ a.countMax \in Int \cup {None}

VARIABLES
    phase,       \* how far serveConnection has come
    deadline,    \* the connection has its login deadline
    cut,         \* reads and writes of the connection fail
    silent,      \* the client does nothing any more
    alive,       \* the user's policy
    keeper,      \* clientAlive: off, waiting for a tick, or for an answer
    unanswered,  \* clientAlive's count
    probe,       \* the current probe
    inside,      \* the probe that is in SendRequest: current, old or none
    waiting,     \* old probes that wait to get in
    mutexMode,   \* external: whether the mutex they wait for is handed to them
    missed       \* history: intervals in a row without the probe's answer

aliveVars == <<alive, keeper, unanswered, probe, inside, waiting, mutexMode, missed>>
connVars == <<phase, deadline, cut, silent, aliveVars, authVars>>

Quiet == /\ keeper = "off" /\ probe = "none" /\ inside = "none" /\ waiting = 0

NoConnection ==
    /\ phase = "none" /\ deadline = FALSE /\ cut = FALSE /\ silent = FALSE /\ alive = None
    /\ unanswered = 0 /\ missed = 0 /\ mutexMode = "normal"
    /\ Quiet /\ Fresh

ConnectionTypeOK ==
    /\ AuthTypeOK
    /\ phase \in {"none", "handshake", "loggedIn", "served", "gone"}
    /\ deadline \in BOOLEAN /\ cut \in BOOLEAN /\ silent \in BOOLEAN
    /\ alive \in Alives \cup {None}
    /\ keeper \in {"off", "tick", "probe"}
    /\ unanswered \in Nat /\ missed \in Nat /\ waiting \in Nat
    /\ probe \in {"none", "waiting", "sent", "answered", "failed"}
    /\ inside \in {"none", "current", "old"} /\ mutexMode \in {"normal", "starvation"}

\* clientAlive probes at all.
Watched == alive # None /\ AliveInterval(alive) > 0 /\ AliveCountMax(alive) > 0

-----------------------------------------------------------------------------
(* Logging in.                                                             *)

\* A connection is accepted.  (Bound: one at a time.)
Connect ==
    /\ phase \in {"none", "gone"} /\ Quiet
    /\ phase' = "handshake"
    /\ deadline' = settings.grace
    /\ cut' = FALSE /\ silent' = FALSE
    /\ alive' = None /\ unanswered' = 0 /\ missed' = 0 /\ mutexMode' = "normal"
    /\ Reset
    /\ UNCHANGED <<keeper, probe, inside, waiting>>

Negotiates ==
    /\ phase = "handshake"
    /\ \/ ~cut /\ ~silent /\ ClientAsks
       \/ Callback
       \/ BackendAnswers
       \/ PostFails
    /\ UNCHANGED <<phase, deadline, cut, silent, aliveVars>>

\* NewServerConn returns once no callback is running.
HandshakeFails ==
    /\ phase = "handshake" /\ request = None
    /\ cut \/ tries = MaxTries
    /\ phase' = "gone"
    /\ UNCHANGED <<deadline, cut, silent, aliveVars, authVars>>

HandshakeSucceeds ==
    /\ phase = "handshake" /\ session # None /\ ~cut
    /\ phase' = "loggedIn"
    /\ UNCHANGED <<deadline, cut, silent, aliveVars, authVars>>

\* The deadline is cleared and clientAlive starts.  What the callbacks kept,
\* and the history of it, matters to nothing from here on and is dropped.
Configurable(a) == session.user \in settings.static =>
                       a.ms >= 0 /\ (a.countMax # None => a.countMax >= 0)
Serve ==
    /\ phase = "loggedIn"
    /\ phase' = "served"
    /\ deadline' = FALSE
    /\ \E a \in Alives : Configurable(a) /\ alive' = a
    /\ keeper' = IF Watched' THEN "tick" ELSE "off"
    /\ Reset
    /\ UNCHANGED <<cut, silent, unanswered, probe, inside, waiting, mutexMode, missed>>

\* The channel loop ends with the connection, and done is closed: phase gone.
\* (Channels of a served connection, and what runs on them, change nothing
\* here; serveConnection does not wait for them.)
ChannelsEnd ==
    /\ phase = "served" /\ cut
    /\ phase' = "gone"
    /\ UNCHANGED <<deadline, cut, silent, aliveVars, authVars>>

\* The world.
DeadlinePasses ==
    /\ deadline /\ ~cut /\ phase \in {"handshake", "loggedIn"}
    /\ cut' = TRUE
    /\ UNCHANGED <<phase, deadline, silent, aliveVars, authVars>>

HangsUp ==
    /\ phase \in {"handshake", "loggedIn", "served"} /\ ~cut /\ ~silent
    /\ cut' = TRUE
    /\ UNCHANGED <<phase, deadline, silent, aliveVars, authVars>>

FallsSilent ==
    /\ phase \in {"handshake", "loggedIn", "served"} /\ ~cut /\ ~silent
    /\ silent' = TRUE
    /\ UNCHANGED <<phase, deadline, cut, aliveVars, authVars>>

-----------------------------------------------------------------------------
(* clientAlive.                                                            *)
OnlyKeeper == UNCHANGED <<phase, deadline, silent, alive, authVars>>

\* select finds done closed, whatever else is ready.  A probe still under way
\* becomes an old one.
Abandon ==
    /\ probe' = "none"
    /\ waiting' = IF probe = "waiting" THEN waiting + 1 ELSE waiting
    /\ inside' = IF probe = "sent" THEN "old" ELSE inside

KeeperDone ==
    /\ keeper # "off" /\ phase = "gone"
    /\ keeper' = "off"
    /\ Abandon
    /\ UNCHANGED <<cut, unanswered, mutexMode, missed>> /\ OnlyKeeper

Tick ==
    /\ keeper = "tick"
    /\ keeper' = "probe" /\ probe' = "waiting"
    /\ UNCHANGED <<cut, unanswered, inside, waiting, mutexMode, missed>> /\ OnlyKeeper

\* Mutant: an answer does not start the count anew.
AnsweredInVain ==
    /\ keeper = "probe" /\ probe = "answered"
    /\ keeper' = "tick" /\ probe' = "none" /\ missed' = 0
    /\ UNCHANGED <<cut, unanswered, inside, waiting, mutexMode>> /\ OnlyKeeper

Answered ==
    /\ keeper = "probe" /\ probe = "answered"
    /\ keeper' = "tick" /\ probe' = "none"
    /\ unanswered' = 0 /\ missed' = 0
    /\ UNCHANGED <<cut, inside, waiting, mutexMode>> /\ OnlyKeeper

Failed ==
    /\ keeper = "probe" /\ probe = "failed"
    /\ keeper' = "off" /\ probe' = "none"
    /\ UNCHANGED <<cut, unanswered, inside, waiting, mutexMode, missed>> /\ OnlyKeeper

\* Mutants: one interval too many, and no Close at the end of them.
EnoughOneLate(n) == n > AliveCountMax(alive)
StopProbing == keeper' = "off" /\ UNCHANGED cut

Enough(n) == n >= AliveCountMax(alive)

GiveUp == keeper' = "off" /\ cut' = TRUE

IntervalPasses ==
    /\ keeper = "probe"
    /\ unanswered' = unanswered + 1 /\ missed' = missed + 1
    /\ Abandon
    /\ IF Enough(unanswered + 1) THEN GiveUp ELSE keeper' = "tick" /\ UNCHANGED cut
    /\ UNCHANGED mutexMode /\ OnlyKeeper

\* SendRequest: a probe gets in.  A sync.Mutex that is let go of wakes who has
\* waited longest, but whoever comes by before that one runs may take it first;
\* the one that was woken for nothing, and has waited for over a millisecond,
\* then has it handed to it, and so have those behind it, until none is left.
\* (Bound: who is overtaken learns of it before the other is out again.)
GetsIn(who) ==
    /\ inside = "none"
    /\ inside' = IF cut THEN "none" ELSE who
    /\ \/ /\ who = "old" /\ waiting > 0
          /\ waiting' = waiting - 1
          /\ mutexMode' \in IF waiting' > 0 THEN {mutexMode}
                            ELSE {"normal"} \cup IF probe = "waiting" THEN {mutexMode} ELSE {}
          /\ UNCHANGED probe
       \/ /\ who = "current" /\ probe = "waiting"
          /\ waiting > 0 => mutexMode = "normal"
          /\ mutexMode' = IF waiting > 0 THEN "starvation" ELSE "normal"
          /\ probe' = IF cut THEN "failed" ELSE "sent"
          /\ UNCHANGED waiting
    /\ UNCHANGED <<cut, keeper, unanswered, missed>> /\ OnlyKeeper

\* It gets out, with the client's answer or with the connection's end.
GetsOut(outcome) ==
    /\ inside # "none"
    /\ inside' = "none"
    /\ probe' = IF inside = "current" THEN outcome ELSE probe
    /\ UNCHANGED <<cut, keeper, unanswered, waiting, mutexMode, missed>> /\ OnlyKeeper

ClientAnswers == ~cut /\ ~silent /\ GetsOut("answered")
ProbeEnds == \E who \in {"old", "current"} : GetsIn(who)
ProbeFails == cut /\ GetsOut("failed")

Keeper == KeeperDone \/ Tick \/ Answered \/ Failed \/ IntervalPasses

ConnectionStep ==
    \/ Negotiates \/ HandshakeFails \/ HandshakeSucceeds \/ Serve \/ ChannelsEnd
    \/ DeadlinePasses \/ HangsUp \/ FallsSilent
    \/ Keeper \/ ClientAnswers \/ ProbeEnds \/ ProbeFails

-----------------------------------------------------------------------------
(* A connection clientAlive closes is one whose client let countMax probes *)
(* in a row go without an answer in time, however late the answers to      *)
(* earlier probes come in.                                                 *)
(* (server.go: clientAlive)                                                *)
KeptWhileItAnswers ==
    [][cut' /\ ~cut /\ keeper = "probe" /\ keeper' = "off"
          => missed' >= AliveCountMax(alive)]_connVars

(* The probes of a connection that have not come back, the ones waiting    *)
(* for their turn included, are fewer than twice countMax.  They are not   *)
(* at most countMax, as server.go:279-280 has it: a probe that overtakes   *)
(* the old ones and is answered starts the count anew while they are out.  *)
(* (server.go: clientAlive)                                                *)
Outstanding ==
    waiting + (IF inside = "old" THEN 1 ELSE 0)
            + (IF probe \in {"waiting", "sent"} THEN 1 ELSE 0)
ProbesAreFew ==
    alive # None => Outstanding = 0 \/ Outstanding < 2 * AliveCountMax(alive)

(* A client that does not log in is got rid of, if there is a deadline and *)
(* POSTs to the authentication backend time out; and a client that falls   *)
(* silent, if it is probed at all, with every goroutine that probed it.    *)
(* (server.go: serveConnection's deadline, clientAlive; auth.go: postTo)   *)
ConnectionsEnd ==
    /\ (phase = "handshake" /\ deadline /\ settings.timeout) ~> phase # "handshake"
    /\ (phase = "served" /\ silent /\ Watched) ~> (phase = "gone" /\ Quiet)
=============================================================================
