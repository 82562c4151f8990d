------------------------------- MODULE Server -------------------------------
(***************************************************************************)
(* The server process: main.go, and New, ListenAndServe, listenAll and     *)
(* serveListener in src/server/internal/server/server.go, with one         *)
(* connection (Connection).                                                *)
(*                                                                         *)
(* The process reads its configuration, prepares what serves it, opens a   *)
(* listener for each address, all of them or none, and serves them until   *)
(* it is told to stop.  It does not wait for its connections then.         *)
(***************************************************************************)
EXTENDS Connection

CONSTANTS
    Documents   \* configurations it may be started with

ASSUME DocumentAssumption ==
    \A c \in Documents : c.prefixes # None => c.prefixes \in Seq(Seq(STRING))

VARIABLES
    document,   \* the configuration, until it has been acted upon
    server,     \* how far the process has come
    addresses,  \* the addresses to listen on, in order
    listeners,  \* those that have a listener open
    acceptors,  \* those whose accept loop runs
    cancelled   \* the process was told to stop

serverVars == <<document, server, addresses, listeners, acceptors, cancelled>>
vars == <<settings, serverVars, connVars>>

NoSettings == [mode |-> "none", static |-> {}, grace |-> FALSE, timeout |-> FALSE]
Settings(c) ==
    [mode |-> Mode(c), static |-> StaticUsers(c),
     grace |-> LoginGrace(c) > 0, timeout |-> RequestTimeout(c.auth) > 0]

\* listenAll: an IP address is one address to listen on, and a name or nothing
\* two of them.
Addresses(bind) ==
    CASE bind = "ipv4" -> <<"tcp4">>
      [] bind = "ipv6" -> <<"tcp6">>
      [] OTHER -> <<"tcp4", "tcp6">>

TypeOK ==
    /\ ConnectionTypeOK
    /\ document \in Documents \cup {None}
    /\ settings.mode \in Modes /\ settings.static \subseteq ValidNames
    /\ server \in {"loading", "loaded", "listening", "serving", "stopping", "returned", "failed"}
    /\ listeners \subseteq {"tcp4", "tcp6"} /\ acceptors \subseteq {"tcp4", "tcp6"}
    /\ cancelled \in BOOLEAN

Init ==
    /\ document \in Documents
    /\ settings = NoSettings
    /\ server = "loading"
    /\ addresses = <<>> /\ listeners = {} /\ acceptors = {}
    /\ cancelled = FALSE
    /\ NoConnection

OnlyServer == UNCHANGED connVars
Fails == server' = "failed"

\* config.Load.
Load ==
    /\ server = "loading"
    /\ IF Valid(document) THEN server' = "loaded" /\ UNCHANGED document
       ELSE Fails /\ document' = None
    /\ UNCHANGED <<settings, addresses, listeners, acceptors, cancelled>> /\ OnlyServer

\* server.New.  A host key, a prefix, a bucket's credentials or the staging
\* directory may not be there.
New ==
    /\ server = "loaded"
    /\ document' = None
    /\ \/ Fails /\ UNCHANGED <<settings, addresses>>
       \/ /\ settings' = Settings(document)
          /\ addresses' = Addresses(document.bind)
          /\ server' = "listening"
    /\ UNCHANGED <<listeners, acceptors, cancelled>> /\ OnlyServer

\* listenAll: the next address, or the loops that accept on all of them.
Next1 == addresses[1]
Listen ==
    /\ server = "listening" /\ addresses # <<>>
    /\ \/ /\ listeners' = listeners \cup {Next1}
          /\ addresses' = Tail(addresses)
          /\ UNCHANGED server
       \/ /\ listeners' = {}
          /\ addresses' = <<>>
          /\ Fails
    /\ UNCHANGED <<settings, document, acceptors, cancelled>> /\ OnlyServer

StartAccepting ==
    /\ server = "listening" /\ addresses = <<>>
    /\ server' = "serving"
    /\ acceptors' = listeners
    /\ UNCHANGED <<settings, document, addresses, listeners, cancelled>> /\ OnlyServer

\* serveListener.  An accept that fails otherwise is tried again, at once.
Accept(a) ==
    /\ a \in acceptors /\ a \in listeners
    /\ Connect
    /\ UNCHANGED <<settings, serverVars>>

StopAccepting(a) ==
    /\ a \in acceptors /\ a \notin listeners
    /\ acceptors' = acceptors \ {a}
    /\ UNCHANGED <<settings, document, server, addresses, listeners, cancelled>> /\ OnlyServer

\* The process is told to stop.  Its context ends every POST under way.
Cancel ==
    /\ server \in {"listening", "serving"} /\ ~cancelled
    /\ cancelled' = TRUE
    /\ UNCHANGED <<settings, document, server, addresses, listeners, acceptors>> /\ OnlyServer

CloseListeners ==
    /\ server = "serving" /\ cancelled
    /\ listeners' = {}
    /\ server' = "stopping"
    /\ UNCHANGED <<settings, document, addresses, acceptors, cancelled>> /\ OnlyServer

\* Mutant: the accept loops are not waited for.
ReturnAtOnce ==
    /\ server = "stopping"
    /\ server' = "returned"
    /\ UNCHANGED <<settings, document, addresses, listeners, acceptors, cancelled>> /\ OnlyServer

Return ==
    /\ server = "stopping" /\ acceptors = {}
    /\ server' = "returned"
    /\ UNCHANGED <<settings, document, addresses, listeners, acceptors, cancelled>> /\ OnlyServer

ServerStep ==
    \/ Load \/ New \/ Listen \/ StartAccepting \/ Cancel \/ CloseListeners \/ Return
    \/ \E a \in acceptors : Accept(a) \/ StopAccepting(a)

Next == ServerStep \/ (ConnectionStep /\ UNCHANGED <<settings, serverVars>>)

\* Goroutines run, and timers that were set go off: the login deadline, a POST's
\* timeout or the process's end, the ticker and a probe's interval.  Clients,
\* the backend and whoever stops the process owe nothing.
Steps(A) == A /\ UNCHANGED <<settings, serverVars>>
PostEnds == phase = "handshake" /\ (settings.timeout \/ cancelled) /\ PostFails
            /\ UNCHANGED <<phase, deadline, cut, silent, aliveVars>>
CallbackRuns == phase = "handshake" /\ Callback
                /\ UNCHANGED <<phase, deadline, cut, silent, aliveVars>>

Fairness ==
    /\ WF_vars(Load) /\ WF_vars(New) /\ WF_vars(Listen) /\ WF_vars(StartAccepting)
    /\ WF_vars(CloseListeners) /\ WF_vars(Return)
    /\ \A a \in {"tcp4", "tcp6"} : WF_vars(StopAccepting(a))
    /\ WF_vars(Steps(CallbackRuns)) /\ WF_vars(Steps(PostEnds))
    /\ WF_vars(Steps(HandshakeFails)) /\ WF_vars(Steps(HandshakeSucceeds))
    /\ WF_vars(Steps(Serve)) /\ WF_vars(Steps(ChannelsEnd))
    /\ WF_vars(Steps(DeadlinePasses))
    /\ WF_vars(Steps(Keeper)) /\ WF_vars(Steps(ProbeEnds)) /\ WF_vars(Steps(ProbeFails))

Spec == Init /\ [][Next]_vars /\ Fairness

-----------------------------------------------------------------------------
(* A configuration that is accepted is one that can be served: nothing in  *)
(* a static user's tree names a place that the backends, which ask again   *)
(* at request time, would refuse, and no path lies inside two prefixes.    *)
(* (config.go: validateLocalPaths, validateS3Buckets and FileBackend's     *)
(* Validate, against filesystem(), localfs.resolve and s3fs.resolve)       *)
ValidIsServed ==
    server = "loaded" =>
        \A u \in ToSet(document.users) : \A n \in ToSet(u.tree) :
            n.url # NoURL => /\ Served(document, n)
                             /\ n.url.scheme = "file" =>
                                    Cardinality(Serving(document, n.url)) = 1

(* Once ListenAndServe has returned, or has failed to listen on any of its *)
(* addresses, no listener is open and no loop accepts.  Connections that   *)
(* were accepted before go on, a handshake among them may still succeed.   *)
(* (server.go: listenAll, ListenAndServe)                                  *)
NothingListensAfter ==
    server \in {"returned", "failed"} => listeners = {} /\ acceptors = {}

(* Connections that should end do, and a process told to stop returns,     *)
(* whatever its clients, its backends and its connections are up to.       *)
(* (server.go: ListenAndServe, and as for ConnectionsEnd)                  *)
EverythingEnds == ConnectionsEnd /\ (cancelled ~> server \in {"returned", "failed"})
=============================================================================
