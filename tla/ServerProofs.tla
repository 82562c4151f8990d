---------------------------- MODULE ServerProofs ----------------------------
(***************************************************************************)
(* Proofs about the server process and its connections (Server): types,    *)
(* listeners, probes, sessions, and what a valid document is served from.  *)
(***************************************************************************)
EXTENDS Server, FiniteSetTheorems, TLAPS

-----------------------------------------------------------------------------
(* Listeners.                                                              *)

\* Until the process serves, no loop accepts; from then on what it opened is
\* closed before it returns.
ListenInv ==
    /\ server \in {"loading", "loaded"} => listeners = {}
    /\ server \in {"loading", "loaded", "listening"} => acceptors = {}
    /\ server = "stopping" => listeners = {}
    /\ NothingListensAfter

LEMMA ListenStep == ListenInv /\ [Next]_vars => ListenInv'
<1> SUFFICES ASSUME ListenInv, [Next]_vars PROVE ListenInv'
    OBVIOUS
<1> USE DEF ListenInv, NothingListensAfter
<1>1. CASE Load BY <1>1 DEF Load, Fails
<1>2. CASE New BY <1>2 DEF New, Fails
<1>3. CASE Listen BY <1>3 DEF Listen, Fails
<1>4. CASE StartAccepting BY <1>4 DEF StartAccepting
<1>5. CASE Cancel BY <1>5 DEF Cancel
<1>6. CASE CloseListeners BY <1>6 DEF CloseListeners
<1>7. CASE Return BY <1>7 DEF Return
<1>8. ASSUME NEW a \in acceptors, Accept(a) PROVE ListenInv'
    BY <1>8 DEF Accept, serverVars
<1>9. ASSUME NEW a \in acceptors, StopAccepting(a) PROVE ListenInv'
    BY <1>9 DEF StopAccepting
<1>10. CASE UNCHANGED serverVars BY <1>10 DEF serverVars
<1> QED
    BY <1>1, <1>2, <1>3, <1>4, <1>5, <1>6, <1>7, <1>8, <1>9, <1>10
       DEF Next, ServerStep, vars

(* Once the process has returned or failed, nothing listens or accepts.    *)
(* (server.go: listenAll, ListenAndServe)                                  *)
THEOREM NothingIsLeftListening == Spec => []NothingListensAfter
<1>1. Init => ListenInv BY DEF Init, ListenInv, NothingListensAfter
<1>2. ListenInv => NothingListensAfter BY DEF ListenInv
<1> QED BY <1>1, <1>2, ListenStep, PTL DEF Spec

-----------------------------------------------------------------------------
(* Probes.                                                                 *)

\* An old probe cost its user an interval of the count, until a later one that
\* overtook it started the count anew.  That takes a mutex that is not handed
\* over, behind which no more can wait than the count says; and it is handed over
\* from then on, so that no other overtakes before they are all in.
Old == waiting + (IF inside = "old" THEN 1 ELSE 0)
Early == phase \in {"none", "handshake", "loggedIn"}
Probing == keeper \in {"tick", "probe"}

KeeperInv ==
    /\ alive \in Alives \cup {None}
    /\ keeper \in {"off", "tick", "probe"}
    /\ probe \in {"none", "waiting", "sent", "answered", "failed"}
    /\ inside \in {"none", "current", "old"}
    /\ waiting \in Nat /\ unanswered \in Nat /\ missed = unanswered
    /\ Early => Quiet /\ unanswered = 0
    /\ keeper = "probe" <=> probe # "none"
    /\ probe = "sent" <=> inside = "current"
    /\ Probing => /\ alive # None /\ unanswered < AliveCountMax(alive)
                  /\ Old < unanswered + AliveCountMax(alive)
                  /\ mutexMode = "normal" => waiting <= unanswered
    /\ probe \in {"sent", "answered"} => /\ Old < AliveCountMax(alive)
                                         /\ mutexMode = "normal" => waiting = 0
    /\ alive # None => Old = 0 \/ Old < 2 * AliveCountMax(alive)

\* How many probes may go unanswered is a number, whatever the user states.
LEMMA CountMaxIsNat == \A a \in Alives : AliveCountMax(a) \in Nat
BY AliveAssumption DEF AliveCountMax, AtLeastZero, DefaultClientAliveCountMax

LEMMA KeeperStep == KeeperInv /\ [Next]_vars => KeeperInv'
<1> SUFFICES ASSUME KeeperInv, [Next]_vars PROVE KeeperInv'
    OBVIOUS
<1> USE DEF KeeperInv, Old, Early, Probing, Quiet
<1>0. alive # None => AliveCountMax(alive) \in Nat
    BY CountMaxIsNat
<1>1. CASE UNCHANGED <<aliveVars, phase>>
    BY <1>1 DEF aliveVars
<1>2. CASE Connect
    BY <1>2 DEF Connect
<1>3. CASE HandshakeFails \/ HandshakeSucceeds \/ ChannelsEnd
    BY <1>3 DEF HandshakeFails, HandshakeSucceeds, ChannelsEnd, aliveVars
<1>4. CASE Serve
  <2>1. PICK a \in Alives : alive' = a
    BY <1>4 DEF Serve
  <2>2. AliveCountMax(alive') \in Nat
    BY <2>1, CountMaxIsNat
  <2>3. keeper' = "tick" => alive' # None /\ AliveCountMax(alive') > 0
    BY <1>4 DEF Serve, Watched
  <2> QED
    BY <1>4, <2>1, <2>2, <2>3 DEF Serve
<1>5. CASE KeeperDone
    BY <1>0, <1>5 DEF KeeperDone, Abandon, OnlyKeeper
<1>6. CASE Tick \/ Answered \/ Failed
    BY <1>0, <1>6 DEF Tick, Answered, Failed, OnlyKeeper
<1>7. CASE IntervalPasses
    BY <1>0, <1>7 DEF IntervalPasses, Abandon, Enough, GiveUp, OnlyKeeper
<1>8. CASE ProbeEnds
  <2>1. ASSUME GetsIn("old") PROVE KeeperInv'
    <3>1. /\ waiting \in Nat /\ waiting > 0 /\ waiting' = waiting - 1
          /\ inside = "none" /\ inside' \in {"none", "old"}
          /\ waiting' = 0 \/ mutexMode' = mutexMode
          /\ UNCHANGED <<phase, alive, keeper, unanswered, probe, missed>>
      BY <2>1 DEF GetsIn, OnlyKeeper
    <3>2. Old' <= Old /\ Old' \in Nat /\ Old \in Nat
      BY <3>1
    <3>3. waiting' = 0 \/ (mutexMode' = mutexMode /\ waiting' <= waiting)
      BY <3>1
    <3> HIDE DEF Old
    <3> QED
      BY <1>0, <3>1, <3>2, <3>3
  <2>2. ASSUME GetsIn("current") PROVE KeeperInv'
    <3>1. /\ waiting \in Nat /\ waiting' = waiting
          /\ inside = "none" /\ inside' = IF cut THEN "none" ELSE "current"
          /\ probe = "waiting" /\ probe' = IF cut THEN "failed" ELSE "sent"
          /\ UNCHANGED <<phase, alive, keeper, unanswered, missed>>
      BY <2>2 DEF GetsIn, OnlyKeeper
    <3>2. waiting > 0 => mutexMode = "normal" /\ mutexMode' = "starvation"
      BY <2>2 DEF GetsIn
    <3>3. Old = waiting /\ Old' = waiting
      BY <3>1
    <3>4. Probing /\ waiting <= unanswered
      BY <3>1, <3>2
    <3> HIDE DEF Old
    <3> QED
      BY <1>0, <3>1, <3>2, <3>3, <3>4
  <2> QED
    BY <1>8, <2>1, <2>2 DEF ProbeEnds
<1>9. CASE ClientAnswers \/ ProbeFails
    BY <1>0, <1>9 DEF ClientAnswers, ProbeFails, GetsOut, OnlyKeeper
<1>10. CASE Load \/ New \/ Listen \/ StartAccepting \/ Cancel \/ CloseListeners \/ Return
    BY <1>1, <1>10 DEF Load, New, Listen, StartAccepting, Cancel, CloseListeners, Return,
                       OnlyServer, connVars
<1>11. ASSUME NEW a \in acceptors, Accept(a) \/ StopAccepting(a)
       PROVE KeeperInv'
    BY <1>1, <1>2, <1>11 DEF Accept, StopAccepting, OnlyServer, connVars
<1>12. CASE Negotiates \/ DeadlinePasses \/ HangsUp \/ FallsSilent
    BY <1>1, <1>12 DEF Negotiates, DeadlinePasses, HangsUp, FallsSilent
<1>13. CASE UNCHANGED vars
    BY <1>1, <1>13 DEF vars, connVars
<1> QED
    BY <1>2, <1>3, <1>4, <1>5, <1>6, <1>7, <1>8, <1>9, <1>10, <1>11, <1>12, <1>13
       DEF Next, ServerStep, ConnectionStep, Keeper

LEMMA KeeperInvariant == Spec => []KeeperInv
<1>1. Init => KeeperInv
    BY DEF Init, NoConnection, KeeperInv, Old, Early, Probing, Quiet
<1> QED BY <1>1, KeeperStep, PTL DEF Spec

(* The probes of one connection that are under way, the ones that wait for *)
(* their turn included, stay fewer than twice as many as may go            *)
(* unanswered, in whichever order they get in.  (server.go: clientAlive)   *)
THEOREM FewProbes == Spec => []ProbesAreFew
<1>1. KeeperInv => ProbesAreFew
  <2> SUFFICES ASSUME KeeperInv, alive # None
               PROVE  Outstanding = 0 \/ Outstanding < 2 * AliveCountMax(alive)
    BY DEF ProbesAreFew
  <2>1. AliveCountMax(alive) \in Nat
    BY CountMaxIsNat DEF KeeperInv
  <2> QED
    BY <2>1 DEF KeeperInv, Outstanding, Old, Probing
<1> QED BY <1>1, KeeperInvariant, PTL

(* clientAlive closes a connection only after as many intervals in a row   *)
(* without the answer to their probe as the user allows.                   *)
(* (server.go: clientAlive)                                                *)
THEOREM AnsweringKeepsIt == Spec => KeptWhileItAnswers
<1>1. KeeperInv /\ [Next]_vars =>
          [cut' /\ ~cut /\ keeper = "probe" /\ keeper' = "off"
              => missed' >= AliveCountMax(alive)]_connVars
  <2> SUFFICES ASSUME KeeperInv, [Next]_vars, cut', ~cut, keeper = "probe", keeper' = "off"
               PROVE missed' >= AliveCountMax(alive)
    OBVIOUS
  <2>1. CASE IntervalPasses
    BY <2>1 DEF IntervalPasses, Enough, KeeperInv
  <2>2. CASE ConnectionStep /\ ~IntervalPasses
    BY <2>2 DEF ConnectionStep, Negotiates, HandshakeFails, HandshakeSucceeds, Serve, ChannelsEnd,
                DeadlinePasses, HangsUp, FallsSilent, Keeper, KeeperDone, Tick, Answered, Failed,
                ClientAnswers, ProbeEnds, ProbeFails, GetsIn, GetsOut, aliveVars, KeeperInv, Early,
                Quiet
  <2>3. CASE ServerStep
    BY <2>3 DEF ServerStep, Load, New, Listen, StartAccepting, Cancel, CloseListeners, Return,
                Accept, StopAccepting, Connect, OnlyServer, connVars, aliveVars
  <2>4. CASE UNCHANGED vars
    BY <2>4 DEF vars, connVars, aliveVars
  <2> QED
    BY <2>1, <2>2, <2>3, <2>4 DEF Next
<1> QED BY <1>1, KeeperInvariant, PTL DEF Spec, KeptWhileItAnswers

-----------------------------------------------------------------------------
(* Sessions.                                                               *)

\* What lets a name in: the configuration file, or the backend.
Vouched(name, method, key) ==
    LET proof == [user |-> name, method |-> method, key |-> key]
    IN  proof \in vouched /\ (settings.mode = "baseURL" => proof \in allowed)

\* Nothing is known of a connection that has not been accepted, and there is
\* none before the server has its settings.
StartInv ==
    /\ ListenInv
    /\ server \in {"loading", "loaded", "listening"} => phase = "none"
    /\ phase = "none" => Fresh

\* An answer remembered for a name and a key, a policy that was fetched, and
\* the request on its way each stand for what was asked of the backend.
SessionInv ==
    /\ SessionIsVouchedFor
    /\ \A c \in candidates : c.grants # None =>
           /\ c.grants = c.user
           /\ IF c.user \in settings.static THEN c.key \in StaticKeys
                                            ELSE Vouched(c.user, "publickey", c.key)
    /\ lookup # None =>
           \A m \in lookup.policy.methods, k \in lookup.policy.keys \cup {NoKey} :
               [user |-> lookup.user, method |-> m, key |-> k] \in allowed
    /\ request # None =>
           \/ request.method = "password" /\ request.key = NoKey
           \/ request.method = "publickey"
    /\ posting # "no" =>
           /\ request # None /\ request.user \notin settings.static
           /\ posting \in {"lookup", "password", "publickey"}
           /\ posting # "lookup" =>
                  /\ posting = request.method
                  /\ settings.mode = "baseURL" => Proof(request.user, request) \in allowed

LEMMA StartStep == StartInv /\ [Next]_vars => StartInv'
<1> SUFFICES ASSUME StartInv, [Next]_vars PROVE StartInv'
    OBVIOUS
<1>0. ListenInv'
    BY ListenStep DEF StartInv
<1> USE DEF StartInv, Fresh
<1>1. CASE UNCHANGED <<server, connVars>>
    BY <1>0, <1>1 DEF connVars, authVars
<1>2. CASE Load \/ New \/ Listen \/ StartAccepting \/ Cancel \/ CloseListeners \/ Return
    BY <1>0, <1>2 DEF Load, New, Listen, StartAccepting, Cancel, CloseListeners, Return, Fails,
                      OnlyServer, connVars, authVars
<1>3. ASSUME NEW a \in acceptors, Accept(a) \/ StopAccepting(a)
      PROVE StartInv'
    BY <1>0, <1>1, <1>3 DEF Accept, Connect, StopAccepting, OnlyServer, serverVars, ListenInv
<1>4. CASE ConnectionStep /\ UNCHANGED <<settings, serverVars>>
    BY <1>0, <1>4 DEF ConnectionStep, Negotiates, HandshakeFails, HandshakeSucceeds, Serve,
           ChannelsEnd, DeadlinePasses, HangsUp, FallsSilent, Keeper, KeeperDone, Tick, Answered,
           Failed, IntervalPasses, ClientAnswers, ProbeEnds, ProbeFails, GetsIn, GetsOut,
           OnlyKeeper, serverVars, authVars
<1> QED
    BY <1>1, <1>2, <1>3, <1>4 DEF Next, ServerStep, vars, serverVars

\* How a callback ends, if it may grant what it grants.
LEMMA RefusedKeeps ==
    ASSUME SessionInv, request # None, Refused, UNCHANGED <<settings, vouched>>,
           allowed \subseteq allowed',
           lookup' # None =>
               \A m \in lookup'.policy.methods, k \in lookup'.policy.keys \cup {NoKey} :
                   [user |-> lookup'.user, method |-> m, key |-> k] \in allowed'
    PROVE  SessionInv'
BY DEF SessionInv, SessionIsVouchedFor, Refused, Vouched, Proof

LEMMA GrantedKeeps ==
    ASSUME SessionInv, request # None, Granted(request.user),
           UNCHANGED <<settings, lookup, allowed>>, vouched \subseteq vouched',
           IF request.user \in settings.static
              THEN IF request.method = "password" THEN request.fits ELSE request.key \in StaticKeys
              ELSE /\ Proof(request.user, request) \in vouched'
                   /\ settings.mode = "baseURL" => Proof(request.user, request) \in allowed
    PROVE  SessionInv'
<1> USE DEF SessionInv, SessionIsVouchedFor, Vouched, Proof
<1>1. CASE request.method = "password"
    BY <1>1 DEF Granted, SessionOf
<1>2. CASE request.method = "publickey"
    BY <1>2 DEF Granted, SessionOf
<1> QED BY <1>1, <1>2

LEMMA SessionStep == StartInv /\ SessionInv /\ [Next]_vars => SessionInv'
<1> SUFFICES ASSUME StartInv, SessionInv, [Next]_vars PROVE SessionInv'
    OBVIOUS
<1>1. CASE UNCHANGED <<settings, authVars>>
    BY <1>1 DEF authVars, SessionInv, SessionIsVouchedFor, Vouched, Proof
<1>2. CASE Reset
    BY <1>2 DEF Reset, SessionInv, SessionIsVouchedFor
<1>3. ASSUME UNCHANGED settings, NEW u \in Users, NEW method \in {"password", "publickey"},
             NEW key, NEW fits, NEW signed, Ask(u, method, key, fits, signed),
             method = "password" => key = NoKey
      PROVE SessionInv'
    BY <1>3 DEF Ask, SessionInv, SessionIsVouchedFor, Vouched, Proof, Listening
<1>4. ASSUME UNCHANGED settings, NEW c \in candidates, NEW signed, AskAgain(c, signed)
      PROVE SessionInv'
    BY <1>4 DEF AskAgain, SessionInv, SessionIsVouchedFor, Vouched, Proof, Listening
<1>5. CASE StaticUser /\ UNCHANGED settings
    BY <1>5, RefusedKeeps, GrantedKeeps DEF StaticUser, Called, SessionInv
<1>6. CASE NoBackend /\ UNCHANGED settings
    BY <1>6, RefusedKeeps DEF NoBackend, Called, SessionInv
<1>7. CASE SimpleBackend /\ UNCHANGED settings
    BY <1>7 DEF SimpleBackend, Called, Post, SessionInv, SessionIsVouchedFor, Vouched, Proof
<1>8. CASE FullBackend /\ UNCHANGED settings
    BY <1>8, RefusedKeeps DEF FullBackend, Called, Cached, UnderPolicy, Permits, Post, SessionInv,
                              SessionIsVouchedFor, Vouched, Proof
<1>9. ASSUME UNCHANGED settings, NEW p \in Policies, LookupAnswers(p)
      PROVE SessionInv'
  <2>1. CASE p.methods = {}
    BY <1>9, <2>1, RefusedKeeps DEF LookupAnswers, SessionInv
  <2>2. CASE p.methods # {}
    <3>1. /\ lookup' = [user |-> request.user, policy |-> p]
          /\ allowed' = allowed \cup Allows(p)
          /\ UnderPolicy(p)
          /\ UNCHANGED vouched
      BY <1>9, <2>2 DEF LookupAnswers
    <3>2. \A m \in p.methods, k \in p.keys \cup {NoKey} :
              [user |-> request.user, method |-> m, key |-> k] \in Allows(p)
      BY DEF Allows, Proof
    <3>3. request # None /\ posting = "lookup"
      BY <1>9 DEF LookupAnswers, SessionInv
    <3>4. CASE Refused
      BY <1>9, <3>1, <3>2, <3>3, <3>4, RefusedKeeps
    <3>5. CASE Permits(p, request) /\ Post(request.method)
      BY <1>9, <3>1, <3>2, <3>3, <3>5
         DEF Permits, Post, SessionInv, SessionIsVouchedFor, Vouched, Proof
    <3> QED
      BY <3>1, <3>4, <3>5 DEF UnderPolicy
  <2> QED
    BY <2>1, <2>2
<1>10. ASSUME UNCHANGED settings, NEW user, NEW tree, UserAnswers(user, tree)
       PROVE SessionInv'
  <2> DEFINE named == IF user = None THEN request.user ELSE user
  <2>1. /\ request # None /\ request.user \notin settings.static
        /\ posting = request.method
        /\ settings.mode = "baseURL" => Proof(request.user, request) \in allowed
        /\ vouched' = vouched \cup {Proof(named, request)}
        /\ UNCHANGED <<lookup, allowed>>
        /\ IF Accepted(named, request, tree) THEN Granted(named) ELSE Refused
    BY <1>10 DEF UserAnswers, SessionInv
  <2>2. CASE Accepted(named, request, tree)
    <3>1. named = request.user
      BY <2>2 DEF Accepted
    <3>2. Proof(request.user, request) \in vouched'
      BY <2>1, <3>1
    <3> QED
      BY <1>10, <2>1, <2>2, <3>1, <3>2, GrantedKeeps
  <2>3. CASE ~Accepted(named, request, tree)
    BY <1>10, <2>1, <2>3 DEF Refused, SessionInv, SessionIsVouchedFor, Vouched, Proof
  <2> QED
    BY <2>2, <2>3
<1>11. CASE PostFails /\ UNCHANGED settings
    BY <1>11, RefusedKeeps DEF PostFails, SessionInv
<1>12. CASE Negotiates /\ UNCHANGED settings
    BY <1>3, <1>4, <1>5, <1>6, <1>7, <1>8, <1>9, <1>10, <1>11, <1>12
       DEF Negotiates, ClientAsks, Callback, BackendAnswers
<1>13. CASE New
    BY <1>13 DEF New, OnlyServer, connVars, authVars, StartInv, Fresh, SessionInv,
                 SessionIsVouchedFor
<1>14. CASE ServerStep /\ ~New
    BY <1>1, <1>2, <1>14 DEF ServerStep, Load, Listen, StartAccepting, Cancel, CloseListeners,
           Return, Accept, StopAccepting, Connect, OnlyServer, connVars
<1>15. CASE ConnectionStep /\ ~Negotiates /\ UNCHANGED settings
    BY <1>1, <1>2, <1>15 DEF ConnectionStep, HandshakeFails, HandshakeSucceeds, Serve,
           ChannelsEnd, DeadlinePasses, HangsUp, FallsSilent, Keeper, KeeperDone, Tick, Answered,
           Failed, IntervalPasses, ClientAnswers, ProbeEnds, ProbeFails, GetsIn, GetsOut, OnlyKeeper
<1>16. CASE UNCHANGED vars
    BY <1>1, <1>16 DEF vars, connVars
<1> QED
    BY <1>12, <1>13, <1>14, <1>15, <1>16 DEF Next

(* A client is let in only as the name it gave, with a proof of it that    *)
(* the configuration file holds or that the backend vouched for, and that  *)
(* a lookup for that name allowed.  (auth.go: Conn.Password, PublicKey)    *)
THEOREM EverySessionIsVouchedFor == Spec => []SessionIsVouchedFor
<1>1. Init => StartInv /\ SessionInv
    BY DEF Init, NoConnection, Fresh, StartInv, ListenInv, NothingListensAfter, SessionInv,
           SessionIsVouchedFor
<1>2. SessionInv => SessionIsVouchedFor
    BY DEF SessionInv
<1> QED BY <1>1, <1>2, StartStep, SessionStep, PTL DEF Spec

-----------------------------------------------------------------------------
(* Types.                                                                  *)

\* The settings are those of a configuration that was accepted.
SettingsTyped ==
    /\ document \in Documents \cup {None}
    /\ server = "loaded" => Valid(document)
    /\ settings.mode \in Modes /\ settings.static \subseteq ValidNames
    /\ settings.grace \in BOOLEAN

ListenersTyped ==
    /\ server \in {"loading", "loaded", "listening", "serving", "stopping", "returned", "failed"}
    /\ addresses \in Seq({"tcp4", "tcp6"})
    /\ listeners \subseteq {"tcp4", "tcp6"} /\ acceptors \subseteq {"tcp4", "tcp6"}
    /\ cancelled \in BOOLEAN

\* A request is worked on only for a client that has failures left.
AuthTyped ==
    /\ AuthTypeOK
    /\ \A c \in candidates : c.user \in Users /\ c.key \in Keys \cup {NoKey}
    /\ request # None => tries < MaxTries

PhaseTyped ==
    /\ phase \in {"none", "handshake", "loggedIn", "served", "gone"}
    /\ deadline \in BOOLEAN /\ cut \in BOOLEAN /\ silent \in BOOLEAN
    /\ mutexMode \in {"normal", "starvation"}

Typed == SettingsTyped /\ ListenersTyped /\ AuthTyped /\ PhaseTyped

(* A static user has a name that was accepted.                             *)
LEMMA SettingsThereAre ==
    ASSUME NEW c, Valid(c)
    PROVE  /\ Settings(c).mode \in Modes /\ Settings(c).static \subseteq ValidNames
           /\ Settings(c).grace \in BOOLEAN
<1>1. \A u \in ToSet(c.users) : u.name \in ValidNames
  BY DEF Valid, ValidUser, ValidName
<1>2. StaticUsers(c) \subseteq ValidNames
  BY <1>1 DEF StaticUsers
<1>3. Mode(c) \in Modes
  BY DEF Mode, Modes
<1> QED
  BY <1>2, <1>3 DEF Settings

LEMMA SettingsTypedStep ==
    ASSUME SettingsTyped, [Next]_vars
    PROVE  SettingsTyped'
<1>1. CASE Load
  BY <1>1 DEF Load, Fails, SettingsTyped
<1>2. CASE New
  <2>1. Valid(document)
    BY <1>2 DEF New, SettingsTyped
  <2> QED
    BY <1>2, <2>1, SettingsThereAre DEF New, Fails, SettingsTyped
<1>3. CASE Listen \/ StartAccepting \/ Cancel \/ CloseListeners \/ Return
  BY <1>3 DEF Listen, StartAccepting, Cancel, CloseListeners, Return, Fails, SettingsTyped
<1>4. ASSUME NEW a \in acceptors, Accept(a) \/ StopAccepting(a) PROVE SettingsTyped'
  BY <1>4 DEF Accept, StopAccepting, SettingsTyped, serverVars
<1>5. CASE UNCHANGED <<settings, serverVars>>
  BY <1>5 DEF SettingsTyped, serverVars
<1> QED
  BY <1>1, <1>2, <1>3, <1>4, <1>5 DEF Next, ServerStep, vars

\* What sequences of addresses are made of, and into.
LEMMA AddressesThereAre ==
    \A S : /\ <<>> \in Seq(S)
           /\ \A a, b \in S : <<a>> \in Seq(S) /\ <<a, b>> \in Seq(S)
           /\ \A s \in Seq(S) : s # <<>> => s[1] \in S /\ Tail(s) \in Seq(S)
OBVIOUS

LEMMA ListenersTypedStep ==
    ASSUME ListenersTyped, [Next]_vars
    PROVE  ListenersTyped'
<1> USE DEF ListenersTyped
<1>1. CASE Load
  BY <1>1 DEF Load, Fails
<1>2. CASE New
  <2>1. Addresses(document.bind) \in Seq({"tcp4", "tcp6"})
    <3>1. /\ <<"tcp4">> \in Seq({"tcp4", "tcp6"}) /\ <<"tcp6">> \in Seq({"tcp4", "tcp6"})
          /\ <<"tcp4", "tcp6">> \in Seq({"tcp4", "tcp6"})
      BY AddressesThereAre
    <3> QED
      BY <3>1 DEF Addresses
  <2> QED
    BY <1>2, <2>1 DEF New, Fails
<1>3. CASE Listen
  <2>1. /\ Next1 \in {"tcp4", "tcp6"} /\ Tail(addresses) \in Seq({"tcp4", "tcp6"})
        /\ <<>> \in Seq({"tcp4", "tcp6"})
    BY <1>3, AddressesThereAre DEF Listen, Next1
  <2> QED
    BY <1>3, <2>1 DEF Listen, Fails
<1>4. CASE StartAccepting \/ Cancel \/ CloseListeners \/ Return
  BY <1>4 DEF StartAccepting, Cancel, CloseListeners, Return
<1>5. ASSUME NEW a \in acceptors, Accept(a) \/ StopAccepting(a) PROVE ListenersTyped'
  BY <1>5 DEF Accept, StopAccepting, serverVars
<1>6. CASE UNCHANGED serverVars
  BY <1>6 DEF serverVars
<1> QED
  BY <1>1, <1>2, <1>3, <1>4, <1>5, <1>6 DEF Next, ServerStep, vars

(* A callback ends with one failure more, or lets the client in.           *)
LEMMA RefusedTyped ==
    ASSUME AuthTyped, request # None, Refused,
           lookup' # None => lookup'.user \in Users /\ lookup'.policy \in Policies
    PROVE  AuthTyped'
BY AuthAssumption DEF AuthTyped, AuthTypeOK, Refused

LEMMA GrantedTyped ==
    ASSUME AuthTyped, request # None, NEW user, Granted(user), UNCHANGED lookup
    PROVE  AuthTyped'
<1> USE DEF AuthTyped, AuthTypeOK
<1>1. CASE request.method = "password"
  BY <1>1 DEF Granted, SessionOf
<1>2. CASE request.method # "password"
  <2>1. /\ \A c \in candidates' : c.user \in Users /\ c.key \in Keys \cup {NoKey}
        /\ request' = None /\ posting' = "no"
    BY <1>2 DEF Granted
  <2>2. tries' \in 0..MaxTries
    BY <1>2, AuthAssumption DEF Granted
  <2>3. session' # None => session'.ssh \in Users
    BY <1>2 DEF Granted, SessionOf
  <2> QED
    BY <2>1, <2>2, <2>3
<1> QED
  BY <1>1, <1>2

LEMMA PostTyped ==
    ASSUME AuthTyped, request # None, NEW endpoint \in {"lookup", "password", "publickey"},
           Post(endpoint),
           lookup' # None => lookup'.user \in Users /\ lookup'.policy \in Policies
    PROVE  AuthTyped'
BY DEF AuthTyped, AuthTypeOK, Post

LEMMA ClientAsksTyped ==
    ASSUME AuthTyped, ClientAsks
    PROVE  AuthTyped'
<1> USE DEF AuthTyped, AuthTypeOK, Listening
<1>1. ASSUME NEW u \in Users, NEW fits \in BOOLEAN, Ask(u, "password", NoKey, fits, FALSE)
      PROVE  AuthTyped'
  BY <1>1 DEF Ask
<1>2. ASSUME NEW u \in Users, NEW k \in Keys, NEW signed \in BOOLEAN,
             Ask(u, "publickey", k, FALSE, signed)
      PROVE  AuthTyped'
  BY <1>2 DEF Ask
<1>3. ASSUME NEW c \in candidates, NEW signed \in BOOLEAN, AskAgain(c, signed)
      PROVE  AuthTyped'
  <2>1. tries' \in 0..MaxTries
    BY <1>3, AuthAssumption DEF AskAgain
  <2>2. session' # None => session'.ssh \in Users
    BY <1>3 DEF AskAgain
  <2> QED
    BY <1>3, <2>1, <2>2 DEF AskAgain
<1> QED
  BY <1>1, <1>2, <1>3 DEF ClientAsks

LEMMA CallbackTyped ==
    ASSUME AuthTyped, Callback
    PROVE  AuthTyped'
<1>1. request # None /\ UNCHANGED lookup /\ request.method \in {"password", "publickey"}
  BY DEF AuthTyped, AuthTypeOK, Callback, StaticUser, NoBackend, SimpleBackend, FullBackend, Called
<1>2. \/ Refused \/ Granted(request.user)
      \/ \E endpoint \in {"lookup", "password", "publickey"} : Post(endpoint)
  BY <1>1 DEF Callback, StaticUser, NoBackend, SimpleBackend, FullBackend, UnderPolicy
<1>3. lookup' # None => lookup'.user \in Users /\ lookup'.policy \in Policies
  BY <1>1 DEF AuthTyped, AuthTypeOK
<1> QED
  BY <1>1, <1>2, <1>3, RefusedTyped, GrantedTyped, PostTyped

LEMMA BackendAnswersTyped ==
    ASSUME AuthTyped, BackendAnswers
    PROVE  AuthTyped'
<1>0. posting # "no" => request # None /\ request.user \in Users
                        /\ request.method \in {"password", "publickey"}
  BY DEF AuthTyped, AuthTypeOK
<1>1. lookup # None => lookup.user \in Users /\ lookup.policy \in Policies
  BY DEF AuthTyped, AuthTypeOK
<1>2. ASSUME NEW p \in Policies, LookupAnswers(p) PROVE AuthTyped'
  <2>1. request # None /\ request.user \in Users /\ request.method \in {"password", "publickey"}
    BY <1>0, <1>2 DEF LookupAnswers
  <2>2. lookup' # None => lookup'.user \in Users /\ lookup'.policy \in Policies
    BY <1>1, <1>2, <2>1 DEF LookupAnswers
  <2>3. Refused \/ Post(request.method)
    BY <1>2 DEF LookupAnswers, UnderPolicy
  <2> QED
    BY <2>1, <2>2, <2>3, RefusedTyped, PostTyped
<1>3. ASSUME NEW u, NEW t, UserAnswers(u, t) PROVE AuthTyped'
  <2>1. request # None /\ UNCHANGED lookup /\ (Refused \/ \E named : Granted(named))
    BY <1>0, <1>3 DEF UserAnswers
  <2> QED
    BY <1>1, <2>1, RefusedTyped, GrantedTyped
<1> QED
  BY <1>2, <1>3 DEF BackendAnswers

LEMMA PostFailsTyped ==
    ASSUME AuthTyped, PostFails
    PROVE  AuthTyped'
<1>1. request # None /\ Refused /\ UNCHANGED lookup
  BY DEF PostFails, AuthTyped, AuthTypeOK
<1>2. lookup' # None => lookup'.user \in Users /\ lookup'.policy \in Policies
  BY <1>1 DEF AuthTyped, AuthTypeOK
<1> QED
  BY <1>1, <1>2, RefusedTyped

(* What is not of the authentication starts it anew or leaves it alone.    *)
LEMMA ConnectionTypedStep ==
    ASSUME AuthTyped, PhaseTyped, SettingsTyped, [Next]_vars
    PROVE  AuthTyped' /\ PhaseTyped'
<1> USE DEF PhaseTyped
<1>1. UNCHANGED authVars => AuthTyped'
  BY DEF authVars, AuthTyped, AuthTypeOK
<1>2. Reset => AuthTyped'
  BY AuthAssumption DEF Reset, AuthTyped, AuthTypeOK
<1>3. CASE Negotiates
  BY <1>3, ClientAsksTyped, CallbackTyped, BackendAnswersTyped, PostFailsTyped DEF Negotiates, aliveVars
<1>4. CASE Connect
  BY <1>2, <1>4 DEF Connect, SettingsTyped
<1>5. CASE Serve
  BY <1>2, <1>5 DEF Serve
<1>6. CASE HandshakeFails \/ HandshakeSucceeds \/ ChannelsEnd
  BY <1>1, <1>6 DEF HandshakeFails, HandshakeSucceeds, ChannelsEnd, aliveVars
<1>7. CASE DeadlinePasses \/ HangsUp \/ FallsSilent
  BY <1>1, <1>7 DEF DeadlinePasses, HangsUp, FallsSilent, aliveVars
<1>8. CASE Keeper \/ ClientAnswers \/ ProbeEnds \/ ProbeFails
  BY <1>1, <1>8 DEF Keeper, KeeperDone, Tick, Answered, Failed, IntervalPasses, GiveUp,
         ClientAnswers, ProbeEnds, ProbeFails, GetsIn, GetsOut, OnlyKeeper
<1>9. CASE UNCHANGED connVars
  BY <1>1, <1>9 DEF connVars, aliveVars
<1>10. CASE ServerStep
  BY <1>4, <1>9, <1>10 DEF ServerStep, Load, New, Listen, StartAccepting, Cancel, CloseListeners,
         Return, Accept, StopAccepting, OnlyServer
<1> QED
  BY <1>3, <1>5, <1>6, <1>7, <1>8, <1>9, <1>10 DEF Next, ConnectionStep, vars

(* Every variable of the process and of its connection has its type: a     *)
(* static user has a name that config.ValidName accepts, no client fails   *)
(* more often than it may, and a POST is under way only for a request.     *)
(* (config.go: Validate; auth.go: Conn.Password and PublicKey)             *)
THEOREM TypeCorrect == Spec => []TypeOK
<1>1. Init => Typed
  <2> SUFFICES ASSUME Init PROVE Typed
    OBVIOUS
  <2>1. SettingsTyped
    BY DEF Init, SettingsTyped, NoSettings, Modes
  <2>2. ListenersTyped
    BY AddressesThereAre DEF Init, ListenersTyped
  <2>3. AuthTyped
    BY AuthAssumption DEF Init, NoConnection, Fresh, AuthTyped, AuthTypeOK
  <2>4. PhaseTyped
    BY DEF Init, NoConnection, PhaseTyped
  <2> QED
    BY <2>1, <2>2, <2>3, <2>4 DEF Typed
<1>2. Typed /\ [Next]_vars => Typed'
  BY SettingsTypedStep, ListenersTypedStep, ConnectionTypedStep DEF Typed
<1>3. Typed /\ KeeperInv => TypeOK
  BY DEF Typed, SettingsTyped, ListenersTyped, AuthTyped, PhaseTyped, KeeperInv, TypeOK,
         ConnectionTypeOK
<1> QED
  BY <1>1, <1>2, <1>3, KeeperInvariant, PTL DEF Spec

-----------------------------------------------------------------------------
(* Configurations.                                                         *)

\* The configuration that was accepted is one of those it may have been.
LoadedInv ==
    /\ server \in {"loading", "loaded"} => document \in Documents
    /\ server = "loaded" => Valid(document)

LEMMA LoadedInvariant == Spec => []LoadedInv
<1>1. Init => LoadedInv
  BY DEF Init, LoadedInv
<1>2. LoadedInv /\ [Next]_vars => LoadedInv'
  <2> SUFFICES ASSUME LoadedInv, [Next]_vars PROVE LoadedInv'
    OBVIOUS
  <2> USE DEF LoadedInv
  <2>1. CASE Load
    BY <2>1 DEF Load, Fails
  <2>2. CASE New \/ Listen \/ StartAccepting \/ Cancel \/ CloseListeners \/ Return
    BY <2>2 DEF New, Listen, StartAccepting, Cancel, CloseListeners, Return, Fails
  <2>3. ASSUME NEW a \in acceptors, Accept(a) \/ StopAccepting(a) PROVE LoadedInv'
    BY <2>3 DEF Accept, StopAccepting, serverVars
  <2>4. CASE UNCHANGED serverVars
    BY <2>4 DEF serverVars
  <2> QED
    BY <2>1, <2>2, <2>3, <2>4 DEF Next, ServerStep, vars
<1> QED
  BY <1>1, <1>2, PTL DEF Spec

(* Of two paths that a third is beneath, one is beneath the other.         *)
LEMMA PrefixesOfOne ==
    ASSUME NEW S, NEW p \in Seq(S), NEW q \in Seq(S), NEW path,
           Inside(p, path), Inside(q, path)
    PROVE  Inside(p, q) \/ Inside(q, p)
<1> USE DEF Inside, IsPrefix
<1>1. /\ Len(p) \in Nat /\ Len(q) \in Nat
      /\ SubSeq(p, 1, Len(p)) = p /\ SubSeq(q, 1, Len(q)) = q
  OBVIOUS
<1>2. ASSUME NEW n \in Nat, NEW i \in 1..n, NEW s PROVE SubSeq(s, 1, n)[i] = s[i]
  OBVIOUS
<1>3. (\A i \in 1..Len(p) : p[i] = path[i]) /\ (\A i \in 1..Len(q) : q[i] = path[i])
  <2>1. p = SubSeq(path, 1, Len(p)) /\ q = SubSeq(path, 1, Len(q))
    BY <1>1
  <2> QED
    BY <1>1, <1>2, <2>1
<1>4. CASE Len(p) <= Len(q)
  <2>1. SubSeq(q, 1, Len(p)) = p
    BY <1>1, <1>3, <1>4
  <2> QED
    BY <1>1, <1>4, <2>1
<1>5. CASE Len(q) <= Len(p)
  <2>1. SubSeq(p, 1, Len(q)) = q
    BY <1>1, <1>3, <1>5
  <2> QED
    BY <1>1, <1>5, <2>1
<1> QED
  BY <1>1, <1>4, <1>5

(* The scheme of a URL says which kind of place it names.                  *)
LEMMA PlacesHaveSchemes ==
    ASSUME NEW url, ValidBackendURL(url)
    PROVE  /\ url.scheme \in {"http", "file", "s3"}
           /\ url.scheme = "file" <=> LocalPath(url) # None
           /\ url.scheme = "s3" <=> S3Location(url) # None
BY DEF ValidBackendURL, LocalPath, S3Location

(* A path is inside one prefix of those that do not overlap, and no more.  *)
LEMMA OnePrefixServes ==
    ASSUME NEW c \in Documents, NEW n, c.prefixes # None, ValidFileBackend(c.prefixes),
           LocalPath(n.url) # None, ValidLocalBackend(c, n)
    PROVE  Cardinality(Serving(c, n.url)) = 1
<1> DEFINE path == LocalPath(n.url)
<1>1. /\ c.prefixes \in Seq(Seq(STRING)) /\ DOMAIN c.prefixes = 1..Len(c.prefixes)
      /\ Len(c.prefixes) \in Nat
  BY DocumentAssumption
<1>2. PICK i \in DOMAIN c.prefixes : Inside(c.prefixes[i], path)
  BY <1>1 DEF ValidLocalBackend, ToSet
<1>3. ASSUME NEW j \in DOMAIN c.prefixes, NEW k \in DOMAIN c.prefixes, j < k
      PROVE  ~(Inside(c.prefixes[j], path) /\ Inside(c.prefixes[k], path))
  <2>1. c.prefixes[j] \in Seq(STRING) /\ c.prefixes[k] \in Seq(STRING) /\ j \in 1..(k - 1)
    BY <1>1, <1>3
  <2>2. ~Inside(c.prefixes[j], c.prefixes[k]) /\ ~Inside(c.prefixes[k], c.prefixes[j])
    BY <1>3, <2>1 DEF ValidFileBackend, Overlaps
  <2> QED
    BY <2>1, <2>2, PrefixesOfOne
<1>4. Serving(c, n.url) = {i}
  <2>1. ASSUME NEW j \in DOMAIN c.prefixes, Inside(c.prefixes[j], path) PROVE j = i
    <3>1. j < i \/ i < j \/ j = i
      BY <1>1, <1>2, <2>1
    <3>2. ~(j < i) /\ ~(i < j)
      BY <1>2, <1>3, <2>1
    <3> QED
      BY <3>1, <3>2
  <2> QED
    BY <1>2, <2>1 DEF Serving
<1> QED
  BY <1>4, FS_Singleton

(* Whatever document is accepted, however many prefixes, buckets and users *)
(* it states and however deep their trees: what a static user's node names *)
(* will not be refused for where it is, and one prefix alone serves a      *)
(* local path.  (config.go: Validate, FileBackend.Validate and Overlaps,   *)
(* against filesystem(), localfs.resolve and s3fs.resolve)                 *)
THEOREM WhatIsValidIsServed == Spec => []ValidIsServed
<1>1. LoadedInv => ValidIsServed
  <2> SUFFICES ASSUME LoadedInv, server = "loaded",
                      NEW u \in ToSet(document.users), NEW n \in ToSet(u.tree), n.url # NoURL
               PROVE  /\ Served(document, n)
                      /\ n.url.scheme = "file" => Cardinality(Serving(document, n.url)) = 1
    BY DEF ValidIsServed
  <2>1. document \in Documents /\ Valid(document)
    BY DEF LoadedInv
  <2>2. ValidNode(n) /\ ValidLocalBackend(document, n) /\ ValidS3Node(document, n)
    BY <2>1 DEF Valid, ValidUser, ValidTree, Walked
  <2>3. ValidBackendURL(n.url) /\ ValidAccess(n.access, n.url)
    BY <2>2 DEF ValidNode
  <2>4. CASE n.url.scheme = "http"
    BY <2>4 DEF Served, Registered
  <2>5. CASE n.url.scheme = "file"
    <3>1. LocalPath(n.url) # None /\ document.prefixes # None
      BY <2>2, <2>3, <2>5, PlacesHaveSchemes DEF ValidLocalBackend
    <3>2. Cardinality(Serving(document, n.url)) = 1
      BY <2>1, <2>2, <3>1, OnePrefixServes DEF Valid
    <3>3. Serving(document, n.url) # {}
      BY <3>2, FS_EmptySet
    <3> QED
      BY <2>5, <3>1, <3>2, <3>3 DEF Served, Registered, ResolvesLocally
  <2>6. CASE n.url.scheme = "s3"
    BY <2>2, <2>3, <2>6, PlacesHaveSchemes
       DEF Served, Registered, ResolvesInS3, ValidS3Node, ValidAccess
  <2> QED
    BY <2>3, <2>4, <2>5, <2>6, PlacesHaveSchemes
<1> QED
  BY <1>1, LoadedInvariant, PTL
=============================================================================
