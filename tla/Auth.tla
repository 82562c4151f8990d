-------------------------------- MODULE Auth --------------------------------
(***************************************************************************)
(* The authentication of one SSH connection: src/server/internal/auth.     *)
(*                                                                         *)
(* x/crypto/ssh (external) calls Password or PublicKey for each request of *)
(* the client, one at a time.  It asks PublicKey before it has seen a      *)
(* signature, remembers the latest answer, for its pair of a name and a    *)
(* key, and lets a client in once a signature by that key is good; a bad   *)
(* one is the client's last request.  The client may change the name from one request *)
(* to the next, and has a limited number of failures.  The authentication  *)
(* backend (external) answers each POST as it likes, late, or not at all.  *)
(***************************************************************************)
EXTENDS Config, FiniteSets

CONSTANTS
    Users,       \* names clients give
    Keys,        \* public keys they offer
    Owned,       \* those they can sign with
    StaticKeys,  \* keys that static users authorize
    Answers,     \* trees a backend may answer with
    Policies,    \* what a lookup may answer: methods and keys
    MaxTries     \* external: failures before a client is disconnected

ASSUME AuthAssumption ==
    /\ Owned \subseteq Keys /\ StaticKeys \subseteq Keys
    /\ \A p \in Policies : p.methods \subseteq {"password", "publickey"} /\ p.keys \subseteq Keys
    /\ MaxTries \in Nat

VARIABLES
    settings,    \* what the server was configured with
    request,     \* the request a callback is working on
    posting,     \* the endpoint it waits for
    lookup,      \* fullAuth.lookup, and the name it is for
    candidates,  \* external: the answer remembered for a name and a key
    tries,       \* external: failures so far
    session,     \* what SessionFrom finds once the client is let in
    allowed,     \* history: what lookups allowed
    vouched      \* history: what the backend vouched for

authVars == <<request, posting, lookup, candidates, tries, session, allowed, vouched>>

Modes == {"none", "url", "baseURL"}
NoKey == None

\* newBackend: the one that is configured.
Mode(c) ==
    IF c.auth = None THEN "none" ELSE IF c.auth.url # NoURL THEN "url" ELSE "baseURL"

Fresh ==
    /\ request = None /\ posting = "no" /\ lookup = None /\ candidates = {}
    /\ tries = 0 /\ session = None /\ allowed = {} /\ vouched = {}
Reset ==
    /\ request' = None /\ posting' = "no" /\ lookup' = None /\ candidates' = {}
    /\ tries' = 0 /\ session' = None /\ allowed' = {} /\ vouched' = {}

\* Proof of a name: a right password, or a key.
Proof(user, r) == [user |-> user, method |-> r.method, key |-> r.key]

AuthTypeOK ==
    /\ request # None => /\ request.user \in Users
                         /\ request.method \in {"password", "publickey"}
                         /\ request.key \in Keys \cup {NoKey}
    /\ posting \in {"no", "lookup", "password", "publickey"}
    /\ posting # "no" => request # None
    /\ lookup # None => lookup.user \in Users /\ lookup.policy \in Policies
    /\ tries \in 0..MaxTries
    /\ session # None => session.ssh \in Users

-----------------------------------------------------------------------------
(* How a callback ends.                                                    *)
\* Mutant: a refusal leaves the endpoint it was waiting for.
RefusedLate == request' = None /\ tries' = tries + 1 /\ UNCHANGED <<posting, candidates, session>>

Refused ==
    /\ tries' = tries + 1
    /\ candidates' = IF request.method = "publickey"
                        THEN {[user |-> request.user, key |-> request.key, grants |-> None]}
                        ELSE candidates
    /\ request' = None /\ posting' = "no"
    /\ UNCHANGED session

\* permissions: the user that a session will be for.  A password lets the
\* client in at once, a key only with a signature.
SessionOf(user, r) == [user |-> user, ssh |-> r.user, method |-> r.method,
                       key |-> r.key, fits |-> r.fits]
Granted(user) ==
    /\ IF request.method = "password"
          THEN /\ session' = SessionOf(user, request)
               /\ UNCHANGED <<candidates, tries>>
          ELSE /\ candidates' = {[user |-> request.user, key |-> request.key, grants |-> user]}
               /\ IF request.signed /\ request.key \in Owned
                     THEN session' = SessionOf(user, request) /\ UNCHANGED tries
                     ELSE /\ UNCHANGED session
                          /\ tries' = IF request.signed THEN MaxTries ELSE tries
    /\ request' = None /\ posting' = "no"

Listening == request = None /\ session = None /\ tries < MaxTries

\* The client asks to be let in.  The pair of a name and a key that was asked
\* about last is answered from memory, and any other calls back.
Ask(user, method, key, fits, signed) ==
    /\ Listening
    /\ ~ \E c \in candidates : c.user = user /\ c.key = key
    /\ request' = [user |-> user, method |-> method, key |-> key, fits |-> fits, signed |-> signed]
    /\ UNCHANGED <<posting, lookup, candidates, tries, session, allowed, vouched>>

AskAgain(c, signed) ==
    /\ Listening
    /\ IF c.grants # None /\ signed /\ c.key \in Owned
          THEN /\ session' = [user |-> c.grants, ssh |-> c.user, method |-> "publickey",
                              key |-> c.key, fits |-> FALSE]
               /\ UNCHANGED tries
          ELSE /\ UNCHANGED session
               /\ tries' = IF c.grants = None THEN tries + 1
                           ELSE IF signed THEN MaxTries ELSE tries
    /\ UNCHANGED <<request, posting, lookup, candidates, allowed, vouched>>

\* Conn.Password and Conn.PublicKey: a user of the configuration file is
\* settled here, and a name it does not define goes to the backend, if any.
Called == request # None /\ posting = "no"

StaticUser ==
    /\ Called /\ request.user \in settings.static
    /\ IF IF request.method = "password" THEN request.fits ELSE request.key \in StaticKeys
          THEN Granted(request.user) ELSE Refused
    /\ UNCHANGED <<lookup, allowed, vouched>>

\* No backend, or one that takes no keys.
NoBackend ==
    /\ Called /\ request.user \notin settings.static
    /\ settings.mode = "none" \/ (settings.mode = "url" /\ request.method = "publickey")
    /\ Refused
    /\ UNCHANGED <<lookup, allowed, vouched>>

Post(endpoint) ==
    /\ posting' = endpoint
    /\ UNCHANGED <<request, candidates, tries, session>>

\* simpleAuth.Password.
SimpleBackend ==
    /\ Called /\ request.user \notin settings.static
    /\ settings.mode = "url" /\ request.method = "password"
    /\ Post("password")
    /\ UNCHANGED <<lookup, allowed, vouched>>

\* fullAuth, given a policy: the method, and then the key, must be in it.
Permits(policy, r) ==
    /\ r.method \in policy.methods
    /\ r.method = "publickey" => r.key \in policy.keys
UnderPolicy(policy) == IF Permits(policy, request) THEN Post(request.method) ELSE Refused

\* Mutant: a cached policy is good for any name.
CachedForAnyone == lookup # None

\* lookupPolicy: a policy is good for the name it was fetched for.
Cached == lookup # None /\ lookup.user = request.user

FullBackend ==
    /\ Called /\ request.user \notin settings.static
    /\ settings.mode = "baseURL"
    /\ IF Cached THEN UnderPolicy(lookup.policy) ELSE Post("lookup")
    /\ UNCHANGED <<lookup, allowed, vouched>>

Allows(policy) ==
    {Proof(request.user, [method |-> m, key |-> k]) :
        m \in policy.methods, k \in policy.keys \cup {NoKey}}

LookupAnswers(policy) ==
    /\ posting = "lookup"
    /\ IF policy.methods = {}
          THEN Refused /\ UNCHANGED <<lookup, allowed>>
          ELSE /\ lookup' = [user |-> request.user, policy |-> policy]
               /\ allowed' = allowed \cup Allows(policy)
               /\ UnderPolicy(policy)
    /\ UNCHANGED vouched

\* Mutant: the backend may answer with any user.
AcceptedAnyone(named, r, tree) == ValidTree(tree)

\* The credential's POST succeeds: userFromResponse.  The backend may leave the
\* name out.
Accepted(named, r, tree) == named = r.user /\ ValidTree(tree)

UserAnswers(user, tree) ==
    LET named == IF user = None THEN request.user ELSE user
    IN  /\ posting \in {"password", "publickey"}
        /\ vouched' = vouched \cup {Proof(named, request)}
        /\ IF Accepted(named, request, tree) THEN Granted(named) ELSE Refused
        /\ UNCHANGED <<lookup, allowed>>

\* It fails: refused, unreachable, past its time, or the server shut down.
PostFails ==
    /\ posting # "no"
    /\ Refused
    /\ UNCHANGED <<lookup, allowed, vouched>>

ClientAsks ==
    \/ \E u \in Users, fits \in BOOLEAN : Ask(u, "password", NoKey, fits, FALSE)
    \/ \E u \in Users, k \in Keys, signed \in BOOLEAN : Ask(u, "publickey", k, FALSE, signed)
    \/ \E c \in candidates, signed \in BOOLEAN : AskAgain(c, signed)

Callback == StaticUser \/ NoBackend \/ SimpleBackend \/ FullBackend

BackendAnswers ==
    \/ \E p \in Policies : LookupAnswers(p)
    \/ \E u \in Users \cup {None}, t \in Answers : UserAnswers(u, t)

-----------------------------------------------------------------------------
(* A client is let in only as the name it gave and with a proof of it.  A  *)
(* static user's proof is the configuration file's business, whatever an   *)
(* authentication backend says; any other name's is one that the backend   *)
(* vouched for, for that very name, after a lookup (when there are         *)
(* lookups) for that very name allowed it; and a key was signed with.      *)
(* (auth.go: Conn.Password and PublicKey, lookupPolicy, userFromResponse)  *)
SessionIsVouchedFor ==
    session # None =>
        /\ session.user = session.ssh
        /\ session.method = "publickey" => session.key \in Owned
        /\ IF session.ssh \in settings.static
              THEN session.fits \/ session.key \in StaticKeys
              ELSE /\ Proof(session.ssh, session) \in vouched
                   /\ settings.mode = "baseURL" => Proof(session.ssh, session) \in allowed
=============================================================================
