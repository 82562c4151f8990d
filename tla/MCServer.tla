------------------------------ MODULE MCServer ------------------------------
(* Instances of Server for TLC.                                            *)
EXTENDS Server

\* A URL as a document states it.
File(segments) == [scheme |-> "file", segments |-> segments, sound |-> TRUE]
Bucket(segments) == [scheme |-> "s3", segments |-> segments, sound |-> TRUE]
Http == [scheme |-> "http", segments |-> <<>>, sound |-> TRUE]
Unsound == [scheme |-> "file", segments |-> <<"srv">>, sound |-> FALSE]

\* Some are outside every prefix, one of them by climbing.
URLs == {NoURL, Http, Unsound, File(<<"srv">>), File(<<"srv", "a", "..", "b">>),
         File(<<"srv", "..", "a">>), Bucket(<<"table", "a">>), Bucket(<<"other", "..">>),
         Bucket(<<"other">>)}

Node(at, kind, url, methods, permissions, access) ==
    [at |-> at, kind |-> kind, url |-> url, methods |-> methods,
     permissions |-> permissions, access |-> access, counts |-> TRUE]
Plain(at, kind, url) == Node(at, kind, url, <<>>, None, None)

Key == [reachable |-> TRUE, keys |-> "all"]
HalfKey == [reachable |-> TRUE, keys |-> "some"]

\* A root, a directory in it and something in that.
DeepTrees == {<<Plain(<<>>, "directory", u), Plain(<<"a">>, "directory", v), Plain(<<"a", "b">>, k, w)>> :
                  u \in {NoURL, Http, File(<<"srv">>)}, v \in {NoURL, Http}, w \in URLs,
                  k \in {"directory", "file"}}
\* A root whose node states more about itself.
RootTrees == {<<Node(<<>>, "directory", u, m, p, k)>> :
                  u \in URLs, m \in {<<>>, <<"GET">>, <<"PutObject">>, <<"GET", "GET">>},
                  p \in {None, MaxMode, MaxMode + 1}, k \in {None, Key, HalfKey}}
\* Twice the same name, a name that is none, a file with a child.
OddTrees == {<<Plain(<<>>, "directory", NoURL), Plain(<<"a">>, "file", Http), Plain(at, "file", Http)>> :
                  at \in {<<"a">>, <<"..">>, <<"b">>, <<"a", "b">>}}

BasicTree == <<Plain(<<>>, "directory", Http)>>
BadTree == <<Plain(<<>>, "directory", Unsound)>>

User(name, tree) == [name |-> name, credentials |-> "sound", counts |-> TRUE, tree |-> tree]

PrefixLists == {None, <<>>, <<<<"srv">>>>, <<<<"srv", "b">>, <<"srv">>>>,
             <<<<"srv">>, <<"srv", "b">>>>, <<<<"srv">>, <<"a">>>>, <<<<"a", "..">>>>}
Table(name, useDefault, access) == [bucket |-> name, useDefault |-> useDefault, access |-> access]
Buckets == {None, <<>>, <<Table("table", FALSE, Key)>>, <<Table("table", TRUE, Key)>>,
            <<Table("table", FALSE, Key), Table("table", FALSE, Key)>>}

Document(bind, grace, auth, prefixes, buckets, users) ==
    [scalars |-> TRUE, bind |-> bind, loginGraceMs |-> grace, auth |-> auth,
     prefixes |-> prefixes, buckets |-> buckets, users |-> users]

Auths(timeouts) == [baseURL : {Http}, url : {NoURL}, timeoutMs : timeouts]
                     \cup [baseURL : {NoURL}, url : {Http}, timeoutMs : timeouts]

\* Documents about trees, and documents about everything else.
TreeDocuments ==
    {Document("ipv4", None, None, p, b, <<User("d", t)>>) :
        p \in PrefixLists, b \in Buckets, t \in DeepTrees \cup RootTrees \cup OddTrees}
OtherDocuments ==
    {Document("name", None, auth, None, None, users) :
        auth \in Auths({None}), users \in {<<>>, <<User("d", BasicTree)>>}}
      \cup
    {Document("ipv6", grace, auth, None, None, <<>>) :
        grace \in {None, 0}, auth \in Auths({0})}
      \cup
    {Document("ipv4", grace, auth, None, None, users) :
        grace \in {None, -1}, auth \in {None} \cup Auths({-1}) \cup [baseURL : {Http}, url : {Http}, timeoutMs : {None}],
        users \in {<<>>, <<User("d", BasicTree), User("d", BasicTree)>>, <<User("..", BasicTree)>>}}

EveryDocument == TreeDocuments \cup OtherDocuments

ConfigNames == {"d", "e", "a", "b", "srv"}
ConfigBuckets == {"table", "other"}

Logins == {"d", "e"}
TwoKeys == {"k", "l"}
OneKey == {"k"}
TreeAnswers == {BasicTree, BadTree}
SomePolicies == {[methods |-> m, keys |-> {"k"}] : m \in {{}, {"password"}, {"password", "publickey"}}}
SomeAlives == {[ms |-> 1, countMax |-> 2], [ms |-> -1, countMax |-> None], [ms |-> 1, countMax |-> None]}
=============================================================================
