------------------------------- MODULE Config -------------------------------
(***************************************************************************)
(* The configuration document and what makes one acceptable:               *)
(* src/server/internal/config/config.go.  A document is refused as a whole *)
(* when any part of it is, so each Validate is a predicate.                *)
(*                                                                         *)
(* A backend URL is its scheme, the segments of its path (an s3 URL's      *)
(* bucket first), and whether it is sound: whether it states nothing that  *)
(* its scheme forbids (credentials, a fragment, a foreign host, and for    *)
(* file and s3 a query).  A tree of entries is the sequence of its nodes,  *)
(* each with the path it is at, the root at the empty path; two nodes at   *)
(* one path are entries of one name in one directory.  Numbers that only   *)
(* have to be non-negative are one Boolean.                                *)
(***************************************************************************)
EXTENDS Integers, Sequences, SequencesExt

CONSTANTS
    ValidNames,    \* what ValidName accepts
    ValidBuckets,  \* what ValidBucketName accepts
    None           \* a setting left out

MaxMode == 511                                   \* 0777
DefaultLoginGrace == 120000
DefaultAuthBackendTimeout == 30000
DefaultClientAliveCountMax == 3

NoURL == [scheme |-> "none", segments |-> <<>>, sound |-> TRUE]

ValidName(name) == name \in ValidNames
ValidBucketName(name) == name \in ValidBuckets

\* filepath.Clean: .. takes the name before it away, and nothing above the root.
Clean(segments) ==
    FoldLeft(LAMBDA path, s : CASE s = "."  -> path
                                [] s = ".." -> SubSeq(path, 1, Len(path) - 1)
                                [] OTHER    -> Append(path, s),
             <<>>, segments)

LocalPath(url) ==
    IF url.scheme = "file" /\ url.sound THEN Clean(url.segments) ELSE None

S3Location(url) ==
    IF /\ url.scheme = "s3" /\ url.sound /\ url.segments # <<>>
       /\ ValidBucketName(Head(url.segments))
       /\ \A s \in ToSet(Tail(url.segments)) : ValidName(s)
    THEN url.segments ELSE None

\* Relative: whether a path is a prefix or beneath it, by whole names.
Inside(prefix, path) == IsPrefix(prefix, path)

ValidBackendURL(url) ==
    \/ url.scheme = "http" /\ url.sound
    \/ LocalPath(url) # None
    \/ S3Location(url) # None

-----------------------------------------------------------------------------
(* Parts of a node.                                                        *)
HttpMethods == {"GET", "POST", "DELETE"}
S3Methods == {"ListObjectsV2", "GetObject", "PutObject", "DeleteObject", "CopyObject"}

ValidMethods(methods, url) ==
    methods # <<>> =>
        /\ url # NoURL
        /\ LocalPath(url) = None
        /\ ToSet(methods) \subseteq IF S3Location(url) # None THEN S3Methods ELSE HttpMethods
        /\ \A i, j \in DOMAIN methods : methods[i] = methods[j] => i = j

ValidPermissions(permissions, url) ==
    permissions # None => permissions <= MaxMode /\ S3Location(url) = None

\* An access says where a bucket is (reachable) and holds none, some or all of
\* a key's parts.
ValidKeys(access) == access.reachable /\ access.keys = "all"

ValidAccess(access, url) ==
    access # None => S3Location(url) # None /\ ValidKeys(access)

ValidNode(n) ==
    /\ n.counts
    /\ n.url # NoURL => ValidBackendURL(n.url)
    /\ ValidMethods(n.methods, n.url)
    /\ ValidPermissions(n.permissions, n.url)
    /\ ValidAccess(n.access, n.url)

\* Entry.Validate, for a node that is not the root.
HasChildren(tree, n) ==
    \E m \in ToSet(tree) : m.at # <<>> /\ Front(m.at) = n.at
ValidEntry(tree, n) ==
    /\ n.kind \in {"directory", "file"}
    /\ ValidName(Last(n.at))
    /\ n.kind = "file" => n.url # NoURL /\ ~HasChildren(tree, n)
    /\ n.kind = "directory" => n.url # NoURL \/ HasChildren(tree, n)

\* RootFS.Validate and validateChildren.
ValidTree(tree) ==
    /\ \A n \in ToSet(tree) : ValidNode(n) /\ (n.at # <<>> => ValidEntry(tree, n))
    /\ \A i, j \in DOMAIN tree : tree[i].at = tree[j].at => i = j

-----------------------------------------------------------------------------
(* Parts of a document.                                                    *)
ValidAuthBackend(auth) ==
    /\ (auth.baseURL = NoURL) # (auth.url = NoURL)
    /\ auth.timeoutMs # None => auth.timeoutMs >= 0
    /\ ValidBackendURL(IF auth.baseURL # NoURL THEN auth.baseURL ELSE auth.url)

\* Mutant: an overlap is looked for one way.
OverlapsOneWay(prefixes, i) == \E j \in 1..(i - 1) : Inside(prefixes[j], prefixes[i])

\* Overlaps looks from a prefix at those stated before it, both ways.
Overlaps(prefixes, i) ==
    \E j \in 1..(i - 1) : \/ Inside(prefixes[j], prefixes[i])
                          \/ Inside(prefixes[i], prefixes[j])

ValidFileBackend(prefixes) ==   \* (prefixes are absolute paths)
    /\ prefixes # <<>>
    /\ \A i \in DOMAIN prefixes : /\ Clean(prefixes[i]) = prefixes[i]
                                  /\ ~Overlaps(prefixes, i)

ValidBucket(b) ==
    /\ ValidBucketName(b.bucket)
    /\ IF b.useDefault THEN b.access.keys = "none" /\ b.access.reachable
                       ELSE ValidKeys(b.access)
ValidS3Backend(buckets) ==
    /\ \A b \in ToSet(buckets) : ValidBucket(b)
    /\ \A i, j \in DOMAIN buckets : buckets[i].bucket = buckets[j].bucket => i = j

\* Bucket: whether the table of the document names it.
Configured(c, bucket) ==
    c.buckets # None /\ \E b \in ToSet(c.buckets) : b.bucket = bucket

ValidLocalBackend(c, n) ==
    LocalPath(n.url) # None =>
        /\ c.prefixes # None
        /\ \E p \in ToSet(c.prefixes) : Inside(p, LocalPath(n.url))

ValidS3Node(c, n) ==
    S3Location(n.url) # None =>
        /\ c.buckets # None
        /\ n.access # None \/ Configured(c, Head(S3Location(n.url)))

\* Mutant: only the root and its children are visited.
WalkedShallowly(tree) == {n \in ToSet(tree) : Len(n.at) <= 1}

\* The nodes walkEntries visits: the root and everything beneath it.
Walked(tree) == ToSet(tree)

\* A user states credentials (none, sound or malformed) and numbers.
ValidUser(u) ==
    /\ ValidName(u.name)
    /\ u.credentials = "sound"
    /\ u.counts
    /\ ValidTree(u.tree)

Valid(c) ==
    /\ c.scalars
    /\ c.loginGraceMs # None => c.loginGraceMs >= 0
    /\ c.auth # None => ValidAuthBackend(c.auth)
    /\ c.prefixes # None => ValidFileBackend(c.prefixes)
    /\ c.buckets # None => ValidS3Backend(c.buckets)
    /\ c.users # <<>> \/ c.auth # None
    /\ \A u \in ToSet(c.users) :
          /\ ValidUser(u)
          /\ \A n \in Walked(u.tree) : ValidLocalBackend(c, n) /\ ValidS3Node(c, n)
    /\ \A i, j \in DOMAIN c.users : c.users[i].name = c.users[j].name => i = j

-----------------------------------------------------------------------------
(* What is read from a document that was accepted.                         *)
LoginGrace(c) == IF c.loginGraceMs = None THEN DefaultLoginGrace ELSE c.loginGraceMs

RequestTimeout(auth) ==
    IF auth = None THEN DefaultAuthBackendTimeout
    ELSE IF auth.timeoutMs = None THEN DefaultAuthBackendTimeout
    ELSE auth.timeoutMs

StaticUsers(c) == {u.name : u \in ToSet(c.users)}

\* ClientAlive: how long between probes, and how many may go unanswered.  A
\* user an authentication backend supplied may state anything here.
AtLeastZero(n) == IF n > 0 THEN n ELSE 0
AliveInterval(alive) == AtLeastZero(alive.ms)
AliveCountMax(alive) ==
    IF alive.countMax = None THEN DefaultClientAliveCountMax ELSE AtLeastZero(alive.countMax)

-----------------------------------------------------------------------------
(* What serves a node at request time: filesystem() registers a backend    *)
(* for each scheme the deployment consents to, localfs.resolve finds the   *)
(* prefix a path is inside, s3fs.resolve the credentials for a bucket.     *)
Registered(c, scheme) ==
    \/ scheme = "http"
    \/ scheme = "file" /\ c.prefixes # None
    \/ scheme = "s3" /\ c.buckets # None

Serving(c, url) ==
    {i \in DOMAIN c.prefixes : LocalPath(url) # None /\ Inside(c.prefixes[i], LocalPath(url))}

ResolvesLocally(c, n) == LocalPath(n.url) # None /\ Serving(c, n.url) # {}

ResolvesInS3(c, n) ==
    /\ S3Location(n.url) # None
    /\ IF n.access # None THEN ValidKeys(n.access)
       ELSE Configured(c, Head(S3Location(n.url)))

Served(c, n) ==
    /\ Registered(c, n.url.scheme)
    /\ n.url.scheme = "file" => ResolvesLocally(c, n)
    /\ n.url.scheme = "s3" => ResolvesInS3(c, n)
=============================================================================
