--------------------------------- MODULE S3 ---------------------------------
(***************************************************************************)
(* The S3 backend: src/server/internal/s3fs/s3fs.go.  A bucket (external)  *)
(* is a map from keys to objects.  The file n has the key n; the directory *)
(* n is there while some key begins with n/, the marker n/ itself included *)
(* (the path <<n, "">> here).  Any request may fail, and one that fails    *)
(* may have taken effect all the same.                                     *)
(***************************************************************************)
EXTENDS BackendCalls, SequencesExt

CONSTANT KeyOrder   \* all names, the empty one too, in the order of their keys

VARIABLES
    token,     \* List's paginator: the last entry of the page before
    children,  \* List's children so far
    always,    \* history: names in the directory ever since the call began
    ever       \* history: entries in the directory at some time since

s3Vars == <<token, children, always, ever>>

MarkerName == ""
Marker(n) == <<n, MarkerName>>
Keys == Paths \cup {Marker(n) : n \in Names}
DirectoryMark == 0

\* Calls, by the request they make next.
S3Requests == {"putObject", "putMarker", "head", "headTarget", "copy", "delete", "listTwo",
               "deleteMarker", "page", "listed"}
S3Calls ==
    [op : Operations, path : Paths \cup {Root}, to : Paths \cup {Root},
     mask : {s.granted : s \in Setups}, request : S3Requests]

ASSUME S3Assumption ==
    /\ None \notin S3Calls \cup 0..3
    /\ \A s \in Setups : s.page \in Nat
    /\ MarkerName \notin Names \cup Members
    /\ KeyOrder \in Seq(Names \cup Members \cup {MarkerName})
    /\ ToSet(KeyOrder) = Names \cup Members \cup {MarkerName}
    /\ \A i, j \in DOMAIN KeyOrder : KeyOrder[i] = KeyOrder[j] => i = j

Methods == setup.granted
Permits(op) == Methods = {} \/ op \in Methods

-----------------------------------------------------------------------------
(* What a listing with a delimiter reports: keys, and common prefixes.     *)
Under(s, n) == {k \in Keys : Len(k) = 2 /\ k[1] = n /\ s[k] # None}
Entries(s, d) ==
    IF d = Root
       THEN {[name |-> n, dir |-> FALSE] : n \in {n \in Names : s[<<n>>] # None}}
              \cup {[name |-> n, dir |-> TRUE] : n \in {n \in Names : Under(s, n) # {}}}
       ELSE {[name |-> k[2], dir |-> FALSE] : k \in Under(s, d[1])}
NamesOf(entries) == {e.name : e \in entries} \ {MarkerName}

\* The place of an entry in the order of keys: n comes before n/.
Place(e) ==
    2 * (CHOOSE i \in DOMAIN KeyOrder : KeyOrder[i] = e.name) + (IF e.dir THEN 1 ELSE 0)
Later(s, d, t) == {e \in Entries(s, d) : Place(e) > t}
Page(s, d, t) ==
    {e \in Later(s, d, t) :
        Cardinality({f \in Later(s, d, t) : Place(f) < Place(e)}) < setup.page}

\* Mutant: the marker of the directory is taken for a member.
FreshOrMarker(page, known) == {e \in page : e.name \notin NamesOf(known)}

\* Prefixes first, then keys, skipping names that were seen.
Fresh(page, known) ==
    {e \in page : /\ e.name \notin NamesOf(known) \cup {MarkerName}
                  /\ e.dir \/ [e EXCEPT !.dir = TRUE] \notin page}

\* A change of the store as seen by the listings under way.
IsListing(d) == call[d] # None /\ call[d].op = "list"
Noticed(new) ==
    /\ always' = [d \in Clients |->
          IF IsListing(d) THEN always[d] \cap NamesOf(Entries(new, call[d].path)) ELSE {}]
    /\ ever' = [d \in Clients |->
          IF IsListing(d) THEN ever[d] \cup Entries(new, call[d].path) ELSE {}]
    /\ UNCHANGED <<token, children>>
Stored(c, new) == Becomes(c, new) /\ Noticed(new)
ListingEnds(c) ==
    /\ token' = [token EXCEPT ![c] = 0]
    /\ children' = [children EXCEPT ![c] = {}]
    /\ always' = [always EXCEPT ![c] = {}] /\ ever' = [ever EXCEPT ![c] = {}]
Nothing(c) == Stays(c) /\ UNCHANGED s3Vars
With(k, object) == [store EXCEPT ![k] = object]

-----------------------------------------------------------------------------
S3Init ==
    /\ store \in [Keys -> {None, 1}]
    /\ \A n \in Names : store[Marker(n)] = None
    /\ token = [c \in Clients |-> 0] /\ children = [c \in Clients |-> {}]
    /\ always = [c \in Clients |-> {}] /\ ever = [c \in Clients |-> {}]

\* An operation whose requests are all permitted makes the first of them.
Starting(c, op, p, to, needed, request) ==
    /\ \A m \in needed : Permits(m)
    /\ Begin(c, op, p, to, Methods, request)
    /\ UNCHANGED s3Vars

\* Create's commit, Mkdir, Remove of a file and of a directory, and Rename.
\* (Bounds: only names in the root are directories, and a destination that is
\* not beside its source is refused before any request.)
Stores(c) == \E p \in Paths : Starting(c, "put", p, p, {"PutObject"}, "putObject")
MakesMarker(c) == \E p \in Top : Starting(c, "mkdir", p, p, {"PutObject"}, "putMarker")
RemovesFile(c) == \E p \in Paths : Starting(c, "remove", p, p, {"DeleteObject"}, "head")
RemovesDirectory(c) ==
    \E p \in Top : Starting(c, "rmdir", p, p, {"ListObjectsV2", "DeleteObject"}, "listTwo")
RenamesFile(c) ==
    \E p, to \in Paths :
        /\ p # to /\ Parent(p) = Parent(to)
        /\ Starting(c, "rename", p, to, {"CopyObject", "DeleteObject"}, "head")

\* HeadObject of what is removed or renamed, and of where it is renamed to.
Heads(c) ==
    /\ Makes(c, "head")
    /\ IF store[call[c].path] = None THEN Returns(c, "notExist")
       ELSE Goes(c, IF call[c].op = "rename" THEN "headTarget" ELSE "delete")
    /\ Nothing(c)

HeadsTarget(c) ==
    /\ Makes(c, "headTarget")
    /\ IF store[call[c].to] # None THEN Returns(c, "exist") ELSE Goes(c, "copy")
    /\ Nothing(c)

Copies(c) ==
    /\ Makes(c, "copy")
    /\ IF store[call[c].path] = None
          THEN Returns(c, "notExist") /\ Nothing(c)
          ELSE Goes(c, "delete") /\ Stored(c, With(call[c].to, store[call[c].path]))

\* Mutant: it asks for one.
OneKeyAskedFor == 1

\* removeDirectory asks for two keys: the first may be the marker.
KeysAskedFor == 2

ListsTwo(c) ==
    LET n == call[c].path[1]
        members == Under(store, n) \ {Marker(n)}
        room == IF store[Marker(n)] # None THEN KeysAskedFor - 1 ELSE KeysAskedFor
    IN  /\ Makes(c, "listTwo")
        /\ IF members # {} /\ room > 0 THEN Returns(c, "failure") ELSE Goes(c, "deleteMarker")
        /\ Nothing(c)

\* The request that makes a call's last change, and the change.
LastRequests == {"putObject", "putMarker", "delete", "deleteMarker"}
Change(k) ==
    CASE k.request = "putObject"    -> With(k.path, 2)
      [] k.request = "putMarker"    -> With(Marker(k.path[1]), DirectoryMark)
      [] k.request = "delete"       -> With(k.path, None)
      [] k.request = "deleteMarker" -> With(Marker(k.path[1]), None)
      [] k.request = "copy" /\ store[k.path] # None -> With(k.to, store[k.path])
      [] OTHER -> store
Finishes(c) ==
    /\ call[c] # None /\ call[c].request \in LastRequests
    /\ Returns(c, "ok")
    /\ Stored(c, Change(call[c]))

\* A request fails, having changed what it was to change or not.  (The errors
\* that outcome makes of it are one here.)
RequestFails(c) ==
    /\ call[c] # None /\ call[c].op # "list"
    /\ Returns(c, "failure")
    /\ \E new \in {store, Change(call[c])} : Stored(c, new)

PageFails(c) == Makes(c, "page") /\ Returns(c, "failure") /\ ListingEnds(c) /\ Stays(c)

\* List, page by page.  (A directory that withholds it is shown as empty.)
Lists(c) ==
    /\ \E d \in Top \cup {Root} :
          /\ Begin(c, "list", d, d, Methods, IF Permits("ListObjectsV2") THEN "page" ELSE "listed")
          /\ always' = [always EXCEPT ![c] =
                IF Permits("ListObjectsV2") THEN NamesOf(Entries(store, d)) ELSE {}]
          /\ ever' = [ever EXCEPT ![c] = Entries(store, d)]
    /\ token' = [token EXCEPT ![c] = 0]
    /\ children' = [children EXCEPT ![c] = {}]

\* Mutant: a listing past the limit is what was found before it.
TooManyIsEnough(c) == Goes(c, "listed") /\ UNCHANGED s3Vars

TooMany(c) == Returns(c, "failure") /\ ListingEnds(c)

Pages(c) ==
    LET page == Page(store, call[c].path, token[c])
        found == children[c] \cup Fresh(page, children[c])
        end == IF page = {} THEN token[c] ELSE Max({Place(e) : e \in page})
    IN  /\ Makes(c, "page")
        /\ IF Cardinality(found) > setup.limit THEN TooMany(c)
           ELSE /\ Goes(c, IF Later(store, call[c].path, end) = {} THEN "listed" ELSE "page")
                /\ children' = [children EXCEPT ![c] = found]
                /\ token' = [token EXCEPT ![c] = end]
                /\ UNCHANGED <<always, ever>>
        /\ Stays(c)

Listed(c) == Makes(c, "listed") /\ Returns(c, "ok") /\ Stays(c) /\ ListingEnds(c)

SomeoneElse ==
    \E k \in Keys, object \in {None, 3} :
        /\ store[k] # object
        /\ FromOutside(With(k, object)) /\ Noticed(With(k, object))

S3Step ==
    \/ \E c \in Clients :
          \/ Stores(c) \/ MakesMarker(c) \/ RemovesFile(c) \/ RemovesDirectory(c)
          \/ RenamesFile(c) \/ Heads(c) \/ HeadsTarget(c) \/ Copies(c) \/ ListsTwo(c)
          \/ Finishes(c) \/ RequestFails(c)
          \/ Lists(c) \/ Pages(c) \/ PageFails(c) \/ Listed(c)
    \/ SomeoneElse

-----------------------------------------------------------------------------
(* A listing that succeeds misses no name that was in the directory all    *)
(* along, shows none that was not there at some time while it was made,    *)
(* and shows each name once, whatever the pages it came in and whatever    *)
(* changed between them.  If nothing changed and it came in one page, "a   *)
(* key and a prefix sharing a name resolve to the directory": over several *)
(* pages they resolve to the one listed first.  (s3fs.go: List)            *)
Collided(d) == {n \in Names : [name |-> n, dir |-> TRUE] \in Entries(store, d)}
ListingIsHonest ==
    \A c \in Clients : Makes(c, "listed") =>
        /\ always[c] \subseteq NamesOf(children[c])
        /\ children[c] \subseteq ever[c]
        /\ \A e, f \in children[c] : e.name = f.name => e = f
        /\ Alone(c) /\ Cardinality(Entries(store, call[c].path)) <= setup.page =>
              \A e \in children[c] : e.dir \/ e.name \notin Collided(call[c].path)
=============================================================================
