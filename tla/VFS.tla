-------------------------------- MODULE VFS --------------------------------
(***************************************************************************)
(* The virtual filesystem of one connection and its resolution cache:      *)
(* src/server/internal/vfs/vfs.go.  Every channel of the connection shares *)
(* one FS.  Its mutex covers each look at the map and each change of it,   *)
(* and nothing else: a listing is a request to the backend, and what it    *)
(* said may be remembered after another channel has changed it.            *)
(*                                                                         *)
(* A path is the sequence of its names.  A node is where the backend says  *)
(* it is (its location, the Backend URL) and whether it is a directory.    *)
(* A directory may also be listed with its children inline and no backend  *)
(* of its own; its node then has the location NoLoc.                       *)
(*                                                                         *)
(* The backend is external.  It answers in terms of locations, each call   *)
(* taking effect at one moment.                                            *)
(***************************************************************************)
EXTENDS Naturals, Sequences

CONSTANTS
    Channels,  \* the channels a connection may have
    Names,     \* names an entry may have
    Paths,     \* the paths there may be, closed under taking a prefix
    Setups,    \* what a connection may be over: its channels, the paths they
               \* ask for, the directories listed with their children inline,
               \* and whether locations follow from paths, and so change with
               \* a rename
    Files,     \* the paths that hold a file to begin with
    Dirs,      \* and those that hold a directory
    MaxLocs,   \* bound: locations a backend that assigns them may assign
    None,      \* no cached node, no writer
    Absent     \* nothing at a path

Root == <<>>

Parent(p) == SubSeq(p, 1, Len(p) - 1)
Prefix(p, i) == SubSeq(p, 1, i)
Beneath(p, q) == Len(p) <= Len(q) /\ Prefix(q, Len(p)) = p

ASSUME PathAssumption ==
    /\ Paths \subseteq Seq(Names) \ {Root}
    /\ \A p \in Paths : Parent(p) \in Paths \cup {Root}
    /\ Files \cup Dirs \subseteq Paths
    /\ Files \cap Dirs = {}
    /\ \A p \in Files \cup Dirs : Parent(p) \in Dirs \cup {Root}
ASSUME SetupAssumption ==
    \A s \in Setups :
        /\ s.channels \subseteq Channels /\ s.channels # {}
        /\ s.asked \subseteq Paths /\ s.inline \subseteq Dirs
        /\ s.pathLocs \in BOOLEAN
ASSUME BoundAssumption == MaxLocs \in Nat

VARIABLES
    setup,     \* which of them it is
    store,     \* the backend: what is at each path
    fresh,     \* how many locations it has assigned
    resolved,  \* FS.resolved: the node remembered for each path
    pc,        \* what each channel's command worker is doing
    task,      \* the operation it was asked for
    goal,      \* the path resolve is walking to
    cur,       \* the node it has reached
    idx,       \* and how many names it took
    seen,      \* the listing it was answered with
    reply,     \* how its last operation ended
    listing,   \* and what a List returned
    writer     \* the upload it has open, if any

vars == <<setup, store, fresh, resolved, pc, task, goal, cur, idx, seen, reply,
          listing, writer>>
backend == <<store, fresh>>

PathLocs == setup.pathLocs
InlineDirs == setup.inline
walk == <<goal, cur, idx, seen>>

NoLoc == <<"none">>
Assigned(n) == <<"id", n>>
NoNodes == <<>>

RootNode == [loc |-> Root, dir |-> TRUE, kids |-> NoNodes]

NoTask == [op |-> "list", path |-> Root, to |-> Root]
Operations == {"stat", "list", "open", "create", "mkdir", "remove", "rename"}
Tasks ==
    [op : Operations \ {"rename", "list"}, path : setup.asked, to : {Root}]
      \cup [op : {"list"}, path : setup.asked \cup {Root}, to : {Root}]
      \cup {t \in [op : {"rename"}, path : setup.asked, to : setup.asked] : t.path # t.to}

Locs == {Root, NoLoc} \cup Paths \cup {Assigned(n) : n \in 0..MaxLocs}

\* A location is of one kind, and nothing else is called Absent.
ASSUME LocAssumption ==
    /\ NoLoc \notin Paths
    /\ \A n \in 0..MaxLocs : Assigned(n) \notin Paths
    /\ Absent \notin [loc : Locs, dir : BOOLEAN]

IsNode(n) == n.loc \in Locs /\ n.dir \in BOOLEAN /\ DOMAIN n.kids \subseteq Names

ChannelOK(c) ==
    /\ pc[c] \in {"idle", "walk", "listed", "removing", "forgetTo", "renaming"}
    /\ task[c] \in Tasks
    /\ goal[c] \in Paths \cup {Root}
    /\ IsNode(cur[c])
    /\ idx[c] \in 0..Len(goal[c])
    /\ \A n \in DOMAIN seen[c] : n \in Names /\ IsNode(seen[c][n])
    /\ reply[c] \in {"none", "ok", "notExist", "exist", "unsupported", "failure"}

TypeOK ==
    /\ setup \in Setups
    /\ \A p \in Paths : store[p] # Absent =>
          store[p].loc \in Locs /\ store[p].dir \in BOOLEAN
    /\ fresh \in 0..MaxLocs
    /\ \A p \in Paths : resolved[p] # None => IsNode(resolved[p])
    /\ \A c \in Channels : ChannelOK(c)

-----------------------------------------------------------------------------
(* The backend.                                                            *)
Exists(p) == p = Root \/ (p \in Paths /\ store[p] # Absent)
IsDir(p) == p = Root \/ (p \in Paths /\ store[p] # Absent /\ store[p].dir)

Live(loc) == loc = Root \/ \E p \in Paths : store[p] # Absent /\ store[p].loc = loc
PathOf(loc) ==
    IF loc = Root THEN Root
    ELSE CHOOSE p \in Paths : store[p] # Absent /\ store[p].loc = loc

Children(p) == {n \in Names : Append(p, n) \in Paths /\ store[Append(p, n)] # Absent}

\* An entry of a listing, and the whole listing of a directory.
Plain(p) == [loc |-> store[p].loc, dir |-> store[p].dir, kids |-> NoNodes]
Shown(p) ==
    IF p \in InlineDirs /\ store[p].dir /\ Children(p) # {}
       THEN [loc |-> NoLoc, dir |-> TRUE,
             kids |-> [n \in Children(p) |-> Plain(Append(p, n))]]
       ELSE Plain(p)
Listing(p) == [n \in Children(p) |-> Shown(Append(p, n))]

\* Where something new at p is found.
CanAssign == PathLocs \/ fresh < MaxLocs
NewLoc(p) == IF PathLocs THEN p ELSE Assigned(fresh + 1)
Assign == fresh' = IF PathLocs THEN fresh ELSE fresh + 1

Put(p, isDir) ==
    /\ CanAssign
    /\ store' = [store EXCEPT ![p] = [loc |-> NewLoc(p), dir |-> isDir]]
    /\ Assign

Delete(p) == store' = [q \in Paths |-> IF Beneath(p, q) THEN Absent ELSE store[q]]

\* What was at p or beneath it is now at to, which is replaced whole.
Moved(p, to, q) == p \o SubSeq(q, Len(to) + 1, Len(q))
Relocated(object, q) == IF PathLocs THEN [object EXCEPT !.loc = q] ELSE object
Move(p, to) ==
    /\ IsDir(Parent(to))
    /\ ~Beneath(p, to) /\ ~Beneath(to, p)
    /\ \A q \in Paths : Beneath(p, q) /\ store[q] # Absent =>
                           to \o SubSeq(q, Len(p) + 1, Len(q)) \in Paths
    /\ store' = [q \in Paths |->
          IF Beneath(to, q)
             THEN IF Exists(Moved(p, to, q))
                     THEN Relocated(store[Moved(p, to, q)], q) ELSE Absent
          ELSE IF Beneath(p, q) THEN Absent
          ELSE store[q]]

-----------------------------------------------------------------------------
Init ==
    /\ setup \in Setups
    /\ store = [p \in Paths |->
                  IF p \in Files \cup Dirs THEN [loc |-> p, dir |-> p \in Dirs]
                  ELSE Absent]
    /\ fresh = 0
    /\ resolved = [p \in Paths |-> None]
    /\ pc = [c \in Channels |-> "idle"]
    /\ task = [c \in Channels |-> NoTask]
    /\ goal = [c \in Channels |-> Root]
    /\ cur = [c \in Channels |-> RootNode]
    /\ idx = [c \in Channels |-> 0]
    /\ seen = [c \in Channels |-> NoNodes]
    /\ reply = [c \in Channels |-> "none"]
    /\ listing = [c \in Channels |-> NoNodes]
    /\ writer = [c \in Channels |-> None]

Goto(c, p) == pc' = [pc EXCEPT ![c] = p]

\* An operation returns, and what it had in hand is no more.
Finish(c, answer) ==
    /\ Goto(c, "idle")
    /\ reply' = [reply EXCEPT ![c] = answer]
    /\ task' = [task EXCEPT ![c] = NoTask]
    /\ goal' = [goal EXCEPT ![c] = Root]
    /\ cur' = [cur EXCEPT ![c] = RootNode]
    /\ idx' = [idx EXCEPT ![c] = 0]
    /\ seen' = [seen EXCEPT ![c] = NoNodes]

(* longestResolved(): the nearest remembered ancestor of a path, or the    *)
(* path itself, looked for in one critical section.                        *)
LongestResolved(p) ==
    LET known == {i \in 1..Len(p) : resolved[Prefix(p, i)] # None}
    IN  IF known = {} THEN 0 ELSE CHOOSE i \in known : \A j \in known : j <= i

Resolve(c, p) ==
    LET n == LongestResolved(p)
    IN  /\ goal' = [goal EXCEPT ![c] = p]
        /\ idx' = [idx EXCEPT ![c] = n]
        /\ cur' = [cur EXCEPT ![c] = IF n = 0 THEN RootNode ELSE resolved[Prefix(p, n)]]
        /\ seen' = [seen EXCEPT ![c] = NoNodes]
        /\ Goto(c, "walk")

\* An operation starts.  Stat resolves the parent, and then lists it.  (Bound:
\* a channel has one upload open at a time.)
Begin(c, t) ==
    /\ pc[c] = "idle"
    /\ t.op = "create" => writer[c] = None
    /\ task' = [task EXCEPT ![c] = t]
    /\ Resolve(c, IF t.op = "stat" THEN Parent(t.path) ELSE t.path)
    /\ reply' = [reply EXCEPT ![c] = "none"]
    /\ listing' = [listing EXCEPT ![c] = NoNodes]
    /\ UNCHANGED <<backend, resolved, writer>>

(* The path, or its parent, is not there.  Create and Mkdir then resolve   *)
(* the directory to create in (newChild); every other operation ends.      *)
SeeksParent(c) == task[c].op \in {"create", "mkdir"} /\ goal[c] = task[c].path

Missing(c) ==
    IF SeeksParent(c)
       THEN Resolve(c, Parent(task[c].path)) /\ UNCHANGED <<task, reply>>
       ELSE Finish(c, "notExist")

-----------------------------------------------------------------------------
(* resolve(): one listing per name still to walk.  Stat makes one more.    *)
Walking(c) == pc[c] = "walk" /\ idx[c] < Len(goal[c])
Statting(c) == pc[c] = "walk" /\ idx[c] = Len(goal[c]) /\ task[c].op = "stat"
Arrived(c) == pc[c] = "walk" /\ idx[c] = Len(goal[c]) /\ task[c].op # "stat"

DescendsIntoFile(c) ==
    /\ Walking(c)
    /\ ~cur[c].dir
    /\ Missing(c)
    /\ UNCHANGED <<backend, resolved, listing, writer>>

\* Stat asks for the parent's listing without looking at what the parent is.
NeedsListing(c) == (Walking(c) /\ cur[c].dir) \/ Statting(c)

ListsInline(c) ==
    /\ NeedsListing(c)
    /\ cur[c].loc = NoLoc
    /\ seen' = [seen EXCEPT ![c] = cur[c].kids]
    /\ Goto(c, "listed")
    /\ UNCHANGED <<backend, resolved, task, goal, cur, idx, reply, listing, writer>>

Lists(c) ==
    /\ NeedsListing(c)
    /\ Live(cur[c].loc)
    /\ IsDir(PathOf(cur[c].loc))
    /\ seen' = [seen EXCEPT ![c] = Listing(PathOf(cur[c].loc))]
    /\ Goto(c, "listed")
    /\ UNCHANGED <<backend, resolved, task, goal, cur, idx, reply, listing, writer>>

\* The location is gone, which the backend reports as such.
ListsNothing(c) ==
    /\ NeedsListing(c)
    /\ cur[c].loc # NoLoc
    /\ ~Live(cur[c].loc)
    /\ Missing(c)
    /\ UNCHANGED <<backend, resolved, listing, writer>>

\* The backend fails, as it always does when asked to list a file.
ListFails(c) ==
    /\ NeedsListing(c)
    /\ cur[c].loc # NoLoc
    /\ Finish(c, "failure")
    /\ UNCHANGED <<backend, resolved, listing, writer>>

(* The name is looked for in what was listed, and remembered if it is      *)
(* there: another critical section, after the answer has arrived.          *)
NextName(c) == task[c].path[idx[c] + 1]
\* Mutant: a child is remembered as its parent.
HereTooSoon(c) == Prefix(task[c].path, idx[c])
Here(c) == Prefix(task[c].path, idx[c] + 1)

\* Mutant: Stat takes the parent's child for one more directory to walk.
IsAnswerOneLate(c) == idx[c] > Len(goal[c])
IsAnswer(c) == idx[c] = Len(goal[c])

TakesChild(c) ==
    /\ pc[c] = "listed"
    /\ NextName(c) \in DOMAIN seen[c]
    /\ resolved' = [resolved EXCEPT ![Here(c)] = seen[c][NextName(c)]]
    /\ IF IsAnswer(c)
          THEN Finish(c, "ok")
          ELSE /\ cur' = [cur EXCEPT ![c] = seen[c][NextName(c)]]
               /\ idx' = [idx EXCEPT ![c] = @ + 1]
               /\ seen' = [seen EXCEPT ![c] = NoNodes]
               /\ Goto(c, "walk")
               /\ UNCHANGED <<reply, task, goal>>
    /\ UNCHANGED <<backend, listing, writer>>

FindsNoChild(c) ==
    /\ pc[c] = "listed"
    /\ NextName(c) \notin DOMAIN seen[c]
    /\ Missing(c)
    /\ UNCHANGED <<backend, resolved, listing, writer>>

-----------------------------------------------------------------------------
(* The operations, once their path is resolved.                            *)
On(c, ops) == Arrived(c) /\ task[c].op \in ops

\* A directory where a file was needed, or a file where a directory was.
WrongKind(c) ==
    /\ \/ On(c, {"list"}) /\ ~cur[c].dir
       \/ On(c, {"open"}) /\ cur[c].dir
       \/ On(c, {"create"}) /\ goal[c] = task[c].path /\ cur[c].dir
    /\ Finish(c, "unsupported")
    /\ UNCHANGED <<backend, resolved, listing, writer>>

\* backendFor() on a node that has none.
NoBackend(c) ==
    /\ \/ On(c, {"remove", "rename"})
       \/ On(c, {"create", "mkdir"}) /\ goal[c] # task[c].path
    /\ cur[c].loc = NoLoc
    /\ Finish(c, "unsupported")
    /\ UNCHANGED <<backend, resolved, listing, writer>>

ListReturns(c) ==
    /\ On(c, {"list"})
    /\ cur[c].dir
    /\ \/ cur[c].loc = NoLoc /\ listing' = [listing EXCEPT ![c] = cur[c].kids]
       \/ /\ Live(cur[c].loc)
          /\ IsDir(PathOf(cur[c].loc))
          /\ listing' = [listing EXCEPT ![c] = Listing(PathOf(cur[c].loc))]
    /\ Finish(c, "ok")
    /\ UNCHANGED <<backend, resolved, writer>>

\* The backend call that ends an operation fails: because what it was given is
\* not there, or for any other reason.
LacksTarget(c) == pc[c] = "renaming" /\ ~Exists(Parent(task[c].to))

CallFails(c) ==
    /\ \/ On(c, {"list"}) /\ cur[c].dir /\ cur[c].loc # NoLoc
       \/ On(c, {"open"}) /\ ~cur[c].dir
       \/ On(c, {"create"}) /\ goal[c] = task[c].path /\ ~cur[c].dir
       \/ On(c, {"create", "mkdir"}) /\ goal[c] # task[c].path /\ cur[c].dir /\ cur[c].loc # NoLoc
       \/ pc[c] \in {"removing", "renaming"}
    /\ \E answer \in {"notExist", "failure"} :
          /\ answer = "notExist" => ~Live(cur[c].loc) \/ LacksTarget(c)
          /\ Finish(c, answer)
    /\ UNCHANGED <<backend, resolved, listing, writer>>

Opens(c) ==
    /\ On(c, {"open"})
    /\ ~cur[c].dir
    /\ Live(cur[c].loc)
    /\ Finish(c, "ok")
    /\ UNCHANGED <<backend, resolved, listing, writer>>

\* Create of a file that is there: it is written through its own location.
CreatesOver(c) ==
    /\ On(c, {"create"})
    /\ goal[c] = task[c].path
    /\ ~cur[c].dir
    /\ writer' = [writer EXCEPT ![c] = [loc |-> cur[c].loc, name |-> None]]
    /\ Finish(c, "ok")
    /\ UNCHANGED <<backend, resolved, listing>>

\* Create of one that is not: a child of the directory it belongs in.
CreatesChild(c) ==
    /\ On(c, {"create"})
    /\ goal[c] # task[c].path
    /\ cur[c].dir
    /\ cur[c].loc # NoLoc
    /\ writer' = [writer EXCEPT ![c] =
                    [loc |-> cur[c].loc, name |-> task[c].path[Len(task[c].path)]]]
    /\ Finish(c, "ok")
    /\ UNCHANGED <<backend, resolved, listing>>

\* newChild() beneath something that is not a directory.
NoParent(c) ==
    /\ On(c, {"create", "mkdir"})
    /\ goal[c] # task[c].path
    /\ ~cur[c].dir
    /\ Finish(c, "notExist")
    /\ UNCHANGED <<backend, resolved, listing, writer>>

\* The upload is closed and committed, by the same worker, between operations.
\* It brings a file into being where its location now says, if it can.
Lands(w, p) ==
    /\ \/ w.name # None /\ Live(w.loc) /\ p = Append(PathOf(w.loc), w.name)
       \/ w.name = None /\ PathLocs /\ p = w.loc
    /\ ~Exists(p)
    /\ IsDir(Parent(p))
    /\ Put(p, FALSE)

Commits(c) ==
    /\ pc[c] = "idle"
    /\ writer[c] # None
    /\ \/ \E p \in Paths : Lands(writer[c], p)
       \/ UNCHANGED backend
    /\ writer' = [writer EXCEPT ![c] = None]
    /\ UNCHANGED <<resolved, pc, task, walk, reply, listing>>

MkdirFindsIt(c) ==
    /\ On(c, {"mkdir"})
    /\ goal[c] = task[c].path
    /\ Finish(c, "exist")
    /\ UNCHANGED <<backend, resolved, listing, writer>>

Mkdirs(c) ==
    /\ On(c, {"mkdir"})
    /\ goal[c] # task[c].path
    /\ cur[c].dir
    /\ cur[c].loc # NoLoc
    /\ Live(cur[c].loc)
    /\ LET p == Append(PathOf(cur[c].loc), task[c].path[Len(task[c].path)])
       IN  p \in Paths /\ ~Exists(p) /\ IsDir(Parent(p)) /\ Put(p, TRUE)
    /\ Finish(c, "ok")
    /\ UNCHANGED <<resolved, listing, writer>>

-----------------------------------------------------------------------------
(* Remove and Rename forget before they act.                               *)
\* Mutant: forget drops the one path and none beneath it.
ForgetJustThePath(p) == resolved' = [resolved EXCEPT ![p] = None]
Forget(p) == resolved' = [q \in Paths |-> IF Beneath(p, q) THEN None ELSE resolved[q]]

\* Mutant: Remove forgets nothing.
RemoveKeepsIt(c) ==
    /\ On(c, {"remove"})
    /\ cur[c].loc # NoLoc
    /\ Goto(c, "removing")
    /\ UNCHANGED <<backend, resolved, task, walk, reply, listing, writer>>

RemoveForgets(c) ==
    /\ On(c, {"remove"})
    /\ cur[c].loc # NoLoc
    /\ Forget(task[c].path)
    /\ Goto(c, "removing")
    /\ UNCHANGED <<backend, task, walk, reply, listing, writer>>

Removes(c) ==
    /\ pc[c] = "removing"
    /\ Live(cur[c].loc)
    /\ Delete(PathOf(cur[c].loc))
    /\ Finish(c, "ok")
    /\ UNCHANGED <<fresh, resolved, listing, writer>>

RenameForgetsSource(c) ==
    /\ On(c, {"rename"})
    /\ cur[c].loc # NoLoc
    /\ Forget(task[c].path)
    /\ Goto(c, "forgetTo")
    /\ UNCHANGED <<backend, task, walk, reply, listing, writer>>

\* Mutant: Rename forgets its source alone.
RenameKeepsTarget(c) ==
    /\ pc[c] = "forgetTo"
    /\ Goto(c, "renaming")
    /\ UNCHANGED <<backend, resolved, task, walk, reply, listing, writer>>

RenameForgetsTarget(c) ==
    /\ pc[c] = "forgetTo"
    /\ Forget(task[c].to)
    /\ Goto(c, "renaming")
    /\ UNCHANGED <<backend, task, walk, reply, listing, writer>>

Renames(c) ==
    /\ pc[c] = "renaming"
    /\ Live(cur[c].loc)
    /\ Move(PathOf(cur[c].loc), task[c].to)
    /\ Finish(c, "ok")
    /\ UNCHANGED <<fresh, resolved, listing, writer>>

-----------------------------------------------------------------------------
Step(c) ==
    \/ DescendsIntoFile(c) \/ ListsInline(c) \/ Lists(c) \/ ListsNothing(c) \/ ListFails(c)
    \/ TakesChild(c) \/ FindsNoChild(c)
    \/ WrongKind(c) \/ NoBackend(c) \/ ListReturns(c) \/ CallFails(c) \/ Opens(c)
    \/ CreatesOver(c) \/ CreatesChild(c) \/ NoParent(c) \/ Commits(c)
    \/ MkdirFindsIt(c) \/ Mkdirs(c)
    \/ RemoveForgets(c) \/ Removes(c)
    \/ RenameForgetsSource(c) \/ RenameForgetsTarget(c) \/ Renames(c)

Next ==
    /\ \E c \in setup.channels : Step(c) \/ \E t \in Tasks : Begin(c, t)
    /\ UNCHANGED setup

Spec == Init /\ [][Next]_vars

-----------------------------------------------------------------------------
\* At or beneath a directory that is listed with its children inline.
Inlined(p) == \E d \in InlineDirs : Beneath(d, p)

Alone == \A c, d \in setup.channels : c = d

\* Locations lead to where they were found.  (One that is kept in a rename
\* leads to where that took it, for a channel that does not know of it, and
\* for one that finds it among children remembered inline.)
LocsHold == PathLocs \/ (Alone /\ InlineDirs = {})

(* On a connection with one channel, what is remembered is true: each path *)
(* remembered is still there, as what it was remembered as and where.      *)
(* (Children given inline are the exception: see ListingIsFresh.)          *)
CacheIsTrue ==
    Alone /\ LocsHold => \A p \in Paths : resolved[p] # None /\ ~Inlined(p) =>
        store[p] # Absent /\ resolved[p] = Shown(p)

(* "No such file" is never the cache's own answer: an operation that says  *)
(* so, on a connection's only channel, names something the backend does    *)
(* not have.                                                               *)
NotFoundIsTrue ==
    [][\A c \in setup.channels :
         /\ Alone /\ LocsHold
         /\ pc[c] # "idle" /\ pc'[c] = "idle" /\ reply'[c] = "notExist"
         =>  \/ ~Exists(task[c].path) \/ Inlined(task[c].path)
             \/ task[c].op = "rename" /\ ~Exists(Parent(task[c].to))]_vars

(* A listing is what the directory holds now, nothing of it remembered.    *)
(* Children given inline are the exception: they are remembered with their *)
(* directory.                                                              *)
ListingIsFresh ==
    [][LocsHold => \A c \in setup.channels :
         On(c, {"list"}) /\ pc'[c] = "idle" /\ reply'[c] = "ok" /\ ~Inlined(task[c].path) =>
             IsDir(task[c].path) /\ listing'[c] = Listing(task[c].path)]_vars

(* A remove or rename that succeeds leaves neither the path that is gone   *)
(* nor anything beneath it remembered.                                     *)
Forgets(c) ==
    pc[c] \in {"removing", "renaming"} /\ pc'[c] = "idle" /\ reply'[c] = "ok" =>
        \A p \in Paths : Beneath(task[c].path, p) => resolved'[p] = None
GoneIsForgotten == [][\A c \in setup.channels : Forgets(c)]_vars

(* A connection with one channel keeps to that: of what a remove or rename *)
(* took away nothing is remembered.                                        *)
GoneIsForgottenAlone == [][Alone => \A c \in setup.channels : Forgets(c)]_vars

(* A remove that succeeds takes away what its path names, all of that and  *)
(* nothing else, wherever earlier renames have put things and whatever     *)
(* other channels have remembered.                                         *)
RemovesWhatItNames ==
    [][LocsHold => \A c \in setup.channels :
         pc[c] = "removing" /\ pc'[c] = "idle" /\ reply'[c] = "ok" =>
             \A p \in Paths :
                 store'[p] = IF Beneath(task[c].path, p) THEN Absent ELSE store[p]]_vars
=============================================================================
