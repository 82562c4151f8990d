------------------------------ MODULE LocalFS ------------------------------
(***************************************************************************)
(* The local backend: src/server/internal/localfs.  A file or directory    *)
(* has a mode, and a node states the mask it is served with; both are what *)
(* of "r" and "w" they allow (any read bit, any write bit).  The           *)
(* filesystem (external) is the proxy's own: it refuses what is not there  *)
(* or in the way, and never for its mode.  A call begins when the client's *)
(* filesystem finds the node it is given, which may be out of date by the  *)
(* time of the first request.                                              *)
(***************************************************************************)
EXTENDS BackendCalls

CONSTANT MaxCrashes   \* bound: restarts of the process

VARIABLES
    temps,    \* the uploads with a file under a hidden name in each directory,
              \* None for files no upload will come back for
    moved,    \* history: a directory was renamed while a file in it was uploaded
    botched,  \* history: a failed upload was aborted by who does not close it
    crashes   \* restarts so far

histories == <<moved, botched, crashes>>
localVars == <<temps, histories>>

Directories == Top \cup {Root}
AllBits == {"r", "w"}

\* Calls, by the request they make next.
LocalRequests ==
    {"statNew", "create", "publish", "mkdir", "stat", "unlink", "statTarget", "rename"}
LocalCalls ==
    [op : Operations, path : Paths \cup {Root}, to : Paths \cup {Root},
     mask : SUBSET AllBits, request : LocalRequests]

\* What may be at a path: a content is the call's, another's, or none.
LocalObjects == [kind : {"file", "directory"}, mode : SUBSET AllBits, content : 0..2]

ASSUME LocalAssumption ==
    /\ \A s \in Setups : s.scheme # "s3" => s.granted \subseteq AllBits
    /\ None \notin Clients \cup LocalCalls \cup LocalObjects
    /\ MaxCrashes \in Nat

New(kind, content) == [kind |-> kind, mode |-> AllBits, content |-> content]

Kind(s, p) == IF p = Root THEN "directory" ELSE IF s[p] = None THEN "none" ELSE s[p].kind
Mode(p) == IF p = Root THEN AllBits ELSE store[p].mode
HasMembers(p) == temps[p] # {} \/ \E q \in Paths : Parent(q) = p /\ store[q] # None

Same(c) == Stays(c) /\ UNCHANGED localVars
StoreOnly(c, new) == Becomes(c, new) /\ UNCHANGED localVars
Put(p, object) == [store EXCEPT ![p] = object]

\* What outsiders and the deployment put there.
Objects == [kind : {"file"}, mode : {{"r"}, AllBits}, content : {1}]
             \cup [kind : {"directory"}, mode : {{"r"}, AllBits}, content : {0}]

LocalInit ==
    /\ store \in {s \in [Paths -> Objects \cup {None}] :
                    \A p \in Paths \ Top : /\ s[p] # None => Kind(s, Parent(p)) = "directory"
                                                             /\ s[p].kind = "file"}
    /\ temps = [d \in Directories |-> {}]
    /\ moved = FALSE /\ botched = FALSE
    /\ crashes = 0

-----------------------------------------------------------------------------
(* What a node states.                                                     *)
Readable(mode) == "r" \in mode
Writable(mode) == "w" \in mode

\* Mutant: a child states its own mode, whatever its directory's mask.
ChildModeAlone(mask, p) == Mode(p)

\* child: the mode of a member narrowed by the mask of its directory.
ChildMask(mask, p) == Mode(p) \cap mask

\* The mask of a directory the client's filesystem gets to, and of the node it
\* finds at a path: its directory lists it, or else Child gives it the mask of
\* its directory.  A directory that may not be read is shown as empty.
Reached(d) == d # Root => Readable(setup.granted) /\ Kind(store, d) = "directory"
MaskOf(d) == IF d = Root THEN setup.granted ELSE ChildMask(setup.granted, d)
Shown(p) == Readable(MaskOf(Parent(p))) /\ store[p] # None
Mask(p) == IF Shown(p) THEN ChildMask(MaskOf(Parent(p)), p) ELSE MaskOf(Parent(p))

-----------------------------------------------------------------------------
(* Changes.                                                                *)
\* The paths of nodes that state they may be changed.
Changeable == {p \in Paths : Reached(Parent(p)) /\ Writable(Mask(p))}
Given(c, op, p, to, request) == Begin(c, op, p, to, Mask(p), request) /\ UNCHANGED localVars

StartsCreate(c) ==
    \E p \in {q \in Changeable : Shown(q) => Kind(store, q) = "file"} :
        Given(c, "put", p, p, "statNew")
StartsMkdir(c) ==
    \E p \in {q \in Changeable \cap Top : ~Shown(q)} : Given(c, "mkdir", p, p, "mkdir")
StartsRemove(c) ==
    \E p \in {q \in Changeable : Shown(q)} : Given(c, "remove", p, p, "stat")
StartsRename(c) ==
    \E p \in {q \in Changeable : Shown(q)} :
        \E to \in Paths \ {p} : Parent(p) = Parent(to) /\ Given(c, "rename", p, to, "stat")

\* What is there must be writable as well, for Create to replace it and, by
\* permitChange, for Remove and Rename.
MayWrite(c, p) == Writable(Mode(p) \cap call[c].mask)

StatsNew(c) ==
    LET p == call[c].path
    IN  /\ Makes(c, "statNew")
        /\ IF Kind(store, p) = "none" THEN Goes(c, "create")
           ELSE IF Kind(store, p) = "directory" THEN Returns(c, "unsupported")
           ELSE IF ~MayWrite(c, p) THEN Returns(c, "permission")
           ELSE Goes(c, "create")
        /\ Same(c)

PermitsChange(c) ==
    LET p == call[c].path
    IN  /\ Makes(c, "stat")
        /\ IF Kind(store, p) = "none" THEN Returns(c, "notExist")
           ELSE IF ~MayWrite(c, p) THEN Returns(c, "permission")
           ELSE Goes(c, IF call[c].op = "remove" THEN "unlink" ELSE "statTarget")
        /\ Same(c)

\* newUpload: a hidden file beside the one that is written.
Creates(c) ==
    LET d == Parent(call[c].path)
    IN  /\ Makes(c, "create")
        /\ IF Kind(store, d) = "directory"
              THEN Goes(c, "publish") /\ temps' = [temps EXCEPT ![d] = @ \cup {c}]
              ELSE Returns(c, IF Kind(store, d) = "none" THEN "notExist" ELSE "failure")
                   /\ UNCHANGED temps
        /\ Stays(c) /\ UNCHANGED histories

\* Mutant: an upload that is given up on leaves its file.
StillThere(hidden, d, c) == hidden

\* Close renames it over that one, or removes it if a write, or the rename,
\* failed; Abort removes it if no write did.  All of them name it in the
\* directory it was made in, wherever that is now.
Gone(hidden, d, c) ==
    [e \in Directories |-> IF e = d \/ c \notin hidden[e] THEN hidden[e] \ {c}
                           ELSE (hidden[e] \ {c}) \cup {None}]

Publishes(c) ==
    LET p == call[c].path
    IN  /\ Makes(c, "publish")
        /\ temps' = Gone(temps, Parent(p), c)
        /\ UNCHANGED histories
        /\ \/ /\ c \in temps[Parent(p)] /\ Kind(store, p) # "directory"
              /\ Returns(c, "ok")
              /\ Becomes(c, Put(p, New("file", 2)))
           \/ Returns(c, "failure") /\ Stays(c)

\* Once a write has failed, Abort leaves the file to a Close, which the SCP sink
\* does not call.
LeavesBehind(c) ==
    /\ Makes(c, "publish")
    /\ Returns(c, "failure")
    /\ temps' = [e \in Directories |-> IF c \in temps[e] THEN (temps[e] \ {c}) \cup {None}
                                       ELSE temps[e]]
    /\ botched' = TRUE
    /\ Stays(c) /\ UNCHANGED <<moved, crashes>>

MakesDirectory(c) ==
    LET p == call[c].path
    IN  /\ Makes(c, "mkdir")
        /\ \/ /\ Kind(store, p) = "none" /\ Kind(store, Parent(p)) = "directory"
              /\ Returns(c, "ok")
              /\ StoreOnly(c, Put(p, New("directory", 0)))
           \/ /\ Kind(store, p) # "none"
              /\ Returns(c, "exist") /\ Same(c)

Unlinks(c) ==
    LET p == call[c].path
    IN  /\ Makes(c, "unlink")
        /\ IF Kind(store, p) = "none" THEN Returns(c, "notExist") /\ Same(c)
           ELSE IF Kind(store, p) = "directory" /\ HasMembers(p)
              THEN Returns(c, "failure") /\ Same(c)
           ELSE Returns(c, "ok") /\ StoreOnly(c, Put(p, None))

StatsTarget(c) ==
    /\ Makes(c, "statTarget")
    /\ IF store[call[c].to] # None THEN Returns(c, "exist") ELSE Goes(c, "rename")
    /\ Same(c)

\* os.Root.Rename replaces what is at the destination now, if it can.
Moved(p, to) ==
    [q \in Paths |-> IF Beneath(to, q)
                        THEN LET from == p \o SubSeq(q, Len(to) + 1, Len(q))
                             IN  IF from \in Paths THEN store[from] ELSE None
                     ELSE IF Beneath(p, q) THEN None ELSE store[q]]
InTheWay(p, to) ==
    \/ Kind(store, to) # "none" /\ Kind(store, to) # Kind(store, p)
    \/ Kind(store, to) = "directory" /\ HasMembers(to)
Renames(c) ==
    LET p == call[c].path
        to == call[c].to
    IN  /\ Makes(c, "rename")
        /\ IF Kind(store, p) = "none" THEN Returns(c, "notExist") /\ Same(c)
           ELSE IF InTheWay(p, to) THEN Returns(c, "failure") /\ Same(c)
           ELSE /\ Returns(c, "ok")
                /\ Becomes(c, Moved(p, to))
                /\ temps' = IF p \in Top
                               THEN [temps EXCEPT ![to] = temps[p], ![p] = {}] ELSE temps
                /\ moved' = (moved \/ (p \in Top /\ temps[p] # {}))
                /\ UNCHANGED <<botched, crashes>>

\* The process is killed and starts again: calls and nodes are gone, hidden
\* files are not.
Crashes ==
    /\ crashes < MaxCrashes /\ \E c \in Clients : call[c] # None
    /\ crashes' = crashes + 1
    /\ call' = [c \in Clients |-> None]
    /\ before' = [c \in Clients |-> None]
    /\ temps' = [d \in Directories |-> IF temps[d] = {} THEN {} ELSE {None}]
    /\ UNCHANGED <<store, setup, answer, calls, outside, moved, botched>>

\* Outsiders write and remove files, and know nothing of the proxy's.
SomeoneLocal ==
    /\ \E p \in Paths, object \in {o \in Objects : o.kind = "file"} \cup {None} :
          /\ Kind(store, Parent(p)) = "directory" /\ Kind(store, p) # "directory"
          /\ store[p] # object
          /\ FromOutside(Put(p, object))
    /\ UNCHANGED localVars

LocalStep ==
    \/ \E c \in Clients :
          \/ StartsCreate(c) \/ StartsMkdir(c) \/ StartsRemove(c) \/ StartsRename(c)
          \/ StatsNew(c) \/ Creates(c) \/ Publishes(c) \/ LeavesBehind(c) \/ MakesDirectory(c)
          \/ PermitsChange(c) \/ Unlinks(c) \/ StatsTarget(c) \/ Renames(c)
    \/ Crashes \/ SomeoneLocal
=============================================================================
