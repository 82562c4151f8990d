------------------------------ MODULE Backends ------------------------------
(***************************************************************************)
(* The two backends that belong to the process rather than to a            *)
(* connection, as filesystem() in src/server/internal/server/server.go     *)
(* registers them: one place is served by one of them, and the connections *)
(* of several users call it at once.  What a call promises is the same for *)
(* both.                                                                   *)
(***************************************************************************)
EXTENDS S3, LocalFS

vars == <<store, callVars, s3Vars, localVars>>

InS3 == setup.scheme = "s3"

TypeOK ==
    /\ CallsOK
    /\ InS3 => /\ store \in [Keys -> {None} \cup 0..3]
               /\ \A c \in Clients : \A e \in children[c] : e.name \in Names \cup Members
    /\ ~InS3 => \A d \in Directories : temps[d] \subseteq Clients \cup {None}

NoLocal == temps = None /\ moved = FALSE /\ botched = FALSE /\ crashes = 0
NoS3 == token = None /\ children = None /\ always = None /\ ever = None

Init ==
    /\ CallsInit
    /\ \/ InS3 /\ S3Init /\ NoLocal
       \/ ~InS3 /\ LocalInit /\ NoS3

Next ==
    \/ InS3 /\ S3Step /\ UNCHANGED localVars
    \/ ~InS3 /\ LocalStep /\ UNCHANGED s3Vars

Spec == Init /\ [][Next]_vars

-----------------------------------------------------------------------------
(* What a store has at a path: a file, as its content, and a directory or  *)
(* not.  A bucket may have both, and clients are then shown the directory. *)
FileAt(s, p) ==
    IF InS3 THEN s[p]
    ELSE IF Kind(s, p) = "file" THEN s[p].content ELSE None
DirAt(s, p) == IF InS3 THEN p \in Top /\ Under(s, p[1]) # {} ELSE Kind(s, p) = "directory"

\* What a call that succeeded has done, and what any call leaves alone.
Concerns(k, q) ==
    IF k.op = "rename" /\ ~InS3 THEN Beneath(k.path, q) \/ Beneath(k.to, q)
    ELSE q \in {k.path, k.to}
\* A bucket's directories do not keep a rename from their names.
Free(s, q) == FileAt(s, q) = None /\ (InS3 \/ ~DirAt(s, q))
SameAt(s, p, t, q) == FileAt(t, q) = FileAt(s, p) /\ (InS3 \/ DirAt(t, q) = DirAt(s, p))
Done(k, s, t) ==
    CASE k.op = "put"    -> FileAt(t, k.path) = 2
      [] k.op = "mkdir"  -> DirAt(t, k.path)
      [] k.op = "remove" -> FileAt(t, k.path) = None /\ (InS3 \/ ~DirAt(t, k.path))
      [] k.op = "rmdir"  -> ~DirAt(t, k.path)
      [] k.op = "rename" -> /\ FileAt(t, k.path) = None /\ Free(s, k.to)
                            /\ SameAt(s, k.path, t, k.to)
                            /\ ~InS3 /\ k.path \in Top =>
                                  \A m \in Members : SameAt(s, k.path \o <<m>>, t, k.to \o <<m>>)
      [] k.op = "list"   -> s = t
LeavesAlone(k, s, t) ==
    /\ \A q \in Paths : ~Concerns(k, q) => FileAt(t, q) = FileAt(s, q)
    /\ k.op = "rename" /\ FileAt(s, k.path) # None
          => FileAt(s, k.path) \in {FileAt(t, k.path), FileAt(t, k.to)}
    /\ k.op = "rename" /\ FileAt(s, k.to) # None => FileAt(t, k.to) = FileAt(s, k.to)

(* A call that nothing else got in the way of did what it says: a file     *)
(* that was stored is there, a directory that was removed is gone and took *)
(* no member with it, and a rename moved the file and replaced none (nor,  *)
(* on a disk, a directory);                                                *)
(* and a call that fails, at whatever request and with whatever effect the *)
(* request had, has at least left the file it renames at one of the two    *)
(* names, and every other file where it was.                               *)
(* (s3fs.go and localfs.go: Create, Mkdir, Remove, Rename)                 *)
DoesWhatItSays ==
    [][\A c \in Clients : EndsAlone(c) /\ crashes' = crashes =>
          /\ LeavesAlone(call[c], before[c], store')
          /\ answer' = "ok" => Done(call[c], before[c], store')]_vars

(* A rename onto an occupied name is an error rather than a replacement,   *)
(* whether a file has the name or a directory does.                        *)
(* (s3fs.go and localfs.go: Rename)                                        *)
RenamesOntoFreeNames ==
    [][\A c \in Clients : EndsAlone(c) /\ answer' = "ok" /\ call[c].op = "rename" =>
          FileAt(before[c], call[c].to) = None /\ ~DirAt(before[c], call[c].to)]_vars

(* A hidden file on a local disk is an upload's that is still open, but    *)
(* for three ways to lose it: the process is killed while it is written;   *)
(* its directory is renamed, and the upload looks for it where it was; or  *)
(* a write to it fails in the SCP sink, which aborts and does not close.   *)
(* (localfs/file.go: newUpload, Close, Abort, discard)                     *)
HiddenFilesAreUploads ==
    ~InS3 => \A d \in Directories :
        /\ None \in temps[d] => crashes > 0 \/ moved \/ botched
        /\ \A c \in temps[d] \ {None} : Makes(c, "publish")

(* What the deployment withholds stays withheld.  Through the proxy no     *)
(* object goes from a bucket where that is not permitted, and none gets    *)
(* there but by a request that is: a new one, or a copy; and on a local    *)
(* disk nothing changes in a directory that may not be written, whatever   *)
(* the modes of what is in it.                                             *)
(* (s3fs.go: permits; localfs.go: mask, child,                             *)
(* Child, permitChange)                                                    *)
ByProxy == store' # store /\ outside' = outside
Granted(k) ==
    IF store'[k] = None THEN Permits("DeleteObject")
    ELSE \/ Permits("PutObject")
         \/ Permits("CopyObject") /\ \E q \in Keys : store[q] = store'[k]
ReadOnlyIsKept ==
    [][ByProxy => IF InS3 THEN \A k \in Keys : store'[k] # store[k] => Granted(k)
                  ELSE /\ Writable(setup.granted)
                       /\ \A p \in Paths : store[p] # store'[p] /\ Parent(p) # Root =>
                             store[Parent(p)] = None \/ Writable(store[Parent(p)].mode)]_vars
=============================================================================
