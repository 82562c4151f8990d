--------------------------- MODULE BackendsProofs ---------------------------
(***************************************************************************)
(* Proofs about the backends that belong to the process (Backends): that   *)
(* no hidden file is forgotten, that a listing of a bucket is honest, that *)
(* what is withheld is not changed, that a call left alone does what it    *)
(* says, and that every variable has its type.                             *)
(*                                                                         *)
(* HiddenInv and DiskInv hold on a disk, BucketHolds in a bucket; each     *)
(* theorem rests on one or both.                                           *)
(***************************************************************************)
EXTENDS Backends, FiniteSetTheorems, SequenceTheorems, NaturalsInduction,
        WellFoundedInduction, TLAPS

-----------------------------------------------------------------------------
(* Hidden files on a local disk.                                           *)
\* A hidden file with an upload is in the directory of what it uploads, until
\* that directory is renamed.
Held(d, c) == Makes(c, "publish") /\ (d = Parent(call[c].path) \/ moved)
HiddenInv ==
    /\ setup \in Setups
    /\ ~InS3 =>
          /\ call \in [Clients -> LocalCalls \cup {None}]
          /\ temps \in [Directories -> SUBSET (Clients \cup {None})]
          /\ crashes \in Nat
          /\ \A d \in Directories :
                /\ None \in temps[d] => crashes > 0 \/ moved \/ botched
                /\ \A c \in temps[d] \ {None} : Held(d, c)

LEMMA SetupStays == [Next]_vars => setup' = setup
<1> SUFFICES ASSUME [Next]_vars PROVE setup' = setup
    OBVIOUS
<1> USE DEF Begin, Goes, Returns, FromOutside
<1>1. CASE S3Step
    BY <1>1 DEF S3Step, Stores, MakesMarker, RemovesFile, RemovesDirectory, RenamesFile, Starting,
                Heads, HeadsTarget, Copies, ListsTwo, Finishes, RequestFails, Lists, Pages, TooMany,
                PageFails, Listed, SomeoneElse
<1>2. CASE LocalStep
    BY <1>2 DEF LocalStep, StartsCreate, StartsMkdir, StartsRemove, StartsRename, Given, StatsNew,
                Creates, Publishes, LeavesBehind, MakesDirectory, PermitsChange, Unlinks,
                StatsTarget, Renames, Crashes, SomeoneLocal
<1> QED BY <1>1, <1>2 DEF Next, vars, callVars

\* Every mask is part of the deployment's.
LEMMA MasksAreMasks ==
    ASSUME HiddenInv, ~InS3, NEW p PROVE Mask(p) \in SUBSET AllBits
BY LocalAssumption DEF HiddenInv, InS3, Mask, MaskOf, ChildMask

LEMMA NextRequest ==
    ASSUME NEW c \in Clients, NEW r \in LocalRequests, HiddenInv, ~InS3, call[c] # None, Goes(c, r)
    PROVE  /\ call' \in [Clients -> LocalCalls \cup {None}]
           /\ call'[c] # None /\ call'[c].request = r /\ call'[c].path = call[c].path
           /\ \A e \in Clients \ {c} : call'[e] = call[e]
<1>1. call \in [Clients -> LocalCalls \cup {None}] /\ call[c] \in LocalCalls
    BY DEF HiddenInv
<1>2. call' = [call EXCEPT ![c] = [call[c] EXCEPT !.request = r]]
    BY DEF Goes
<1> DEFINE k == [call[c] EXCEPT !.request = r]
<1>3. k \in LocalCalls /\ k.request = r /\ k.path = call[c].path
    BY <1>1 DEF LocalCalls
<1>4. k # None
    BY <1>3, LocalAssumption DEF LocalCalls
<1> HIDE DEF k
<1> QED
    BY <1>1, <1>2, <1>3, <1>4 DEF k

LEMMA HiddenStep == HiddenInv /\ [Next]_vars => HiddenInv'
<1> SUFFICES ASSUME HiddenInv, [Next]_vars PROVE HiddenInv'
    OBVIOUS
<1>0. setup' = setup
    BY SetupStays
<1>1. CASE InS3
    BY <1>0, <1>1 DEF HiddenInv, InS3
<1> SUFFICES ASSUME ~InS3 PROVE HiddenInv'
    BY <1>1
<1>2. None \notin LocalCalls
    BY LocalAssumption DEF LocalCalls
<1>3. None \notin Clients
    BY LocalAssumption
<1> USE <1>0, <1>2, <1>3 DEF HiddenInv, InS3, Held, Makes
<1>4. ASSUME NEW c \in Clients, NEW op \in Operations, NEW p \in Paths, NEW to \in Paths,
             NEW r \in LocalRequests, Given(c, op, p, to, r)
      PROVE HiddenInv'
  <2> DEFINE k == [op |-> op, path |-> p, to |-> to, mask |-> Mask(p), request |-> r]
  <2>1. k \in LocalCalls
    BY MasksAreMasks DEF LocalCalls
  <2>2. call[c] = None /\ call' = [call EXCEPT ![c] = k] /\ UNCHANGED localVars
    BY <1>4 DEF Given, Begin, localVars, histories
  <2> HIDE DEF k
  <2> QED
    BY <2>1, <2>2 DEF localVars, histories
<1>5. ASSUME NEW c \in Clients,
             StartsCreate(c) \/ StartsMkdir(c) \/ StartsRemove(c) \/ StartsRename(c)
      PROVE HiddenInv'
  <2>1. /\ {"put", "mkdir", "remove", "rename"} \subseteq Operations
        /\ {"statNew", "mkdir", "stat"} \subseteq LocalRequests
    BY DEF Operations, LocalRequests
  <2>2. CASE StartsCreate(c)
    BY <1>4, <2>1, <2>2 DEF StartsCreate, Changeable
  <2>3. CASE StartsMkdir(c)
    BY <1>4, <2>1, <2>3 DEF StartsMkdir, Changeable
  <2>4. CASE StartsRemove(c)
    BY <1>4, <2>1, <2>4 DEF StartsRemove, Changeable
  <2>5. CASE StartsRename(c)
    <3>1. PICK p \in Paths, to \in Paths : Given(c, "rename", p, to, "stat")
      BY <2>5 DEF StartsRename, Changeable
    <3> QED
      BY <1>4, <2>1, <3>1
  <2> QED
    BY <1>5, <2>2, <2>3, <2>4, <2>5
\* A request that has nothing to do with hidden files, and the end of a call
\* that has none.
<1>6. ASSUME NEW c \in Clients, call[c] # None, call[c].request # "publish", UNCHANGED localVars,
             NEW r \in LocalRequests, Goes(c, r)
      PROVE HiddenInv'
    BY <1>6, NextRequest DEF localVars, histories
<1>7. ASSUME NEW c \in Clients, call[c] # None, call[c].request # "publish", UNCHANGED localVars,
              NEW how, Returns(c, how)
       PROVE HiddenInv'
    BY <1>7 DEF Returns, localVars, histories
<1>8. ASSUME NEW c \in Clients, Creates(c) PROVE HiddenInv'
  <2> DEFINE d == Parent(call[c].path)
  <2>1. call[c] # None /\ call[c].request = "create" /\ UNCHANGED <<moved, botched, crashes>>
    BY <1>8 DEF Creates, histories
  <2>2. \/ /\ Goes(c, "publish")
           /\ temps' = [temps EXCEPT ![d] = @ \cup {c}]
        \/ call' = [call EXCEPT ![c] = None] /\ UNCHANGED temps
    BY <1>8 DEF Creates, Returns
  <2> HIDE DEF d
  <2>3. CASE call' = [call EXCEPT ![c] = None] /\ UNCHANGED temps
    BY <2>1, <2>3
  <2>4. CASE /\ Goes(c, "publish")
             /\ temps' = [temps EXCEPT ![d] = @ \cup {c}]
    <3>1. /\ call' \in [Clients -> LocalCalls \cup {None}]
          /\ call'[c] # None /\ call'[c].request = "publish" /\ call'[c].path = call[c].path
          /\ \A e \in Clients \ {c} : call'[e] = call[e]
      BY <2>1, <2>4, NextRequest DEF LocalRequests
    <3>2. /\ temps' \in [Directories -> SUBSET (Clients \cup {None})]
          /\ \A e \in Directories : temps'[e] = IF e = d THEN temps[e] \cup {c} ELSE temps[e]
      BY <2>4
    <3>3. d = Parent(call'[c].path)
      BY <3>1 DEF d
    <3> QED
      BY <2>1, <3>1, <3>2, <3>3
  <2> QED
    BY <2>2, <2>3, <2>4
<1>9. ASSUME NEW c \in Clients, Publishes(c) \/ LeavesBehind(c) PROVE HiddenInv'
  <2>1. CASE Publishes(c)
    BY <2>1 DEF Publishes, Gone, Returns, histories
  <2>2. CASE LeavesBehind(c)
    BY <2>2 DEF LeavesBehind, Returns
  <2> QED
    BY <1>9, <2>1, <2>2
<1>10. ASSUME NEW c \in Clients, Renames(c) PROVE HiddenInv'
  <2> DEFINE p == call[c].path
             to == call[c].to
  <2>0. (moved => moved') /\ botched' = botched
    BY <1>10 DEF Renames, Same, localVars, histories
  <2>1. /\ call[c] # None /\ call[c].request = "rename"
        /\ call' = [call EXCEPT ![c] = None]
        /\ UNCHANGED crashes
    BY <1>10 DEF Renames, Returns, Same, localVars, histories
  <2>2. \/ UNCHANGED temps
        \/ /\ p \in Top /\ temps[p] # {} => moved'
           /\ temps' = IF p \in Top THEN [temps EXCEPT ![to] = temps[p], ![p] = {}] ELSE temps
    BY <1>10 DEF Renames, Same, localVars, histories
  <2> HIDE DEF p, to
  <2>3. CASE UNCHANGED temps
    BY <2>0, <2>1, <2>3
  <2>4. CASE p \in Top /\ temps' = [temps EXCEPT ![to] = temps[p], ![p] = {}] /\ moved'
    <3>1. \A d \in Directories : temps'[d] \in {temps[d], temps[p], {}}
      BY <2>4
    <3>2. p \in Directories
      BY <2>4 DEF Directories
    <3> QED
      BY <2>1, <2>4, <3>1, <3>2
  <2>5. CASE p \in Top /\ temps' = [temps EXCEPT ![to] = temps[p], ![p] = {}] /\ temps[p] = {}
    <3>1. \A d \in Directories : temps'[d] \in {temps[d], {}}
      BY <2>5
    <3>2. temps' \in [Directories -> SUBSET (Clients \cup {None})]
      BY <2>5
    <3> QED
      BY <2>0, <2>1, <3>1, <3>2
  <2> QED
    BY <2>2, <2>3, <2>4, <2>5
<1>11. CASE Crashes
    BY <1>11 DEF Crashes
<1>12. CASE SomeoneLocal
    BY <1>12 DEF SomeoneLocal, FromOutside, localVars, histories
<1>13. ASSUME NEW c \in Clients,
              \/ StatsNew(c) \/ MakesDirectory(c) \/ PermitsChange(c)
              \/ Unlinks(c) \/ StatsTarget(c)
       PROVE HiddenInv'
  <2>1. CASE StatsNew(c)
    <3>1. call[c] # None /\ call[c].request # "publish" /\ UNCHANGED localVars
      BY <2>1 DEF StatsNew, Same
    <3>2. Goes(c, "create") \/ (\E how : Returns(c, how))
      BY <2>1 DEF StatsNew
    <3> QED
      BY <3>1, <3>2, <1>6, <1>7 DEF LocalRequests
  <2>2. CASE MakesDirectory(c)
    <3>1. call[c] # None /\ call[c].request # "publish" /\ UNCHANGED localVars
      BY <2>2 DEF MakesDirectory, Same, StoreOnly
    <3>2. (\E how : Returns(c, how))
      BY <2>2 DEF MakesDirectory
    <3> QED
      BY <3>1, <3>2, <1>6, <1>7 DEF LocalRequests
  <2>3. CASE PermitsChange(c)
    <3>1. call[c] # None /\ call[c].request # "publish" /\ UNCHANGED localVars
      BY <2>3 DEF PermitsChange, Same
    <3>2. Goes(c, "unlink") \/ Goes(c, "statTarget") \/ (\E how : Returns(c, how))
      BY <2>3 DEF PermitsChange
    <3> QED
      BY <3>1, <3>2, <1>6, <1>7 DEF LocalRequests
  <2>4. CASE Unlinks(c)
    <3>1. call[c] # None /\ call[c].request # "publish" /\ UNCHANGED localVars
      BY <2>4 DEF Unlinks, Same, StoreOnly
    <3>2. (\E how : Returns(c, how))
      BY <2>4 DEF Unlinks
    <3> QED
      BY <3>1, <3>2, <1>6, <1>7 DEF LocalRequests
  <2>5. CASE StatsTarget(c)
    <3>1. call[c] # None /\ call[c].request # "publish" /\ UNCHANGED localVars
      BY <2>5 DEF StatsTarget, Same
    <3>2. Goes(c, "rename") \/ (\E how : Returns(c, how))
      BY <2>5 DEF StatsTarget
    <3> QED
      BY <3>1, <3>2, <1>6, <1>7 DEF LocalRequests
  <2> QED
    BY <1>13, <2>1, <2>2, <2>3, <2>4, <2>5
<1>14. CASE UNCHANGED vars
    BY <1>14 DEF vars, callVars, localVars, histories
<1> QED
    BY <1>5, <1>8, <1>9, <1>10, <1>11, <1>12, <1>13, <1>14 DEF Next, LocalStep

(* Every hidden file on a local disk is that of an upload still open, as   *)
(* long as the process is not killed, no directory is renamed while        *)
(* something in it is being written, and no upload of which a write has    *)
(* failed is aborted without a Close, as the SCP sink does.                *)
(* (localfs/file.go: newUpload, Close, Abort, discard)                     *)
THEOREM NoHiddenFileIsForgotten == Spec => []HiddenFilesAreUploads
<1>1. Init => HiddenInv
    BY DEF Init, CallsInit, LocalInit, HiddenInv
<1>2. HiddenInv => HiddenFilesAreUploads
    BY DEF HiddenInv, HiddenFilesAreUploads, Held
<1> QED BY <1>1, <1>2, HiddenStep, PTL DEF Spec

-----------------------------------------------------------------------------
(* Calls in a bucket.                                                      *)
Contents == {None} \cup 0..3

\* The requests that change something, and that an operation is begun for.
Allowed(op) ==
    /\ op \in {"put", "mkdir"} => Permits("PutObject")
    /\ op \in {"remove", "rmdir", "rename"} => Permits("DeleteObject")
    /\ op = "rename" => Permits("CopyObject")

\* What a call is for, by the request it makes next.
Fits(k) ==
    /\ k \in S3Calls
    /\ k.op = "list" <=> k.request \in {"page", "listed"}
    /\ k.op = "list" => k.path \in Top \cup {Root}
    /\ k.op # "list" => k.path \in Paths /\ k.to \in Paths /\ Allowed(k.op)
    /\ k.request = "putObject" => k.op = "put"
    /\ k.request = "putMarker" => k.op = "mkdir" /\ k.path \in Top
    /\ k.request \in {"listTwo", "deleteMarker"} => k.op = "rmdir" /\ k.path \in Top
    /\ k.request \in {"head", "delete"} => k.op \in {"remove", "rename"}
    /\ k.request \in {"headTarget", "copy"} => k.op = "rename"
    /\ k.op = "rename" => k.path # k.to

CallsFit ==
    /\ setup \in Setups
    /\ call \in [Clients -> S3Calls \cup {None}]
    /\ \A c \in Clients : call[c] # None => Fits(call[c])

LEMMA NoCallIsNone == None \notin S3Calls /\ None \notin 0..3
BY S3Assumption

\* A call that starts, one that goes on, and one that ends.
LEMMA CallStarts ==
    ASSUME CallsFit, UNCHANGED setup, NEW c \in Clients, NEW k, Fits(k),
           call' = [call EXCEPT ![c] = k]
    PROVE  CallsFit'
<1>1. Fits(k)'
  BY DEF Fits, Allowed, Permits, Methods
<1>2. \A d \in Clients : call[d] # None => Fits(call[d])'
  BY DEF CallsFit, Fits, Allowed, Permits, Methods
<1>3. /\ call' \in [Clients -> S3Calls \cup {None}]
      /\ \A d \in Clients : call'[d] = IF d = c THEN k ELSE call[d]
  BY DEF CallsFit, Fits
<1>4. ASSUME NEW d \in Clients, call'[d] # None PROVE Fits(call[d])'
  <2>1. CASE d = c
    <3>1. call'[d] = k
      BY <1>3, <2>1
    <3> QED
      BY <1>1, <3>1 DEF Fits, Allowed, Permits, Methods
  <2>2. CASE d # c
    <3>1. call'[d] = call[d]
      BY <1>3, <2>2
    <3> QED
      BY <1>2, <1>4, <3>1 DEF Fits, Allowed, Permits, Methods
  <2> QED
    BY <2>1, <2>2
<1> QED
  BY <1>3, <1>4 DEF CallsFit

LEMMA CallEnds ==
    ASSUME CallsFit, UNCHANGED setup, NEW c \in Clients, call' = [call EXCEPT ![c] = None]
    PROVE  CallsFit'
<1>1. /\ call' \in [Clients -> S3Calls \cup {None}]
      /\ \A d \in Clients : call'[d] \in {None, call[d]}
  BY DEF CallsFit
<1>2. \A d \in Clients : call'[d] # None => Fits(call[d])'
  BY <1>1 DEF CallsFit, Fits, Allowed, Permits, Methods
<1> QED
  BY <1>1, <1>2 DEF CallsFit

LEMMA CallsStay ==
    ASSUME CallsFit, UNCHANGED <<setup, call>> PROVE CallsFit'
BY DEF CallsFit, Fits, Allowed, Permits, Methods

\* The next request of a call.
LEMMA Onwards ==
    ASSUME CallsFit, NEW c \in Clients, call[c] # None, NEW r \in S3Requests
    PROVE  LET k == [call[c] EXCEPT !.request = r]
           IN  /\ k \in S3Calls
               /\ k.op = call[c].op /\ k.path = call[c].path /\ k.to = call[c].to
               /\ k.request = r
BY DEF CallsFit, S3Calls

LEMMA CallGoesOn ==
    ASSUME CallsFit, UNCHANGED setup, NEW c \in Clients, call[c] # None, NEW r \in S3Requests,
           Goes(c, r),
           (r \in {"headTarget", "copy"} => call[c].op = "rename"),
           (r = "delete" => call[c].op \in {"remove", "rename"}),
           (r = "deleteMarker" => call[c].op = "rmdir" /\ call[c].path \in Top),
           (r \in {"page", "listed"} => call[c].op = "list"),
           r \in {"headTarget", "copy", "delete", "deleteMarker", "page", "listed"}
    PROVE  CallsFit'
<1> DEFINE k == [call[c] EXCEPT !.request = r]
<1>1. /\ k \in S3Calls
      /\ k.op = call[c].op /\ k.path = call[c].path /\ k.to = call[c].to /\ k.request = r
  BY Onwards
<1>2. call' = [call EXCEPT ![c] = k]
  BY DEF Goes
<1>3. Fits(call[c])
  BY DEF CallsFit
<1> HIDE DEF k
<1>4. Fits(k)
  BY <1>1, <1>3 DEF Fits
<1> QED
  BY <1>2, <1>4, CallStarts

LEMMA CallsFitStep == ASSUME CallsFit, InS3, Next PROVE CallsFit'
<1>0. setup' = setup
  BY SetupStays
<1>1. ASSUME NEW c \in Clients, NEW op \in Operations, NEW p \in Paths, NEW to \in Paths,
             NEW needed, NEW r \in S3Requests, Starting(c, op, p, to, needed, r),
             op \in {"put", "mkdir"} => "PutObject" \in needed,
             op \in {"remove", "rmdir", "rename"} => "DeleteObject" \in needed,
             op = "rename" => "CopyObject" \in needed,
             op # "list", r \notin {"page", "listed"},
             (r = "putObject" => op = "put"),
             (r = "putMarker" => op = "mkdir" /\ p \in Top),
             (r \in {"listTwo", "deleteMarker"} => op = "rmdir" /\ p \in Top),
             (r \in {"head", "delete"} => op \in {"remove", "rename"}),
             r \notin {"headTarget", "copy"},
             (op = "rename" => p # to)
      PROVE  CallsFit'
  <2> DEFINE k == [op |-> op, path |-> p, to |-> to, mask |-> Methods, request |-> r]
  <2>1. call' = [call EXCEPT ![c] = k] /\ \A m \in needed : Permits(m)
    BY <1>1 DEF Starting, Begin
  <2>2. Allowed(op)
    BY <1>1, <2>1 DEF Allowed
  <2>3. k \in S3Calls
    BY DEF S3Calls, CallsFit, Methods
  <2>4. Fits(k)
    BY <1>1, <2>2, <2>3 DEF Fits
  <2> HIDE DEF k
  <2> QED
    BY <1>0, <2>1, <2>4, CallStarts
<1>2. ASSUME NEW c \in Clients,
             Stores(c) \/ MakesMarker(c) \/ RemovesFile(c) \/ RemovesDirectory(c) \/ RenamesFile(c)
      PROVE  CallsFit'
  <2>0. /\ {"put", "mkdir", "remove", "rmdir", "rename"} \subseteq Operations \ {"list"}
        /\ {"putObject", "putMarker", "head", "listTwo"} \subseteq S3Requests
        /\ Top \subseteq Paths
    BY DEF Operations, S3Requests, Paths
  <2>1. CASE Stores(c)
    <3>1. PICK p \in Paths : Starting(c, "put", p, p, {"PutObject"}, "putObject")
      BY <2>1 DEF Stores
    <3> QED
      BY <1>1, <2>0, <3>1
  <2>2. CASE MakesMarker(c)
    <3>1. PICK p \in Top : Starting(c, "mkdir", p, p, {"PutObject"}, "putMarker")
      BY <2>2 DEF MakesMarker
    <3> QED
      BY <1>1, <2>0, <3>1
  <2>3. CASE RemovesFile(c)
    <3>1. PICK p \in Paths : Starting(c, "remove", p, p, {"DeleteObject"}, "head")
      BY <2>3 DEF RemovesFile
    <3> QED
      BY <1>1, <2>0, <3>1
  <2>4. CASE RemovesDirectory(c)
    <3>1. PICK p \in Top :
              Starting(c, "rmdir", p, p, {"ListObjectsV2", "DeleteObject"}, "listTwo")
      BY <2>4 DEF RemovesDirectory
    <3> QED
      BY <1>1, <2>0, <3>1
  <2>5. CASE RenamesFile(c)
    <3>1. PICK p \in Paths, to \in Paths :
              p # to /\ Starting(c, "rename", p, to, {"CopyObject", "DeleteObject"}, "head")
      BY <2>5 DEF RenamesFile
    <3> QED
      BY <1>1, <2>0, <3>1
  <2> QED
    BY <1>2, <2>1, <2>2, <2>3, <2>4, <2>5
<1>3. ASSUME NEW c \in Clients, Heads(c) \/ HeadsTarget(c) \/ Copies(c) \/ ListsTwo(c) \/ Pages(c)
      PROVE  CallsFit'
  <2>1. {"headTarget", "copy", "delete", "deleteMarker", "page", "listed"} \subseteq S3Requests
    BY DEF S3Requests
  <2>2. call[c] # None
    BY <1>3 DEF Heads, HeadsTarget, Copies, ListsTwo, Pages, Makes
  <2>3. Fits(call[c])
    BY <2>2 DEF CallsFit
  <2>4. CASE call' = [call EXCEPT ![c] = None]
    BY <1>0, <2>4, CallEnds
  <2>5. CASE Heads(c)
    <3>1. CASE call[c].op = "rename" /\ Goes(c, "headTarget")
      BY <1>0, <2>1, <2>2, <3>1, CallGoesOn
    <3>2. CASE call[c].op # "rename" /\ Goes(c, "delete")
      <4>1. call[c].op \in {"remove", "rename"}
        BY <2>3, <2>5 DEF Fits, Heads, Makes
      <4> QED
        BY <1>0, <2>1, <2>2, <3>2, <4>1, CallGoesOn
    <3> QED
      BY <2>4, <2>5, <3>1, <3>2 DEF Heads, Returns
  <2>6. CASE HeadsTarget(c)
    <3>1. call[c].op = "rename"
      BY <2>3, <2>6 DEF Fits, HeadsTarget, Makes
    <3>2. CASE Goes(c, "copy")
      BY <1>0, <2>1, <2>2, <3>1, <3>2, CallGoesOn
    <3> QED
      BY <2>4, <2>6, <3>2 DEF HeadsTarget, Returns
  <2>7. CASE Copies(c)
    <3>1. call[c].op = "rename"
      BY <2>3, <2>7 DEF Fits, Copies, Makes
    <3>2. CASE Goes(c, "delete")
      BY <1>0, <2>1, <2>2, <3>1, <3>2, CallGoesOn
    <3> QED
      BY <2>4, <2>7, <3>2 DEF Copies, Returns
  <2>8. CASE ListsTwo(c)
    <3>1. call[c].op = "rmdir" /\ call[c].path \in Top
      BY <2>3, <2>8 DEF Fits, ListsTwo, Makes
    <3>2. CASE Goes(c, "deleteMarker")
      BY <1>0, <2>1, <2>2, <3>1, <3>2, CallGoesOn
    <3> QED
      BY <2>4, <2>8, <3>2 DEF ListsTwo, Returns
  <2>9. CASE Pages(c)
    <3>1. call[c].op = "list"
      BY <2>3, <2>9 DEF Fits, Pages, Makes
    <3>2. CASE Goes(c, "listed") \/ Goes(c, "page")
      BY <1>0, <2>1, <2>2, <3>1, <3>2, CallGoesOn
    <3> QED
      BY <2>4, <2>9, <3>2 DEF Pages, TooMany, Returns
  <2> QED
    BY <1>3, <2>5, <2>6, <2>7, <2>8, <2>9
<1>4. ASSUME NEW c \in Clients, Finishes(c) \/ RequestFails(c) \/ PageFails(c) \/ Listed(c)
      PROVE  CallsFit'
  BY <1>0, <1>4, CallEnds DEF Finishes, RequestFails, PageFails, Listed, Returns
<1>5. ASSUME NEW c \in Clients, Lists(c) PROVE CallsFit'
  <2>1. PICK d \in Top \cup {Root}, r \in {"page", "listed"} : Begin(c, "list", d, d, Methods, r)
    BY <1>5 DEF Lists
  <2> DEFINE k == [op |-> "list", path |-> d, to |-> d, mask |-> Methods, request |-> r]
  <2>2. call' = [call EXCEPT ![c] = k]
    BY <2>1 DEF Begin
  <2>3. k \in S3Calls
    BY DEF S3Calls, CallsFit, Methods, Operations, S3Requests, Paths
  <2>4. Fits(k)
    BY <2>3 DEF Fits
  <2> HIDE DEF k
  <2> QED
    BY <1>0, <2>2, <2>4, CallStarts
<1>6. CASE SomeoneElse
  BY <1>0, <1>6, CallsStay DEF SomeoneElse, FromOutside
<1> QED
  BY <1>2, <1>3, <1>4, <1>5, <1>6 DEF Next, S3Step

(* The store of a bucket.                                                  *)
LEMMA KeysOfPaths ==
    /\ Paths \subseteq Keys /\ Top \subseteq Paths
    /\ \A p \in Top : p = <<p[1]>> /\ p[1] \in Names /\ Marker(p[1]) \in Keys
BY DEF Keys, Paths, Top

LEMMA ChangeIsTyped ==
    ASSUME store \in [Keys -> Contents], NEW k, Fits(k)
    PROVE  Change(k) \in [Keys -> Contents]
<1>1. 2 \in Contents /\ DirectoryMark \in Contents /\ None \in Contents
  BY DEF Contents, DirectoryMark
<1>2. k.request = "copy" => store[k.path] \in Contents
  BY KeysOfPaths DEF Fits
<1> QED
  BY <1>1, <1>2 DEF Change, With

LEMMA StoreFitsStep ==
    ASSUME CallsFit, InS3, Next, store \in [Keys -> Contents]
    PROVE  store' \in [Keys -> Contents]
<1>1. ASSUME NEW c \in Clients,
             \/ Stores(c) \/ MakesMarker(c) \/ RemovesFile(c) \/ RemovesDirectory(c)
             \/ RenamesFile(c) \/ Heads(c) \/ HeadsTarget(c) \/ ListsTwo(c)
             \/ Lists(c) \/ Pages(c) \/ PageFails(c) \/ Listed(c)
      PROVE  store' = store
  BY <1>1 DEF Stores, MakesMarker, RemovesFile, RemovesDirectory, RenamesFile, Starting, Begin,
              Heads, HeadsTarget, ListsTwo, Nothing, Stays, Becomes, Lists, Pages, PageFails, Listed
<1>2. ASSUME NEW c \in Clients, Copies(c) \/ Finishes(c) \/ RequestFails(c)
      PROVE  store' \in {store, Change(call[c])} /\ call[c] # None
  BY <1>2 DEF Copies, Finishes, RequestFails, Makes, Nothing, Stored, Stays, Becomes, Change
<1>3. CASE SomeoneElse
  BY <1>3 DEF SomeoneElse, FromOutside, With, Contents
<1> QED
  BY <1>1, <1>2, <1>3, ChangeIsTyped DEF Next, S3Step, CallsFit

-----------------------------------------------------------------------------
(* Entries of a listing, and their order.                                  *)
AllNames == Names \cup Members \cup {MarkerName}
EntrySet == [name : AllNames, dir : BOOLEAN]

LEMMA KeyShapes ==
    /\ \A k \in Keys : Len(k) = 2 => k[2] \in Members \cup {MarkerName}
    /\ \A n \in Names : Len(Marker(n)) = 2 /\ Marker(n)[1] = n /\ Marker(n)[2] = MarkerName
<1>1. \A n \in Names : Len(<<n>>) = 1 /\ Len(<<n>>) # 2
  OBVIOUS
<1>2. \A n, m : Len(<<n, m>>) = 2 /\ <<n, m>>[1] = n /\ <<n, m>>[2] = m
  <2> TAKE n, m
  <2> QED
    OBVIOUS
<1>3. \A k \in Keys : \/ \E n \in Names : k = <<n>>
                      \/ \E n \in Names, m \in Members : k = <<n, m>>
                      \/ \E n \in Names : k = <<n, MarkerName>>
  BY DEF Keys, Paths, Top, Marker
<1> QED
  BY <1>1, <1>2, <1>3 DEF Marker

LEMMA EntriesAreTyped ==
    ASSUME NEW s, NEW d \in Top \cup {Root} PROVE Entries(s, d) \in SUBSET EntrySet
<1>1. \A n : \A k \in Under(s, n) : k[2] \in Members \cup {MarkerName}
  BY KeyShapes DEF Under
<1>2. ASSUME NEW n \in AllNames, NEW b \in BOOLEAN PROVE [name |-> n, dir |-> b] \in EntrySet
  BY DEF EntrySet
<1>3. ASSUME NEW e \in Entries(s, d) PROVE e \in EntrySet
  <2>1. CASE d = Root
    <3>1. PICK n \in Names, b \in BOOLEAN : e = [name |-> n, dir |-> b]
      BY <2>1 DEF Entries
    <3> QED
      BY <1>2, <3>1 DEF AllNames
  <2>2. CASE d # Root
    <3>1. PICK k \in Under(s, d[1]) : e = [name |-> k[2], dir |-> FALSE]
      BY <2>2 DEF Entries
    <3>2. k[2] \in AllNames
      BY <1>1, <3>1 DEF AllNames
    <3> QED
      BY <1>2, <3>1, <3>2
  <2> QED
    BY <2>1, <2>2
<1> QED
  BY <1>3

LEMMA PlaceOf ==
    ASSUME NEW e \in EntrySet
    PROVE  \E i \in 1..Len(KeyOrder) :
               KeyOrder[i] = e.name /\ Place(e) = 2 * i + (IF e.dir THEN 1 ELSE 0)
<1>1. \E i \in DOMAIN KeyOrder : KeyOrder[i] = e.name
  BY S3Assumption DEF ToSet, EntrySet, AllNames
<1> DEFINE at == CHOOSE i \in DOMAIN KeyOrder : KeyOrder[i] = e.name
<1>2. at \in DOMAIN KeyOrder /\ KeyOrder[at] = e.name
  BY <1>1
<1>3. DOMAIN KeyOrder = 1..Len(KeyOrder)
  BY S3Assumption
<1>4. Place(e) = 2 * at + (IF e.dir THEN 1 ELSE 0)
  BY DEF Place
<1> QED
  BY <1>2, <1>3, <1>4

LEMMA Places ==
    /\ \A e \in EntrySet : Place(e) \in Nat /\ Place(e) > 0
    /\ \A e \in EntrySet : Place(e) \in 0..(2 * Len(KeyOrder) + 1)
    /\ \A e, f \in EntrySet : Place(e) = Place(f) => e = f
    /\ \A e, f \in EntrySet :
          e.name = f.name => e = f \/ Place(e) = Place(f) + 1 \/ Place(f) = Place(e) + 1
<1>0. Len(KeyOrder) \in Nat /\ DOMAIN KeyOrder = 1..Len(KeyOrder)
  BY S3Assumption
<1>1. ASSUME NEW e \in EntrySet
      PROVE  Place(e) \in Nat /\ Place(e) > 0 /\ Place(e) \in 0..(2 * Len(KeyOrder) + 1)
  <2>1. PICK i \in 1..Len(KeyOrder) : Place(e) = 2 * i + (IF e.dir THEN 1 ELSE 0)
    BY PlaceOf
  <2> QED
    BY <1>0, <2>1
<1>2. ASSUME NEW e \in EntrySet, NEW f \in EntrySet
      PROVE  /\ Place(e) = Place(f) => e = f
             /\ e.name = f.name => e = f \/ Place(e) = Place(f) + 1 \/ Place(f) = Place(e) + 1
  <2>1. PICK i \in 1..Len(KeyOrder) :
            KeyOrder[i] = e.name /\ Place(e) = 2 * i + (IF e.dir THEN 1 ELSE 0)
    BY PlaceOf
  <2>2. PICK j \in 1..Len(KeyOrder) :
            KeyOrder[j] = f.name /\ Place(f) = 2 * j + (IF f.dir THEN 1 ELSE 0)
    BY PlaceOf
  <2>3. i \in Nat /\ j \in Nat
    BY <1>0
  <2>4. Place(e) = Place(f) => i = j /\ (e.dir <=> f.dir)
    BY <2>1, <2>2, <2>3
  <2>5. e.name = f.name => i = j
    BY <1>0, <2>1, <2>2, S3Assumption
  <2>6. e.name = f.name /\ (e.dir <=> f.dir) => e = f
    BY DEF EntrySet
  <2> QED
    BY <2>1, <2>2, <2>3, <2>4, <2>5, <2>6
<1> QED
  BY <1>1, <1>2

LEMMA EntriesAreFinite ==
    ASSUME NEW E \in SUBSET EntrySet PROVE IsFiniteSet(E)
<1> DEFINE f == [e \in E |-> Place(e)]
           T == 0..(2 * Len(KeyOrder) + 1)
<1>1. f \in Injection(E, T)
  BY Places DEF Injection, IsInjective
<1>2. IsFiniteSet(T)
  BY S3Assumption, FS_Interval
<1> QED
  BY <1>1, <1>2, FS_Injection

(* The last of some entries.                                               *)
LEMMA LeastOfNaturals == \A T \in SUBSET Nat : T # {} => \E x \in T : \A y \in T : x <= y
<1>1. IsWellFoundedOn(OpToRel(<, Nat), Nat)
  BY NatLessThanWellFounded
<1> DEFINE R == OpToRel(<, Nat)
<1>2. \A x, y \in Nat : <<x, y>> \in R <=> x < y
  BY DEF OpToRel
<1> HIDE DEF R
<1>3. IsWellFoundedOn(R, Nat)
  BY <1>1 DEF R
<1>4. ASSUME NEW T \in SUBSET Nat, T # {} PROVE \E x \in T : \A y \in T : x <= y
  <2>1. PICK x \in T : \A y \in T : ~(<<y, x>> \in R)
    BY <1>3, <1>4, WFMin
  <2>2. \A y \in T : ~(y < x) /\ y \in Nat /\ x \in Nat
    BY <2>1, <1>2
  <2> QED
    BY <2>1, <2>2
<1> QED
  BY <1>4

LEMMA MaxOfNaturals ==
    ASSUME NEW T \in SUBSET Nat, T # {}, NEW bound \in Nat, \A x \in T : x <= bound
    PROVE  Max(T) \in T /\ \A x \in T : x <= Max(T)
<1> DEFINE B == {b \in Nat : \A x \in T : x <= b}
<1>1. PICK b \in B : \A y \in B : b <= y
  <2>1. bound \in B /\ B \in SUBSET Nat
    OBVIOUS
  <2> HIDE DEF B
  <2> QED
    BY <2>1, LeastOfNaturals
<1>2. b \in T
  <2> SUFFICES ASSUME b \notin T PROVE FALSE
    OBVIOUS
  <2>1. \A x \in T : x < b
    BY <1>1
  <2>2. b - 1 \in Nat /\ \A x \in T : x <= b - 1
    <3>1. PICK x \in T : TRUE
      OBVIOUS
    <3>2. x \in Nat /\ b \in Nat /\ x < b /\ \A y \in T : y \in Nat
      BY <1>1, <2>1
    <3> QED
      BY <2>1, <3>2
  <2>3. b - 1 \in B /\ ~(b <= b - 1)
    BY <1>1, <2>2
  <2> QED
    BY <1>1, <2>3
<1>3. \E x \in T : \A y \in T : x >= y
  BY <1>1, <1>2
<1> QED
  BY <1>3 DEF Max

(* A page is what comes first of what is left.                             *)
LEMMA Pagewise ==
    ASSUME setup \in Setups, NEW s, NEW d \in Top \cup {Root}, NEW t \in Nat
    PROVE  /\ Page(s, d, t) \subseteq Later(s, d, t) /\ Later(s, d, t) \subseteq Entries(s, d)
           /\ \A e \in Later(s, d, t), f \in Page(s, d, t) :
                 Place(e) <= Place(f) => e \in Page(s, d, t)
           /\ t = 0 /\ Cardinality(Entries(s, d)) <= setup.page => Page(s, d, t) = Entries(s, d)
<1> DEFINE E == Entries(s, d)
           L == Later(s, d, t)
           Before(e) == {f \in L : Place(f) < Place(e)}
<1>1. L \in SUBSET E /\ E \in SUBSET EntrySet /\ Page(s, d, t) \subseteq L
  BY EntriesAreTyped DEF Later, Page
<1>2. /\ \A e \in E : Place(e) \in Nat /\ Place(e) > 0
      /\ IsFiniteSet(E) /\ Cardinality(E) \in Nat /\ setup.page \in Nat
  BY <1>1, Places, EntriesAreFinite, FS_CardinalityType, S3Assumption
<1>3. ASSUME NEW e \in L, NEW f \in Page(s, d, t), Place(e) <= Place(f) PROVE e \in Page(s, d, t)
  <2>1. Before(f) \in SUBSET E /\ Before(e) \in SUBSET E /\ Before(e) \in SUBSET Before(f)
    BY <1>1, <1>2, <1>3
  <2>2. IsFiniteSet(Before(f)) /\ IsFiniteSet(Before(e))
    BY <1>2, <2>1, FS_Subset
  <2>3. Cardinality(Before(e)) <= Cardinality(Before(f))
    BY <2>1, <2>2, FS_Subset
  <2>4. Cardinality(Before(e)) \in Nat /\ Cardinality(Before(f)) \in Nat
    BY <2>2, FS_CardinalityType
  <2>5. Cardinality(Before(f)) < setup.page
    BY <1>3 DEF Page
  <2>6. Cardinality(Before(e)) < setup.page
    BY <1>2, <2>3, <2>4, <2>5
  <2> QED
    BY <2>6 DEF Page
<1>4. ASSUME t = 0, Cardinality(E) <= setup.page, NEW e \in E PROVE e \in Page(s, d, t)
  <2>1. e \in L
    BY <1>2, <1>4 DEF Later
  <2>2. Before(e) \in SUBSET (E \ {e})
    BY <1>1, <1>2, <2>1
  <2>3. IsFiniteSet(E \ {e}) /\ Cardinality(E \ {e}) = Cardinality(E) - 1
    BY <1>2, FS_RemoveElement
  <2>4. IsFiniteSet(Before(e)) /\ Cardinality(Before(e)) <= Cardinality(E \ {e})
    BY <2>2, <2>3, FS_Subset
  <2>5. Cardinality(Before(e)) \in Nat
    BY <2>4, FS_CardinalityType
  <2>6. Cardinality(Before(e)) < setup.page
    BY <1>2, <1>4, <2>3, <2>4, <2>5
  <2> QED
    BY <2>1, <2>6 DEF Page
<1> QED
  BY <1>1, <1>3, <1>4

LEMMA EndOfPage ==
    ASSUME NEW page \in SUBSET EntrySet, page # {}
    PROVE  LET end == Max({Place(e) : e \in page})
           IN  (\E f \in page : end = Place(f)) /\ (\A f \in page : Place(f) <= end) /\ end \in Nat
<1> DEFINE T == {Place(e) : e \in page}
           bound == 2 * Len(KeyOrder) + 1
<1>1. T \in SUBSET Nat /\ T # {} /\ bound \in Nat /\ \A x \in T : x <= bound
  BY Places, S3Assumption
<1>2. Max(T) \in T /\ \A x \in T : x <= Max(T)
  <2> HIDE DEF T, bound
  <2> QED
    BY <1>1, MaxOfNaturals
<1> QED
  BY <1>1, <1>2

(* What a page adds: each of its names once.                               *)
LEMMA FreshOnes ==
    ASSUME NEW page \in SUBSET EntrySet, NEW known \in SUBSET EntrySet
    PROVE  LET found == known \cup Fresh(page, known)
           IN  /\ Fresh(page, known) \subseteq page
               /\ \A e \in Fresh(page, known) : e.name # MarkerName
               /\ \A e \in page : e.name # MarkerName => e.name \in NamesOf(found)
               /\ NamesOf(known) \subseteq NamesOf(found)
               /\ (/\ \A e \in known : e.name # MarkerName
                   /\ \A e, f \in known : e.name = f.name => e = f)
                      => \A e, f \in found : e.name = f.name => e = f
               /\ \A e \in Fresh(page, known) :
                     e.dir \/ [name |-> e.name, dir |-> TRUE] \notin page
<1> DEFINE found == known \cup Fresh(page, known)
<1>1. Fresh(page, known) \subseteq page /\ \A e \in Fresh(page, known) : e.name # MarkerName
  BY DEF Fresh
<1>2. ASSUME NEW e \in EntrySet
      PROVE  /\ [e EXCEPT !.dir = TRUE] = [name |-> e.name, dir |-> TRUE]
             /\ e.dir => e = [name |-> e.name, dir |-> TRUE]
             /\ ~e.dir => e = [name |-> e.name, dir |-> FALSE]
  <2>1. e = [name |-> e.name, dir |-> e.dir]
    BY DEF EntrySet
  <2>2. e.dir = TRUE \/ e.dir = FALSE
    BY DEF EntrySet
  <2>3. [e EXCEPT !.dir = TRUE] = [name |-> e.name, dir |-> TRUE]
    <3> DEFINE g == [e EXCEPT !.dir = TRUE]
    <3>1. g \in EntrySet /\ g.name = e.name /\ g.dir = TRUE
      BY DEF EntrySet
    <3>2. \A x \in EntrySet : x = [name |-> x.name, dir |-> x.dir]
      BY DEF EntrySet
    <3> HIDE DEF g
    <3>3. g = [name |-> g.name, dir |-> g.dir]
      BY <3>1, <3>2
    <3>4. g = [name |-> e.name, dir |-> TRUE]
      BY <3>1, <3>3
    <3> QED
      BY <3>4 DEF g
  <2>4. CASE e.dir = TRUE
    BY <2>1, <2>3, <2>4
  <2>5. CASE e.dir = FALSE
    BY <2>1, <2>3, <2>5
  <2> QED
    BY <2>2, <2>4, <2>5
<1>3. NamesOf(known) \subseteq NamesOf(found)
  BY DEF NamesOf
<1>4. ASSUME NEW e \in page, e.name # MarkerName PROVE e.name \in NamesOf(found)
  <2>1. CASE e.name \in NamesOf(known)
    BY <1>3, <2>1
  <2>2. CASE e.name \notin NamesOf(known)
    <3> DEFINE f == [name |-> e.name, dir |-> TRUE]
    <3>1. CASE f \in page
      <4>1. f \in Fresh(page, known)
        BY <1>4, <2>2, <3>1 DEF Fresh
      <4> QED
        BY <1>4, <4>1 DEF NamesOf
    <3>2. CASE f \notin page
      <4>1. e \in Fresh(page, known)
        BY <1>2, <1>4, <2>2, <3>2 DEF Fresh
      <4> QED
        BY <1>4, <4>1 DEF NamesOf
    <3> QED
      BY <3>1, <3>2
  <2> QED
    BY <2>1, <2>2
<1>5. \A e \in Fresh(page, known) : e.dir \/ [name |-> e.name, dir |-> TRUE] \notin page
  BY <1>1, <1>2 DEF Fresh
<1>6. ASSUME \A e \in known : e.name # MarkerName,
             \A e, f \in known : e.name = f.name => e = f,
             NEW e \in found, NEW f \in found, e.name = f.name
      PROVE  e = f
  <2>1. CASE e \in Fresh(page, known) /\ f \in Fresh(page, known)
    BY <1>1, <1>2, <1>5, <1>6, <2>1
  <2>2. \A x \in known, y \in Fresh(page, known) : x.name # y.name
    BY <1>6 DEF Fresh, NamesOf
  <2> QED
    BY <1>6, <2>1, <2>2
<1> QED
  BY <1>1, <1>3, <1>4, <1>5, <1>6

-----------------------------------------------------------------------------
(* A listing under way.                                                    *)
ListingTyped ==
    /\ token \in [Clients -> Nat]
    /\ children \in [Clients -> SUBSET EntrySet]
    /\ always \in [Clients -> SUBSET AllNames]
    /\ ever \in [Clients -> SUBSET EntrySet]
    /\ \A c \in Clients : \A e \in children[c] : e.name # MarkerName
    /\ before \in [Clients -> {None} \cup [Keys -> Contents]]

Now(c) == Entries(store, call[c].path)
OnePage(c) == Alone(c) /\ Cardinality(Now(c)) <= setup.page

\* What was there all along was listed, or is beyond the last entry; what was
\* listed was there; and what fits a page comes in one.
Listing(c) ==
    IsListing(c) =>
    /\ always[c] \subseteq NamesOf(Now(c))
    /\ Now(c) \subseteq ever[c] /\ children[c] \subseteq ever[c]
    /\ \A e \in children[c] : e.name # MarkerName
    /\ \A e, f \in children[c] : e.name = f.name => e = f
    /\ call[c].request = "page" =>
          /\ \A e \in EntrySet : e.name \in always[c] =>
                e.name \in NamesOf(children[c]) \/ Place(e) > token[c]
          /\ OnePage(c) => token[c] = 0 /\ children[c] = {}
    /\ call[c].request = "listed" =>
          /\ always[c] \subseteq NamesOf(children[c])
          /\ OnePage(c) => \A e \in children[c] : e.dir \/ e.name \notin Collided(call[c].path)

\* What a listing sees of another's step.
Sees(e) ==
    /\ call'[e] = call[e] /\ setup' = setup
    /\ token'[e] = token[e] /\ children'[e] = children[e]
    /\ before'[e] # None => store' = store /\ before[e] # None
    /\ \/ store' = store /\ always'[e] = always[e] /\ ever'[e] = ever[e]
       \/ /\ always'[e] = always[e] \cap NamesOf(Entries(store', call[e].path))
          /\ ever'[e] = ever[e] \cup Entries(store', call[e].path)

LEMMA ListingGoesOn ==
    ASSUME NEW e \in Clients, Listing(e), Sees(e) PROVE Listing(e)'
<1> SUFFICES ASSUME IsListing(e) PROVE Listing(e)'
  BY DEF Listing, IsListing, Sees
<1>1. Now(e)' = Entries(store', call[e].path)
  BY DEF Now, Sees, Entries, Under, Keys, Paths, Top, Marker
<1>2. IsListing(e)' /\ call'[e] = call[e] /\ children'[e] = children[e] /\ token'[e] = token[e]
  BY DEF Sees, IsListing
<1>3. always'[e] \subseteq NamesOf(Now(e)') /\ always'[e] \subseteq always[e]
  BY <1>1 DEF Sees, Listing, Now
<1>4. Now(e)' \subseteq ever'[e] /\ children'[e] \subseteq ever'[e]
  BY <1>1 DEF Sees, Listing, Now
<1>5. OnePage(e)' => OnePage(e) /\ store' = store
  BY <1>1 DEF Sees, OnePage, Alone, Now
<1>6. store' = store => Collided(call[e].path)' = Collided(call[e].path)
  BY DEF Sees, Collided, Entries
<1> QED
  BY <1>2, <1>3, <1>4, <1>5, <1>6 DEF Listing

\* The steps of one call.
Starts(c) ==
    Stores(c) \/ MakesMarker(c) \/ RemovesFile(c) \/ RemovesDirectory(c) \/ RenamesFile(c)
Asks(c) == Heads(c) \/ HeadsTarget(c) \/ ListsTwo(c)
Works(c) == Copies(c) \/ Finishes(c) \/ RequestFails(c)

LEMMA StepsOfS3 ==
    ASSUME InS3, Next
    PROVE  \/ \E c \in Clients : \/ Starts(c) \/ Asks(c) \/ Works(c)
                                 \/ Lists(c) \/ Pages(c) \/ PageFails(c) \/ Listed(c)
           \/ SomeoneElse
BY DEF Next, S3Step, Starts, Asks, Works

LEMMA StartsIs ==
    ASSUME NEW c \in Clients, Starts(c)
    PROVE  \E k : /\ k.op # "list" /\ call' = [call EXCEPT ![c] = k] /\ call[c] = None
                  /\ before' = [before EXCEPT ![c] = store] /\ store' = store
                  /\ UNCHANGED s3Vars
<1>1. ASSUME NEW op, NEW p, NEW to, NEW needed, NEW r, Starting(c, op, p, to, needed, r), op # "list"
      PROVE  \E k : /\ k.op # "list" /\ call' = [call EXCEPT ![c] = k] /\ call[c] = None
                    /\ before' = [before EXCEPT ![c] = store] /\ store' = store
                    /\ UNCHANGED s3Vars
  <2> DEFINE k == [op |-> op, path |-> p, to |-> to, mask |-> Methods, request |-> r]
  <2>1. k.op # "list" /\ call' = [call EXCEPT ![c] = k]
    BY <1>1 DEF Starting, Begin
  <2> HIDE DEF k
  <2> QED
    BY <1>1, <2>1 DEF Starting, Begin
<1> QED
  BY <1>1 DEF Starts, Stores, MakesMarker, RemovesFile, RemovesDirectory, RenamesFile

LEMMA OneCallMoves ==
    ASSUME NEW c \in Clients, NEW e \in Clients \ {c}, call \in [Clients -> S3Calls \cup {None}],
           \/ Starts(c) \/ Asks(c) \/ Works(c) \/ Lists(c) \/ Pages(c) \/ PageFails(c) \/ Listed(c)
    PROVE  call'[e] = call[e]
<1>1. \A k : call' = [call EXCEPT ![c] = k] => call'[e] = call[e]
  OBVIOUS
<1>2. CASE Starts(c)
  BY <1>1, <1>2, StartsIs
<1>3. CASE Lists(c)
  BY <1>1, <1>3 DEF Lists, Begin
<1>4. CASE Asks(c) \/ Works(c) \/ Pages(c) \/ PageFails(c) \/ Listed(c)
  <2>1. (\E r : Goes(c, r)) \/ (\E how : Returns(c, how))
    BY <1>4 DEF Asks, Heads, HeadsTarget, ListsTwo, Works, Copies, Finishes, RequestFails, Pages,
                TooMany, PageFails, Listed
  <2> QED
    BY <1>1, <2>1 DEF Goes, Returns
<1> QED
  BY <1>2, <1>3, <1>4

LEMMA OthersSee ==
    ASSUME CallsFit, ListingTyped, InS3, Next, NEW c \in Clients, NEW e \in Clients \ {c},
           \/ Starts(c) \/ Asks(c) \/ Works(c) \/ Lists(c) \/ Pages(c) \/ PageFails(c) \/ Listed(c),
           IsListing(e)
    PROVE  Sees(e)
<1>1. call'[e] = call[e] /\ setup' = setup
  BY OneCallMoves, SetupStays DEF CallsFit
<1>2. CASE store' = store /\ UNCHANGED s3Vars /\ before'[e] = before[e]
  BY <1>1, <1>2 DEF Sees, s3Vars
<1>3. ASSUME Stays(c) PROVE store' = store /\ before'[e] = before[e]
  BY <1>3 DEF Stays, Becomes
<1>4. CASE Starts(c)
  BY <1>2, <1>4, StartsIs DEF ListingTyped
<1>5. CASE Asks(c)
  BY <1>2, <1>3, <1>5 DEF Asks, Heads, HeadsTarget, ListsTwo, Nothing
<1>6. ASSUME NEW new, Stored(c, new) PROVE Sees(e)
  <2>1. store' = new /\ before'[e] = IF new = store THEN before[e] ELSE None
    BY <1>6 DEF Stored, Becomes
  <2>2. /\ always'[e] = always[e] \cap NamesOf(Entries(store', call[e].path))
        /\ ever'[e] = ever[e] \cup Entries(store', call[e].path)
        /\ UNCHANGED <<token, children>>
    BY <1>6, <2>1 DEF Stored, Noticed
  <2> QED
    BY <1>1, <2>1, <2>2 DEF Sees
<1>7. CASE Works(c)
  BY <1>2, <1>3, <1>6, <1>7 DEF Works, Copies, Finishes, RequestFails, Nothing
<1>8. CASE Lists(c)
  <2>1. /\ store' = store /\ before' = [before EXCEPT ![c] = store]
        /\ token' = [token EXCEPT ![c] = 0] /\ children' = [children EXCEPT ![c] = {}]
        /\ \E x : always' = [always EXCEPT ![c] = x]
        /\ \E x : ever' = [ever EXCEPT ![c] = x]
    BY <1>8 DEF Lists, Begin
  <2> QED
    BY <1>1, <2>1 DEF Sees, ListingTyped
<1>9. ASSUME ListingEnds(c) \/ UNCHANGED s3Vars, Stays(c) PROVE Sees(e)
  BY <1>1, <1>3, <1>9 DEF Sees, ListingEnds, ListingTyped, s3Vars
<1>10. CASE Pages(c)
  <2>1. CASE ListingEnds(c)
    BY <1>9, <1>10, <2>1 DEF Pages
  <2>2. CASE /\ \E x : children' = [children EXCEPT ![c] = x]
             /\ \E x : token' = [token EXCEPT ![c] = x]
             /\ UNCHANGED <<always, ever>>
    BY <1>1, <1>3, <1>10, <2>2 DEF Pages, Sees, ListingTyped
  <2> QED
    BY <1>10, <2>1, <2>2 DEF Pages, TooMany
<1>11. CASE PageFails(c) \/ Listed(c)
  BY <1>9, <1>11 DEF PageFails, Listed
<1> QED
  BY <1>4, <1>5, <1>7, <1>8, <1>10, <1>11

(* The call's own steps.                                                   *)
LEMMA NoListingYet ==
    ASSUME CallsFit, InS3, Next, NEW c \in Clients,
           Starts(c) \/ Asks(c) \/ Works(c) \/ PageFails(c) \/ Listed(c)
    PROVE  ~IsListing(c)'
<1>0. call \in [Clients -> S3Calls \cup {None}]
  BY DEF CallsFit
<1>1. CASE call'[c] = None
  BY <1>1 DEF IsListing
<1>2. CASE Starts(c)
  <2>1. PICK k : k.op # "list" /\ call' = [call EXCEPT ![c] = k]
    BY <1>2, StartsIs
  <2> QED
    BY <1>0, <2>1 DEF IsListing
<1>3. CASE Asks(c) \/ Copies(c)
  <2>1. call[c] # None /\ call[c].request \in {"head", "headTarget", "listTwo", "copy"}
    BY <1>3 DEF Asks, Heads, HeadsTarget, ListsTwo, Copies, Makes
  <2>2. call[c].op # "list"
    BY <2>1 DEF CallsFit, Fits
  <2>3. ASSUME NEW r, Goes(c, r) PROVE ~IsListing(c)'
    <3>1. call'[c] = [call[c] EXCEPT !.request = r] /\ call[c] \in S3Calls
      BY <1>0, <2>1, <2>3 DEF Goes
    <3>2. call'[c].op = call[c].op
      BY <3>1 DEF S3Calls
    <3> QED
      BY <2>2, <3>2 DEF IsListing
  <2>4. (\E r : Goes(c, r)) \/ (\E how : Returns(c, how))
    BY <1>3 DEF Asks, Heads, HeadsTarget, ListsTwo, Copies
  <2> QED
    BY <1>0, <1>1, <2>3, <2>4 DEF Returns
<1>4. CASE Finishes(c) \/ RequestFails(c) \/ PageFails(c) \/ Listed(c)
  BY <1>0, <1>1, <1>4 DEF Finishes, RequestFails, PageFails, Listed, Returns
<1> QED
  BY <1>2, <1>3, <1>4 DEF Works

LEMMA ListingStarts ==
    ASSUME CallsFit, ListingTyped, InS3, Next, NEW c \in Clients, Lists(c)
    PROVE  Listing(c)'
<1>1. PICK d \in Top \cup {Root} :
          /\ Begin(c, "list", d, d, Methods, IF Permits("ListObjectsV2") THEN "page" ELSE "listed")
          /\ always' = [always EXCEPT ![c] =
                IF Permits("ListObjectsV2") THEN NamesOf(Entries(store, d)) ELSE {}]
          /\ ever' = [ever EXCEPT ![c] = Entries(store, d)]
          /\ token' = [token EXCEPT ![c] = 0]
          /\ children' = [children EXCEPT ![c] = {}]
  BY DEF Lists
<1>2. call' = [call EXCEPT ![c] = [op |-> "list", path |-> d, to |-> d, mask |-> Methods,
                 request |-> IF Permits("ListObjectsV2") THEN "page" ELSE "listed"]]
  BY <1>1 DEF Begin
<1>3. /\ call'[c].op = "list" /\ call'[c].path = d
      /\ call'[c].request = IF Permits("ListObjectsV2") THEN "page" ELSE "listed"
  BY <1>2 DEF CallsFit
<1>4. /\ always'[c] \subseteq NamesOf(Entries(store, d)) /\ ever'[c] = Entries(store, d)
      /\ children'[c] = {} /\ token'[c] = 0
      /\ ~Permits("ListObjectsV2") => always'[c] = {}
  BY <1>1 DEF ListingTyped
<1>5. Now(c)' = Entries(store, d)
  <2>1. store' = store
    BY <1>1 DEF Begin
  <2> QED
    BY <1>3, <2>1 DEF Now, Entries, Under
<1>6. \A e \in EntrySet : Place(e) > 0
  BY Places
<1> QED
  BY <1>3, <1>4, <1>5, <1>6 DEF Listing

LEMMA ListingPages ==
    ASSUME CallsFit, ListingTyped, InS3, Next, NEW c \in Clients, Pages(c), Listing(c),
           call'[c] # None
    PROVE  Listing(c)'
<1> DEFINE d == call[c].path
           t == token[c]
           page == Page(store, d, t)
           fresh == Fresh(page, children[c])
           found == children[c] \cup fresh
           end == IF page = {} THEN t ELSE Max({Place(e) : e \in page})
<1>1. /\ call[c] # None /\ call[c].request = "page" /\ call[c].op = "list"
      /\ call[c] \in S3Calls /\ d \in Top \cup {Root} /\ setup \in Setups
  BY DEF Pages, Makes, CallsFit, Fits
<1>2. /\ Goes(c, IF Later(store, d, end) = {} THEN "listed" ELSE "page")
      /\ children' = [children EXCEPT ![c] = found]
      /\ token' = [token EXCEPT ![c] = end]
      /\ UNCHANGED <<always, ever>> /\ Stays(c)
  BY DEF Pages, TooMany, Returns, CallsFit
<1>3. /\ t \in Nat /\ children[c] \in SUBSET EntrySet /\ Now(c) = Entries(store, d)
      /\ Now(c) \in SUBSET EntrySet
  BY <1>1, EntriesAreTyped DEF ListingTyped, Now
<1>4. /\ page \subseteq Later(store, d, t) /\ Later(store, d, t) \subseteq Now(c)
      /\ \A e \in Later(store, d, t), f \in page : Place(e) <= Place(f) => e \in page
      /\ t = 0 /\ Cardinality(Now(c)) <= setup.page => page = Now(c)
  BY <1>1, <1>3, Pagewise
<1>5. page \in SUBSET EntrySet
  BY <1>3, <1>4
<1>6. /\ fresh \subseteq page
      /\ \A e \in fresh : e.name # MarkerName
      /\ \A e \in page : e.name # MarkerName => e.name \in NamesOf(found)
      /\ NamesOf(children[c]) \subseteq NamesOf(found)
      /\ (/\ \A e \in children[c] : e.name # MarkerName
          /\ \A e, f \in children[c] : e.name = f.name => e = f)
             => \A e, f \in found : e.name = f.name => e = f
      /\ \A e \in fresh : e.dir \/ [name |-> e.name, dir |-> TRUE] \notin page
  BY <1>3, <1>5, FreshOnes
<1>7. /\ page = {} => end = t
      /\ page # {} => /\ \E f \in page : end = Place(f)
                      /\ \A f \in page : Place(f) <= end
      /\ end \in Nat
  BY <1>3, <1>5, EndOfPage
<1>8. /\ IsListing(c)
      /\ always[c] \subseteq NamesOf(Now(c))
      /\ Now(c) \subseteq ever[c] /\ children[c] \subseteq ever[c]
      /\ \A e \in children[c] : e.name # MarkerName
      /\ \A e, f \in children[c] : e.name = f.name => e = f
      /\ \A e \in EntrySet : e.name \in always[c] => e.name \in NamesOf(children[c]) \/ Place(e) > t
      /\ OnePage(c) => t = 0 /\ children[c] = {}
  BY <1>1 DEF Listing, IsListing
\* A name that is not listed by now has all its entries beyond the page.
<1>9. ASSUME NEW e \in EntrySet, e.name \in always[c], e.name \notin NamesOf(found)
      PROVE  Place(e) > end
  <2>1. Place(e) > t /\ Place(e) \in Nat
    BY <1>6, <1>8, <1>9, Places
  <2>2. CASE page = {}
    BY <1>7, <2>1, <2>2
  <2>3. CASE page # {}
    <3>1. PICK f \in page : end = Place(f)
      BY <1>7, <2>3
    <3>2. PICK there \in Now(c) : there.name = e.name /\ e.name # MarkerName
      BY <1>8, <1>9 DEF NamesOf
    <3>3. there \in Later(store, d, t) /\ Place(there) \in Nat
      BY <1>3, <1>6, <1>8, <1>9, <3>2, Places DEF Later
    <3>4. there \notin page /\ e # f
      BY <1>6, <1>9, <3>1, <3>2
    <3>5. end < Place(there)
      BY <1>4, <1>7, <3>1, <3>3, <3>4
    <3>6. e = there \/ Place(e) = Place(there) + 1 \/ Place(there) = Place(e) + 1
      BY <1>3, <3>2, Places
    <3>7. Place(e) # end
      BY <1>5, <3>1, <3>4, Places
    <3> QED
      BY <1>7, <2>1, <3>3, <3>5, <3>6, <3>7
  <2> QED
    BY <2>2, <2>3
<1> HIDE DEF d, t, page, fresh, found, end
<1>10. /\ call'[c].op = "list" /\ call'[c].path = d
       /\ call'[c].request = IF Later(store, d, end) = {} THEN "listed" ELSE "page"
       /\ children'[c] = found /\ token'[c] = end
       /\ always'[c] = always[c] /\ ever'[c] = ever[c]
       /\ store' = store /\ before'[c] = before[c] /\ setup' = setup
  <2>1. call'[c] = [call[c] EXCEPT !.request =
                      IF Later(store, d, end) = {} THEN "listed" ELSE "page"]
    BY <1>2 DEF Goes, CallsFit
  <2>2. /\ call'[c].op = call[c].op /\ call'[c].path = call[c].path
        /\ call'[c].request = IF Later(store, d, end) = {} THEN "listed" ELSE "page"
    BY <1>1, <2>1 DEF S3Calls
  <2>3. store' = store /\ before'[c] = before[c]
    BY <1>2 DEF Stays, Becomes
  <2>4. setup' = setup
    BY SetupStays
  <2> QED
    BY <1>1, <1>2, <2>2, <2>3, <2>4 DEF d, ListingTyped
<1>11. Now(c)' = Now(c)
  BY <1>3, <1>10 DEF Now, Entries, Under
<1>12. found \subseteq ever[c] /\ (\A e \in found : e.name # MarkerName)
       /\ \A e, f \in found : e.name = f.name => e = f
  <2>1. found = children[c] \cup fresh
    BY DEF found
  <2> QED
    BY <1>4, <1>6, <1>8, <2>1
<1>13. ASSUME Later(store, d, end) = {} PROVE always[c] \subseteq NamesOf(found)
  <2>1. ASSUME NEW n \in always[c], n \notin NamesOf(found) PROVE FALSE
    <3>1. PICK there \in Now(c) : there.name = n
      BY <1>8, <2>1 DEF NamesOf
    <3>2. Place(there) > end
      BY <1>3, <1>9, <2>1, <3>1
    <3> QED
      BY <1>3, <1>13, <3>1, <3>2 DEF Later
  <2> QED
    BY <2>1
<1>14. ASSUME OnePage(c)
       PROVE  Later(store, d, end) = {} /\ \A e \in found : e.dir \/ e.name \notin Collided(d)
  <2>1. page = Now(c) /\ children[c] = {} /\ t = 0
    BY <1>4, <1>8, <1>14 DEF OnePage
  <2>2. Later(store, d, end) = {}
    <3>1. ASSUME NEW e \in Now(c), Place(e) > end PROVE FALSE
      <4>1. Place(e) <= end /\ Place(e) \in Nat
        BY <1>3, <1>7, <2>1, <3>1, Places
      <4> QED
        BY <1>7, <3>1, <4>1
    <3> QED
      BY <1>3, <3>1 DEF Later
  <2>3. found = fresh
    BY <2>1 DEF found
  <2>4. \A e \in fresh : e.dir \/ e.name \notin Collided(d)
    BY <1>3, <1>6, <2>1 DEF Collided
  <2> QED
    BY <2>2, <2>3, <2>4
<1>15. OnePage(c)' => OnePage(c)
  BY <1>10, <1>11 DEF OnePage, Alone
<1>16. Collided(call[c].path)' = Collided(d)
  BY <1>10 DEF Collided, Entries, Under
<1>17. /\ always'[c] \subseteq NamesOf(Now(c)')
       /\ Now(c)' \subseteq ever'[c] /\ children'[c] \subseteq ever'[c]
       /\ \A e \in children'[c] : e.name # MarkerName
       /\ \A e, f \in children'[c] : e.name = f.name => e = f
  BY <1>8, <1>10, <1>11, <1>12
<1>18. call'[c].request = "page" =>
          /\ \A e \in EntrySet : e.name \in always'[c] =>
                e.name \in NamesOf(children'[c]) \/ Place(e) > token'[c]
          /\ OnePage(c)' => token'[c] = 0 /\ children'[c] = {}
  BY <1>9, <1>10, <1>14, <1>15
<1>19. call'[c].request = "listed" =>
          /\ always'[c] \subseteq NamesOf(children'[c])
          /\ OnePage(c)' =>
                \A e \in children'[c] : e.dir \/ e.name \notin Collided(call[c].path)'
  BY <1>10, <1>13, <1>14, <1>15, <1>16
<1> QED
  BY <1>17, <1>18, <1>19 DEF Listing

LEMMA BeforeIsTyped ==
    ASSUME ListingTyped, InS3, Next, store \in [Keys -> Contents]
    PROVE  before' \in [Clients -> {None} \cup [Keys -> Contents]]
<1>1. ASSUME NEW c \in Clients, NEW new, Becomes(c, new)
      PROVE  before' \in [Clients -> {None} \cup [Keys -> Contents]]
  <2>1. before' = [d \in Clients |->
            IF d = c THEN IF call'[c] = None THEN None ELSE before[c]
            ELSE IF new = store THEN before[d] ELSE None]
    BY <1>1 DEF Becomes
  <2>2. \A d \in Clients : before'[d] \in {None, before[d]}
    BY <2>1
  <2>3. \A d \in Clients : before[d] \in {None} \cup [Keys -> Contents]
    BY DEF ListingTyped
  <2> QED
    BY <2>1, <2>2, <2>3
<1>2. ASSUME NEW c \in Clients, Starts(c) \/ Lists(c)
      PROVE  before' \in [Clients -> {None} \cup [Keys -> Contents]]
  <2>1. before' = [before EXCEPT ![c] = store]
    BY <1>2, StartsIs DEF Lists, Begin
  <2> QED
    BY <2>1 DEF ListingTyped
<1>3. ASSUME NEW c \in Clients,
             Asks(c) \/ Works(c) \/ Pages(c) \/ PageFails(c) \/ Listed(c)
      PROVE  \E new : Becomes(c, new)
  BY <1>3 DEF Asks, Heads, HeadsTarget, ListsTwo, Works, Copies, Finishes, RequestFails, Nothing,
              Stored, Stays, Pages, PageFails, Listed
<1>4. CASE SomeoneElse
  BY <1>4 DEF SomeoneElse, FromOutside
<1> QED
  BY <1>1, <1>2, <1>3, <1>4, StepsOfS3

LEMMA ListingTypedStep ==
    ASSUME CallsFit, ListingTyped, InS3, Next, store \in [Keys -> Contents]
    PROVE  ListingTyped'
<1>0. before' \in [Clients -> {None} \cup [Keys -> Contents]]
  BY BeforeIsTyped
<1>1. \A c \in Clients : IsListing(c) => call[c].path \in Top \cup {Root}
  BY DEF CallsFit, Fits, IsListing
<1>2. CASE UNCHANGED s3Vars
  BY <1>0, <1>2 DEF ListingTyped, s3Vars
<1>3. ASSUME NEW new, Noticed(new) PROVE ListingTyped'
  <2>1. UNCHANGED <<token, children>>
    BY <1>3 DEF Noticed
  <2>2. always' \in [Clients -> SUBSET AllNames]
    BY <1>3 DEF Noticed, ListingTyped
  <2>3. \A d \in Clients : IsListing(d) => Entries(new, call[d].path) \in SUBSET EntrySet
    BY <1>1, EntriesAreTyped
  <2>4. ever' \in [Clients -> SUBSET EntrySet]
    BY <1>3, <2>3 DEF Noticed, ListingTyped
  <2> QED
    BY <1>0, <2>1, <2>2, <2>4 DEF ListingTyped
<1>4. ASSUME NEW c \in Clients, ListingEnds(c) PROVE ListingTyped'
  <2>1. /\ token' \in [Clients -> Nat]
        /\ always' \in [Clients -> SUBSET AllNames]
        /\ ever' \in [Clients -> SUBSET EntrySet]
    BY <1>4 DEF ListingEnds, ListingTyped
  <2>2. /\ children' \in [Clients -> SUBSET EntrySet]
        /\ \A d \in Clients : children'[d] \subseteq children[d]
    BY <1>4 DEF ListingEnds, ListingTyped
  <2> QED
    BY <1>0, <2>1, <2>2 DEF ListingTyped
<1>5. ASSUME NEW c \in Clients, Lists(c) PROVE ListingTyped'
  <2>1. PICK d \in Top \cup {Root} :
          /\ always' = [always EXCEPT ![c] =
                IF Permits("ListObjectsV2") THEN NamesOf(Entries(store, d)) ELSE {}]
          /\ ever' = [ever EXCEPT ![c] = Entries(store, d)]
          /\ token' = [token EXCEPT ![c] = 0]
          /\ children' = [children EXCEPT ![c] = {}]
    BY <1>5 DEF Lists
  <2>2. Entries(store, d) \in SUBSET EntrySet
    BY EntriesAreTyped
  <2>3. NamesOf(Entries(store, d)) \in SUBSET AllNames
    BY <2>2 DEF NamesOf, EntrySet
  <2>4. /\ token' \in [Clients -> Nat]
        /\ always' \in [Clients -> SUBSET AllNames]
        /\ ever' \in [Clients -> SUBSET EntrySet]
    BY <2>1, <2>2, <2>3 DEF ListingTyped
  <2>5. /\ children' \in [Clients -> SUBSET EntrySet]
        /\ \A e \in Clients : children'[e] \subseteq children[e]
    BY <2>1 DEF ListingTyped
  <2> QED
    BY <1>0, <2>4, <2>5 DEF ListingTyped
<1>6. ASSUME NEW c \in Clients, Pages(c) PROVE ListingTyped'
  <2> DEFINE d == call[c].path
             page == Page(store, d, token[c])
             fresh == Fresh(page, children[c])
             end == IF page = {} THEN token[c] ELSE Max({Place(e) : e \in page})
  <2>1. \/ ListingEnds(c)
        \/ /\ children' = [children EXCEPT ![c] = children[c] \cup fresh]
           /\ token' = [token EXCEPT ![c] = end]
           /\ UNCHANGED <<always, ever>>
    BY <1>6 DEF Pages, TooMany
  <2>2. /\ d \in Top \cup {Root} /\ setup \in Setups /\ token[c] \in Nat
        /\ children[c] \in SUBSET EntrySet
    BY <1>6 DEF Pages, Makes, CallsFit, Fits, ListingTyped
  <2>3. page \in SUBSET EntrySet
    BY <2>2, Pagewise, EntriesAreTyped
  <2>4. end \in Nat
    BY <2>2, <2>3, EndOfPage
  <2>5. fresh \in SUBSET EntrySet /\ \A e \in fresh : e.name # MarkerName
    BY <2>2, <2>3, FreshOnes
  <2> HIDE DEF d, page, fresh, end
  <2>6. CASE /\ children' = [children EXCEPT ![c] = children[c] \cup fresh]
             /\ token' = [token EXCEPT ![c] = end]
             /\ UNCHANGED <<always, ever>>
    <3>1. token' \in [Clients -> Nat]
      BY <2>4, <2>6 DEF ListingTyped
    <3>2. children' \in [Clients -> SUBSET EntrySet]
      BY <2>5, <2>6 DEF ListingTyped
    <3>3. \A e \in Clients : children'[e] \subseteq children[e] \cup fresh
      BY <2>6 DEF ListingTyped
    <3> QED
      BY <1>0, <2>5, <2>6, <3>1, <3>2, <3>3 DEF ListingTyped
  <2> QED
    BY <1>4, <2>1, <2>6
<1>7. ASSUME NEW c \in Clients, Starts(c) \/ Asks(c) PROVE UNCHANGED s3Vars
  BY <1>7, StartsIs DEF Asks, Heads, HeadsTarget, ListsTwo, Nothing
<1>8. ASSUME NEW c \in Clients, Works(c) PROVE UNCHANGED s3Vars \/ \E new : Noticed(new)
  BY <1>8 DEF Works, Copies, Finishes, RequestFails, Nothing, Stored
<1>9. CASE SomeoneElse
  BY <1>3, <1>9 DEF SomeoneElse
<1> QED
  BY <1>2, <1>3, <1>4, <1>5, <1>6, <1>7, <1>8, <1>9, StepsOfS3 DEF PageFails, Listed

\* What someone else's change is to a listing.
LEMMA OutsideIsSeen ==
    ASSUME ListingTyped, InS3, Next, SomeoneElse, NEW e \in Clients, IsListing(e)
    PROVE  Sees(e)
<1>1. PICK k \in Keys, object \in {None, 3} :
          FromOutside(With(k, object)) /\ Noticed(With(k, object))
  BY DEF SomeoneElse
<1>2. /\ UNCHANGED <<call, setup>> /\ before'[e] = None /\ store' = With(k, object)
  BY <1>1 DEF FromOutside
<1>3. /\ always'[e] = always[e] \cap NamesOf(Entries(store', call[e].path))
      /\ ever'[e] = ever[e] \cup Entries(store', call[e].path)
      /\ UNCHANGED <<token, children>>
  BY <1>1, <1>2 DEF Noticed
<1> QED
  BY <1>2, <1>3 DEF Sees

-----------------------------------------------------------------------------
(* What holds of a bucket.                                                 *)
BucketHolds == InS3 => /\ CallsFit /\ store \in [Keys -> Contents]
                       /\ ListingTyped
                       /\ \A c \in Clients : Listing(c)

LEMMA BucketStart == Init => BucketHolds
<1> SUFFICES ASSUME Init, InS3 PROVE BucketHolds
  BY DEF BucketHolds
<1>1. CallsInit /\ S3Init
  BY DEF Init
<1>2. CallsFit
  BY <1>1 DEF CallsInit, CallsFit
<1>3. store \in [Keys -> Contents]
  BY <1>1 DEF S3Init, Contents
<1>4. ListingTyped
  BY <1>1 DEF CallsInit, S3Init, ListingTyped
<1>5. \A c \in Clients : Listing(c)
  BY <1>1 DEF CallsInit, Listing, IsListing
<1> QED
  BY <1>2, <1>3, <1>4, <1>5 DEF BucketHolds

LEMMA ListingStep ==
    ASSUME InS3, CallsFit, ListingTyped, Next, NEW e \in Clients, Listing(e)
    PROVE  Listing(e)'
<1>1. CASE IsListing(e) /\ Sees(e)
  BY <1>1, ListingGoesOn
<1>2. CASE ~IsListing(e) /\ call'[e] = call[e]
  BY <1>2 DEF Listing, IsListing
<1>3. CASE ~IsListing(e)'
  BY <1>3 DEF Listing
<1>4. CASE SomeoneElse
  BY <1>1, <1>2, <1>4, OutsideIsSeen DEF SomeoneElse, FromOutside
<1>5. ASSUME NEW c \in Clients, e # c,
             \/ Starts(c) \/ Asks(c) \/ Works(c) \/ Lists(c) \/ Pages(c) \/ PageFails(c) \/ Listed(c)
      PROVE  Listing(e)'
  <2>1. call'[e] = call[e]
    BY <1>5, OneCallMoves DEF CallsFit
  <2> QED
    BY <1>1, <1>2, <1>5, <2>1, OthersSee
<1>6. CASE Starts(e) \/ Asks(e) \/ Works(e) \/ PageFails(e) \/ Listed(e)
  BY <1>3, <1>6, NoListingYet
<1>7. CASE Lists(e)
  BY <1>7, ListingStarts
<1>8. CASE Pages(e)
  <2>1. CASE call'[e] = None
    BY <1>3, <2>1 DEF IsListing
  <2> QED
    BY <1>8, <2>1, ListingPages
<1> QED
  BY <1>4, <1>5, <1>6, <1>7, <1>8, StepsOfS3

LEMMA BucketStep == BucketHolds /\ [Next]_vars => BucketHolds'
<1> SUFFICES ASSUME BucketHolds, [Next]_vars PROVE BucketHolds'
  OBVIOUS
<1>1. setup' = setup
  BY SetupStays
<1>2. CASE ~InS3
  BY <1>1, <1>2 DEF BucketHolds, InS3
<1>3. CASE InS3 /\ Next
  <2>1. CallsFit' /\ (store \in [Keys -> Contents])'
    BY <1>3, CallsFitStep, StoreFitsStep DEF BucketHolds
  <2>2. ListingTyped'
    BY <1>3, ListingTypedStep DEF BucketHolds
  <2>3. \A c \in Clients : Listing(c)'
    BY <1>3, ListingStep DEF BucketHolds
  <2> QED
    BY <2>1, <2>2, <2>3 DEF BucketHolds
<1>4. CASE UNCHANGED vars /\ InS3
  <2>1. CallsFit' /\ (store \in [Keys -> Contents])'
    BY <1>1, <1>4, CallsStay DEF BucketHolds, vars, callVars
  <2>2. ListingTyped'
    BY <1>4 DEF BucketHolds, ListingTyped, vars, callVars, s3Vars
  <2>3. ASSUME NEW c \in Clients PROVE Listing(c)'
    <3>1. Listing(c)
      BY <1>4 DEF BucketHolds
    <3>2. Sees(c)
      BY <1>4 DEF Sees, vars, callVars, s3Vars
    <3> QED
      BY <3>1, <3>2, ListingGoesOn
  <2> QED
    BY <2>1, <2>2, <2>3 DEF BucketHolds
<1> QED
  BY <1>2, <1>3, <1>4

LEMMA BucketAlways == Spec => []BucketHolds
BY BucketStart, BucketStep, PTL DEF Spec

(* A listing of a bucket that succeeds misses no name that was in the      *)
(* directory all along, shows none that was never there while it was made, *)
(* and shows each name once.  (s3fs.go: List)                              *)
THEOREM ListingsAreHonest == Spec => []ListingIsHonest
<1>1. HiddenInv /\ BucketHolds => ListingIsHonest
  <2> SUFFICES ASSUME HiddenInv, BucketHolds, NEW c \in Clients, Makes(c, "listed")
               PROVE  /\ always[c] \subseteq NamesOf(children[c])
                      /\ children[c] \subseteq ever[c]
                      /\ \A e, f \in children[c] : e.name = f.name => e = f
                      /\ Alone(c) /\ Cardinality(Entries(store, call[c].path)) <= setup.page =>
                            \A e \in children[c] : e.dir \/ e.name \notin Collided(call[c].path)
    BY DEF ListingIsHonest
  <2>1. InS3
    BY DEF HiddenInv, Makes, LocalCalls, LocalRequests
  <2>2. Fits(call[c]) /\ call[c] # None /\ Listing(c)
    BY <2>1 DEF BucketHolds, CallsFit, Makes
  <2>3. IsListing(c) /\ call[c].request = "listed"
    BY <2>2 DEF Fits, IsListing, Makes
  <2> QED
    BY <2>2, <2>3 DEF Listing, OnePage, Now
<1>2. Init => HiddenInv
  BY DEF Init, CallsInit, LocalInit, HiddenInv
<1> QED
  BY <1>1, <1>2, HiddenStep, BucketAlways, PTL DEF Spec

-----------------------------------------------------------------------------
(* Counters and outcomes.                                                  *)
Counted ==
    /\ answer \in OutcomeSet
    /\ calls \in 0..MaxCalls /\ outside \in 0..MaxOutside

\* What a step is to the counters.
LEMMA StepCounts ==
    ASSUME Next
    PROVE  \/ UNCHANGED <<answer, outside>> /\ calls < MaxCalls /\ calls' = calls + 1
           \/ UNCHANGED <<answer, calls>> /\ outside < MaxOutside /\ outside' = outside + 1
           \/ UNCHANGED <<calls, outside>> /\ answer' \in OutcomeSet \cup {answer}
<1> DEFINE Tells ==
        \/ UNCHANGED <<answer, outside>> /\ calls < MaxCalls /\ calls' = calls + 1
        \/ UNCHANGED <<answer, calls>> /\ outside < MaxOutside /\ outside' = outside + 1
        \/ UNCHANGED <<calls, outside>> /\ answer' \in OutcomeSet \cup {answer}
<1> SUFFICES Tells
  OBVIOUS
<1>1. ASSUME NEW c, NEW op, NEW p, NEW to, NEW m, NEW r, Begin(c, op, p, to, m, r) PROVE Tells
  BY <1>1 DEF Begin
<1>2. ASSUME NEW c, NEW r, Goes(c, r) PROVE Tells
  BY <1>2 DEF Goes
<1>3. ASSUME NEW c, NEW how \in OutcomeSet, Returns(c, how) PROVE Tells
  BY <1>3 DEF Returns
<1> HIDE DEF Tells
<1>4. CASE S3Step
  <2>1. ASSUME NEW c \in Clients, Starts(c) PROVE Tells
    BY <1>1, <2>1 DEF Starts, Stores, MakesMarker, RemovesFile, RemovesDirectory, RenamesFile,
                      Starting
  <2>2. ASSUME NEW c \in Clients, Asks(c) PROVE Tells
    BY <1>2, <1>3, <2>2 DEF Asks, Heads, HeadsTarget, ListsTwo, OutcomeSet
  <2>3. ASSUME NEW c \in Clients, Works(c) PROVE Tells
    BY <1>2, <1>3, <2>3 DEF Works, Copies, Finishes, RequestFails, OutcomeSet
  <2>4. ASSUME NEW c \in Clients, Lists(c) PROVE Tells
    BY <1>1, <2>4 DEF Lists
  <2>5. ASSUME NEW c \in Clients, Pages(c) \/ PageFails(c) \/ Listed(c) PROVE Tells
    BY <1>2, <1>3, <2>5 DEF Pages, TooMany, PageFails, Listed, OutcomeSet
  <2>6. CASE SomeoneElse
    BY <2>6 DEF SomeoneElse, FromOutside, Tells
  <2>7. \/ \E c \in Clients :
              \/ Starts(c) \/ Asks(c) \/ Works(c) \/ Lists(c) \/ Pages(c) \/ PageFails(c) \/ Listed(c)
        \/ SomeoneElse
    BY <1>4 DEF S3Step, Starts, Asks, Works
  <2> QED
    BY <2>1, <2>2, <2>3, <2>4, <2>5, <2>6, <2>7
<1>5. CASE LocalStep
  <2>1. ASSUME NEW c \in Clients,
               StartsCreate(c) \/ StartsMkdir(c) \/ StartsRemove(c) \/ StartsRename(c)
        PROVE  Tells
    BY <1>1, <2>1 DEF StartsCreate, StartsMkdir, StartsRemove, StartsRename, Given
  <2>2. ASSUME NEW c \in Clients, StatsNew(c) \/ Creates(c) \/ Publishes(c) \/ LeavesBehind(c)
        PROVE  Tells
    BY <1>2, <1>3, <2>2 DEF StatsNew, Creates, Publishes, LeavesBehind, OutcomeSet
  <2>3. ASSUME NEW c \in Clients, MakesDirectory(c) \/ PermitsChange(c) \/ Unlinks(c) PROVE Tells
    BY <1>2, <1>3, <2>3 DEF MakesDirectory, PermitsChange, Unlinks, OutcomeSet
  <2>4. ASSUME NEW c \in Clients, StatsTarget(c) \/ Renames(c) PROVE Tells
    BY <1>2, <1>3, <2>4 DEF StatsTarget, Renames, OutcomeSet
  <2>5. CASE Crashes
    BY <2>5 DEF Crashes, Tells
  <2>6. CASE SomeoneLocal
    BY <2>6 DEF SomeoneLocal, FromOutside, Tells
  <2> QED
    BY <1>5, <2>1, <2>2, <2>3, <2>4, <2>5, <2>6 DEF LocalStep
<1> QED
  BY <1>4, <1>5 DEF Next

LEMMA CountedAlways == Spec => []Counted
<1>1. Init => Counted
  BY BoundsAssumption DEF Init, CallsInit, Counted, OutcomeSet
<1>2. Counted /\ [Next]_vars => Counted'
  <2> SUFFICES ASSUME Counted, [Next]_vars PROVE Counted'
    OBVIOUS
  <2>1. CASE Next
    BY <2>1, StepCounts, BoundsAssumption DEF Counted
  <2>2. CASE UNCHANGED vars
    BY <2>2 DEF vars, callVars, Counted
  <2> QED
    BY <2>1, <2>2
<1> QED
  BY <1>1, <1>2, PTL DEF Spec

(* Every variable has its type, whichever backend it is; what a listing of *)
(* a bucket has found never includes the marker of the directory.          *)
THEOREM TypeCorrect == Spec => []TypeOK
<1>1. HiddenInv /\ BucketHolds /\ Counted => TypeOK
  <2> SUFFICES ASSUME HiddenInv, BucketHolds, Counted PROVE TypeOK
    OBVIOUS
  <2>1. CASE InS3
    <3>1. CallsOK
      BY <2>1 DEF BucketHolds, CallsFit, S3Calls, Counted, CallsOK
    <3>2. store \in [Keys -> {None} \cup 0..3]
      BY <2>1 DEF BucketHolds, Contents
    <3>3. ASSUME NEW c \in Clients, NEW e \in children[c] PROVE e.name \in Names \cup Members
      BY <2>1, <3>3 DEF BucketHolds, ListingTyped, EntrySet, AllNames
    <3> QED
      BY <2>1, <3>1, <3>2, <3>3 DEF TypeOK
  <2>2. CASE ~InS3
    <3>1. CallsOK
      BY <2>2 DEF HiddenInv, LocalCalls, Counted, CallsOK
    <3> QED
      BY <2>2, <3>1 DEF HiddenInv, TypeOK
  <2> QED
    BY <2>1, <2>2
<1>2. Init => HiddenInv
  BY DEF Init, CallsInit, LocalInit, HiddenInv
<1> QED
  BY <1>1, <1>2, HiddenStep, BucketAlways, CountedAlways, PTL DEF Spec

-----------------------------------------------------------------------------
(* Paths, and what a rename does to a directory on disk.                   *)
LEMMA Pairs ==
    ASSUME NEW S, NEW x \in S, NEW y \in S
    PROVE  /\ <<x>> \in Seq(S) /\ <<y>> \in Seq(S) /\ <<x, y>> \in Seq(S)
           /\ Len(<<x>>) = 1 /\ <<x>>[1] = x /\ <<x>> # <<>> /\ Len(<<x, y>>) = 2
           /\ <<x, y>>[1] = x /\ <<x, y>>[2] = y /\ <<x, y>> # <<>>
           /\ SubSeq(<<x>>, 1, 0) = <<>> /\ SubSeq(<<x>>, 1, 1) = <<x>>
           /\ SubSeq(<<x>>, 2, 1) = <<>> /\ SubSeq(<<x, y>>, 3, 2) = <<>>
           /\ SubSeq(<<x, y>>, 1, 1) = <<x>> /\ SubSeq(<<x, y>>, 1, 2) = <<x, y>>
           /\ <<x>> \o <<y>> = <<x, y>> /\ Append(<<x>>, y) = <<x, y>>
           /\ <<x>> \o <<>> = <<x>> /\ <<x, y>> \o <<>> = <<x, y>>
<1>1. /\ <<x>> \in Seq(S) /\ <<y>> \in Seq(S) /\ <<x, y>> \in Seq(S)
      /\ Len(<<x>>) = 1 /\ Len(<<x, y>>) = 2 /\ <<x>>[1] = x /\ <<y>>[1] = y /\ Len(<<y>>) = 1
      /\ <<x, y>>[1] = x /\ <<x, y>>[2] = y /\ <<x>> # <<>> /\ <<x, y>> # <<>>
  OBVIOUS
<1>2. ASSUME NEW s \in Seq(S), NEW i \in 1..Len(s), NEW z \in S, z = s[i]
      PROVE  SubSeq(s, i, i) = <<z>>
  <2>1. SubSeq(s, i, i) \in Seq(S) /\ Len(SubSeq(s, i, i)) = 1 /\ SubSeq(s, i, i)[1] = z
    BY <1>2
  <2>2. <<z>> \in Seq(S) /\ Len(<<z>>) = 1 /\ <<z>>[1] = z
    OBVIOUS
  <2>3. \A j \in 1..1 : SubSeq(s, i, i)[j] = <<z>>[j]
    BY <2>1, <2>2
  <2> QED
    BY <2>1, <2>2, <2>3, SeqEqual
<1>3. ASSUME NEW s \in Seq(S) PROVE s \o <<>> = s /\ SubSeq(s, 1, Len(s)) = s
  OBVIOUS
<1>4. ASSUME NEW s \in Seq(S) PROVE SubSeq(s, Len(s) + 1, Len(s)) = <<>>
  OBVIOUS
<1>5. SubSeq(<<x>>, 1, 0) = <<>>
  BY SubSeqProperties
<1>6. <<x>> \o <<y>> = <<x, y>>
  <2>1. /\ <<x>> \o <<y>> \in Seq(S) /\ Len(<<x>> \o <<y>>) = 2
        /\ \A i \in 1..2 : (<<x>> \o <<y>>)[i] = <<x, y>>[i]
    BY <1>1, ConcatProperties
  <2> QED
    BY <1>1, <2>1, SeqEqual
<1>7. SubSeq(<<x, y>>, 1, 1) = <<x>>
  <2>1. 1 \in 1..Len(<<x, y>>)
    BY <1>1
  <2> QED
    BY <1>1, <1>2, <2>1
<1>8. SubSeq(<<x, y>>, 1, 2) = <<x, y>> /\ SubSeq(<<x>>, 1, 1) = <<x>>
  BY <1>1, <1>3
<1>9. SubSeq(<<x>>, 2, 1) = <<>> /\ SubSeq(<<x, y>>, 3, 2) = <<>>
  <2>1. Len(<<x>>) + 1 = 2 /\ Len(<<x, y>>) + 1 = 3
    BY <1>1
  <2> QED
    BY <1>1, <1>4, <2>1
<1>10. <<x>> \o <<>> = <<x>> /\ <<x, y>> \o <<>> = <<x, y>>
  BY <1>1, <1>3
<1>11. Append(<<x>>, y) = <<x, y>>
  <2>1. /\ Append(<<x>>, y) \in Seq(S) /\ Len(Append(<<x>>, y)) = 2
        /\ \A i \in 1..2 : Append(<<x>>, y)[i] = <<x, y>>[i]
    BY <1>1
  <2> QED
    BY <1>1, <2>1, SeqEqual
<1> QED
  BY <1>1, <1>5, <1>6, <1>7, <1>8, <1>9, <1>10, <1>11

LEMMA EndOfTwo == \A S : \A x, y \in S : SubSeq(<<x, y>>, 2, 2) = <<y>>
<1> TAKE S
<1> TAKE x, y \in S
<1> DEFINE s == <<x, y>>
<1>1. s \in Seq(S) /\ Len(s) = 2 /\ s[2] = y /\ <<y>> \in Seq(S) /\ Len(<<y>>) = 1 /\ <<y>>[1] = y
  OBVIOUS
<1> HIDE DEF s
<1>2. SubSeq(s, 2, 2) \in Seq(S) /\ Len(SubSeq(s, 2, 2)) = 1 /\ SubSeq(s, 2, 2)[1] = y
  BY <1>1
<1>3. \A j \in 1..1 : SubSeq(s, 2, 2)[j] = <<y>>[j]
  BY <1>1, <1>2
<1>4. SubSeq(s, 2, 2) = <<y>>
  BY <1>1, <1>2, <1>3, SeqEqual
<1> QED
  BY <1>4 DEF s

LEMMA PathShapes ==
    /\ \A p \in Top : Len(p) = 1 /\ p = <<p[1]>> /\ p[1] \in Names /\ Parent(p) = Root /\ p # Root
    /\ \A p \in Paths \ Top : /\ Len(p) = 2 /\ p = <<p[1], p[2]>> /\ p[1] \in Names
                              /\ p[2] \in Members
                              /\ Parent(p) \in Top /\ Parent(p) = <<p[1]>> /\ p # Root
    /\ \A d \in Top, m \in Members :
          /\ Append(d, m) \in Paths \ Top /\ Parent(Append(d, m)) = d /\ Append(d, m)[2] = m
          /\ d \o <<m>> = Append(d, m)
<1>1. \A n \in Names : Len(<<n>>) = 1 /\ SubSeq(<<n>>, 1, 0) = <<>> /\ <<n>>[1] = n /\ <<n>> # <<>>
  BY Pairs
<1>2. \A n \in Names, m \in Members :
          /\ Len(<<n, m>>) = 2 /\ SubSeq(<<n, m>>, 1, 1) = <<n>> /\ <<n, m>> # <<>>
          /\ <<n, m>>[1] = n /\ <<n, m>>[2] = m
          /\ Append(<<n>>, m) = <<n, m>> /\ <<n>> \o <<m>> = <<n, m>>
  <2> TAKE n \in Names, m \in Members
  <2>1. n \in Names \cup Members /\ m \in Names \cup Members
    OBVIOUS
  <2> QED
    BY <2>1, Pairs
<1>3. \A p \in Top : \E n \in Names : p = <<n>>
  BY DEF Top
<1>4. \A p \in Paths \ Top : \E n \in Names, m \in Members : p = <<n, m>>
  BY DEF Paths
<1>5. ASSUME NEW n \in Names, NEW m \in Members PROVE <<n, m>> \in Paths \ Top
  <2>1. <<n, m>> \in Paths
    BY DEF Paths
  <2>2. <<n, m>> \notin Top
    BY <1>1, <1>2, <1>3
  <2> QED
    BY <2>1, <2>2
<1>6. \A n \in Names : <<n>> \in Top
  BY DEF Top
<1>7. \A p \in Top : Len(p) = 1 /\ p = <<p[1]>> /\ p[1] \in Names /\ Parent(p) = Root /\ p # Root
  <2> SUFFICES ASSUME NEW n \in Names
               PROVE  /\ Len(<<n>>) = 1 /\ <<n>> = <<<<n>>[1]>> /\ <<n>>[1] \in Names
                      /\ Parent(<<n>>) = Root /\ <<n>> # Root
    BY <1>3
  <2>1. Len(<<n>>) - 1 = 0
    BY <1>1
  <2> QED
    BY <1>1, <2>1 DEF Parent, Root
<1>8. \A p \in Paths \ Top : /\ Len(p) = 2 /\ p = <<p[1], p[2]>> /\ p[1] \in Names
                             /\ p[2] \in Members
                             /\ Parent(p) \in Top /\ Parent(p) = <<p[1]>> /\ p # Root
  <2> SUFFICES ASSUME NEW n \in Names, NEW m \in Members
               PROVE  LET p == <<n, m>> IN
                      /\ Len(p) = 2 /\ p = <<p[1], p[2]>> /\ p[1] \in Names
                      /\ p[2] \in Members
                      /\ Parent(p) \in Top /\ Parent(p) = <<p[1]>> /\ p # Root
    BY <1>4
  <2>1. Len(<<n, m>>) - 1 = 1
    BY <1>2
  <2> QED
    BY <1>2, <1>6, <2>1 DEF Parent, Root
<1>9. \A d \in Top, m \in Members :
          /\ Append(d, m) \in Paths \ Top /\ Parent(Append(d, m)) = d /\ Append(d, m)[2] = m
          /\ d \o <<m>> = Append(d, m)
  <2> TAKE d \in Top, m \in Members
  <2>1. PICK n \in Names : d = <<n>>
    BY <1>3
  <2>2. Append(d, m) = <<n, m>> /\ d \o <<m>> = <<n, m>>
    BY <1>2, <2>1
  <2>3. Parent(<<n, m>>) = <<n>>
    <3>1. Len(<<n, m>>) = 2 /\ SubSeq(<<n, m>>, 1, 1) = <<n>>
      BY <1>2
    <3>2. Len(<<n, m>>) - 1 = 1
      BY <3>1
    <3> QED
      BY <3>1, <3>2 DEF Parent
  <2> QED
    BY <1>2, <1>5, <2>1, <2>2, <2>3
<1> QED
  BY <1>7, <1>8, <1>9

LEMMA Beneaths ==
    /\ \A p, q \in Paths : p \in Top => (Beneath(p, q) <=> q = p \/ (q \notin Top /\ Parent(q) = p))
    /\ \A p, q \in Paths : p \notin Top => (Beneath(p, q) <=> q = p)
<1>1. ASSUME NEW p \in Top, NEW q \in Top PROVE Beneath(p, q) <=> q = p
  <2>1. Len(p) = 1 /\ Len(q) = 1 /\ SubSeq(q, 1, 1) = q
    BY PathShapes, Pairs
  <2> QED
    BY <2>1 DEF Beneath
<1>2. ASSUME NEW p \in Top, NEW q \in Paths \ Top PROVE Beneath(p, q) <=> Parent(q) = p
  <2>1. Len(p) = 1 /\ Len(q) = 2 /\ Len(q) - 1 = 1
    BY PathShapes
  <2> QED
    BY <2>1 DEF Beneath, Parent
<1>3. ASSUME NEW p \in Paths \ Top, NEW q \in Paths PROVE Beneath(p, q) <=> q = p
  <2>0. Len(p) = 2
    BY PathShapes
  <2>1. CASE q \in Top
    BY <2>0, <2>1, PathShapes DEF Beneath
  <2>2. CASE q \notin Top
    <3>1. q = <<q[1], q[2]>> /\ q[1] \in Names \cup Members /\ q[2] \in Names \cup Members /\ Len(q) = 2
      BY <2>2, PathShapes
    <3>2. SubSeq(q, 1, 2) = q
      BY <3>1, Pairs
    <3> QED
      BY <2>0, <3>1, <3>2 DEF Beneath
  <2> QED
    BY <2>1, <2>2
<1>4. \A p \in Top : p \in Paths
  BY DEF Paths
<1>5. \A p \in Top, q \in Paths \ Top : Parent(q) = p => q # p
  BY PathShapes
<1> QED
  BY <1>1, <1>2, <1>3, <1>4, <1>5

LEMMA WhatMoves ==
    ASSUME NEW p \in Paths, NEW to \in Paths, p # to, Parent(p) = Parent(to)
    PROVE  /\ p \in Top <=> to \in Top
           /\ DOMAIN Moved(p, to) = Paths
           /\ Moved(p, to)[to] = store[p] /\ Moved(p, to)[p] = None
           /\ \A q \in Paths : ~Beneath(p, q) /\ ~Beneath(to, q) => Moved(p, to)[q] = store[q]
           /\ \A q \in Paths \ Top : p \in Top /\ Parent(q) = to =>
                 Moved(p, to)[q] = store[Append(p, q[2])]
           /\ \A q \in Paths \ Top : p \in Top /\ Parent(q) = p => Moved(p, to)[q] = None
<1>1. p \in Top <=> to \in Top
  BY PathShapes
<1>2. Beneath(to, to) /\ Beneath(p, p) /\ ~Beneath(to, p)
  BY <1>1, Beneaths
<1>3. SubSeq(to, Len(to) + 1, Len(to)) = <<>> /\ p \o <<>> = p
  <2> DEFINE S == Names \cup Members
  <2>1. ASSUME NEW q \in Paths PROVE SubSeq(q, Len(q) + 1, Len(q)) = <<>> /\ q \o <<>> = q
    <3>1. CASE q \in Top
      <4>1. q = <<q[1]>> /\ q[1] \in S /\ Len(q) = 1 /\ Len(q) + 1 = 2
        BY <3>1, PathShapes
      <4> QED
        BY <4>1, Pairs
    <3>2. CASE q \notin Top
      <4>1. q = <<q[1], q[2]>> /\ q[1] \in S /\ q[2] \in S /\ Len(q) = 2
        BY <3>2, PathShapes
      <4>2. Len(q) + 1 = 3
        BY <4>1
      <4>3. SubSeq(<<q[1], q[2]>>, 3, 2) = <<>> /\ <<q[1], q[2]>> \o <<>> = <<q[1], q[2]>>
        BY <4>1, Pairs
      <4> QED
        BY <4>1, <4>2, <4>3
    <3> QED
      BY <3>1, <3>2
  <2> QED
    BY <2>1
<1>4. Moved(p, to)[to] = store[p]
  BY <1>2, <1>3 DEF Moved
<1>5. Moved(p, to)[p] = None
  BY <1>2 DEF Moved
<1>6. ASSUME NEW q \in Paths \ Top, p \in Top, Parent(q) = to
      PROVE  Moved(p, to)[q] = store[Append(p, q[2])]
  <2>1. Beneath(to, q)
    BY <1>1, <1>6, Beneaths
  <2>2. Len(to) + 1 = 2 /\ Len(q) = 2 /\ SubSeq(q, 2, 2) = <<q[2]>>
    <3>1. q = <<q[1], q[2]>> /\ q[1] \in Names \cup Members /\ q[2] \in Names \cup Members
      BY PathShapes
    <3>2. SubSeq(<<q[1], q[2]>>, 2, 2) = <<q[2]>>
      BY <3>1, EndOfTwo
    <3>3. Len(to) = 1 /\ Len(q) = 2
      BY <1>1, <1>6, PathShapes
    <3> QED
      BY <3>1, <3>2, <3>3
  <2>3. p \o SubSeq(q, Len(to) + 1, Len(q)) = Append(p, q[2]) /\ Append(p, q[2]) \in Paths
    BY <1>1, <1>6, <2>2, PathShapes
  <2> QED
    BY <2>1, <2>3 DEF Moved
<1>7. ASSUME NEW q \in Paths \ Top, p \in Top, Parent(q) = p PROVE Moved(p, to)[q] = None
  <2>1. Beneath(p, q) /\ ~Beneath(to, q)
    BY <1>1, <1>7, Beneaths
  <2> QED
    BY <2>1 DEF Moved
<1>8. \A q \in Paths : ~Beneath(p, q) /\ ~Beneath(to, q) => Moved(p, to)[q] = store[q]
  BY DEF Moved
<1>9. DOMAIN Moved(p, to) = Paths
  BY DEF Moved
<1> QED
  BY <1>1, <1>4, <1>5, <1>6, <1>7, <1>8, <1>9

-----------------------------------------------------------------------------
(* A directory on disk.                                                    *)
ShapeOf(s, hidden) ==
    /\ s \in [Paths -> LocalObjects \cup {None}]
    /\ \A p \in Paths \ Top : s[p] # None => Kind(s, Parent(p)) = "directory"
    /\ \A d \in Top : hidden[d] # {} => Kind(s, d) = "directory"

LEMMA NoObjectIsNone == None \notin LocalObjects /\ None \notin LocalCalls
BY LocalAssumption

LEMMA NewObjects ==
    /\ New("file", 2) \in LocalObjects /\ New("file", 2).kind = "file"
    /\ New("file", 2).content = 2
    /\ New("directory", 0) \in LocalObjects /\ New("directory", 0).kind = "directory"
    /\ Writable(New("file", 2).mode) /\ Writable(New("directory", 0).mode)
    /\ Objects \subseteq LocalObjects
BY DEF New, LocalObjects, AllBits, Writable, Objects

LEMMA KindOfPut ==
    ASSUME NEW hidden, ShapeOf(store, hidden), NEW p \in Paths,
           NEW object \in LocalObjects \cup {None}
    PROVE  /\ Put(p, object) \in [Paths -> LocalObjects \cup {None}]
           /\ Put(p, object)[p] = object
           /\ \A q \in Paths \ {p} : Put(p, object)[q] = store[q]
           /\ \A q \in Paths \ {p} : Kind(Put(p, object), q) = Kind(store, q)
           /\ Kind(Put(p, object), p) = IF object = None THEN "none" ELSE object.kind
<1>1. Root \notin Paths
  BY PathShapes DEF Paths
<1> QED
  BY <1>1 DEF ShapeOf, Put, Kind

\* Nothing is in what is no directory.
LEMMA OnlyDirectoriesHaveMembers ==
    ASSUME ShapeOf(store, temps), NEW p \in Top, Kind(store, p) # "directory"
    PROVE  ~HasMembers(p)
<1>1. \A q \in Paths : Parent(q) = p => q \in Paths \ Top
  BY PathShapes
<1> QED
  BY <1>1 DEF ShapeOf, HasMembers

LEMMA PutKeepsShape ==
    ASSUME ShapeOf(store, temps), NEW p \in Paths, NEW object \in LocalObjects \cup {None},
           p \notin Top => Kind(store, Parent(p)) = "directory" \/ object = None,
           p \in Top => (object # None /\ object.kind = "directory") \/ ~HasMembers(p)
    PROVE  ShapeOf(Put(p, object), temps)
<1> DEFINE s == Put(p, object)
<1>1. /\ s \in [Paths -> LocalObjects \cup {None}]
      /\ s[p] = object
      /\ \A q \in Paths \ {p} : s[q] = store[q] /\ Kind(s, q) = Kind(store, q)
      /\ Kind(s, p) = IF object = None THEN "none" ELSE object.kind
  BY KindOfPut
<1> HIDE DEF s
<1>2. ASSUME NEW q \in Paths \ Top, s[q] # None PROVE Kind(s, Parent(q)) = "directory"
  <2>1. Parent(q) \in Top /\ Top \subseteq Paths
    BY PathShapes DEF Paths
  <2>2. CASE Parent(q) = p
    <3>1. q # p /\ store[q] # None
      BY <1>1, <1>2, <2>1, <2>2
    <3>2. HasMembers(p)
      BY <2>2, <3>1 DEF HasMembers
    <3> QED
      BY <1>1, <2>1, <2>2, <3>2
  <2>3. CASE Parent(q) # p /\ q = p
    <3>1. Kind(store, Parent(q)) = "directory"
      BY <1>1, <1>2, <2>3
    <3> QED
      BY <1>1, <2>1, <2>3, <3>1
  <2>4. CASE Parent(q) # p /\ q # p
    <3>1. Kind(store, Parent(q)) = "directory"
      BY <1>1, <1>2, <2>4 DEF ShapeOf
    <3> QED
      BY <1>1, <2>1, <2>4, <3>1
  <2> QED
    BY <2>2, <2>3, <2>4
<1>3. ASSUME NEW d \in Top, temps[d] # {} PROVE Kind(s, d) = "directory"
  <2>1. d \in Paths /\ Kind(store, d) = "directory"
    BY <1>3 DEF ShapeOf, Paths
  <2>2. CASE d = p
    BY <1>1, <1>3, <2>2 DEF HasMembers
  <2> QED
    BY <1>1, <2>1, <2>2
<1> QED
  BY <1>1, <1>2, <1>3 DEF ShapeOf, s

LEMMA FewerHidden ==
    ASSUME NEW s, NEW h, NEW h2, ShapeOf(s, h), \A d \in Top : h2[d] # {} => h[d] # {}
    PROVE  ShapeOf(s, h2)
BY DEF ShapeOf

\* A path is what it was where its object is.
LEMMA SameKind ==
    ASSUME NEW s, NEW t, NEW p \in Paths, NEW q \in Paths, t[q] = s[p]
    PROVE  Kind(t, q) = Kind(s, p)
<1>1. Root \notin Paths
  BY PathShapes DEF Paths
<1> QED
  BY <1>1 DEF Kind

LEMMA MoveKeepsShape ==
    ASSUME ShapeOf(store, temps), temps \in [Directories -> SUBSET (Clients \cup {None})],
           NEW p \in Paths, NEW to \in Paths, p # to, Parent(p) = Parent(to)
    PROVE  ShapeOf(Moved(p, to),
                   IF p \in Top THEN [temps EXCEPT ![to] = temps[p], ![p] = {}] ELSE temps)
<1> DEFINE s == Moved(p, to)
           hidden == IF p \in Top THEN [temps EXCEPT ![to] = temps[p], ![p] = {}] ELSE temps
<1>0. Top \subseteq Paths /\ Top \subseteq Directories
  BY DEF Paths, Directories
<1>1. s \in [Paths -> LocalObjects \cup {None}]
  BY DEF Moved, ShapeOf
<1>2. /\ p \in Top <=> to \in Top
      /\ s[to] = store[p] /\ s[p] = None
      /\ \A q \in Paths : ~Beneath(p, q) /\ ~Beneath(to, q) => s[q] = store[q]
      /\ \A q \in Paths \ Top : p \in Top /\ Parent(q) = to => s[q] = store[Append(p, q[2])]
      /\ \A q \in Paths \ Top : p \in Top /\ Parent(q) = p => s[q] = None
  BY WhatMoves
<1>3. Kind(s, to) = Kind(store, p)
  BY <1>2, SameKind
<1> HIDE DEF s
\* Whatever else is in the directory stays.
<1>4. \A d \in Top \ {p, to} : s[d] = store[d] /\ Kind(s, d) = Kind(store, d)
  <2> TAKE d \in Top \ {p, to}
  <2>1. ~Beneath(p, d) /\ ~Beneath(to, d)
    BY <1>0, Beneaths
  <2> QED
    BY <1>0, <1>2, <2>1, SameKind
<1>5. ASSUME NEW q \in Paths \ Top, s[q] # None PROVE Kind(s, Parent(q)) = "directory"
  <2>1. Parent(q) \in Top
    BY PathShapes
  <2>2. CASE p \in Top /\ Parent(q) = to
    <3>1. store[Append(p, q[2])] # None
      BY <1>2, <1>5, <2>2
    <3>2. Append(p, q[2]) \in Paths \ Top /\ Parent(Append(p, q[2])) = p
      BY <2>2, PathShapes
    <3> QED
      BY <1>3, <2>2, <3>1, <3>2 DEF ShapeOf
  <2>3. CASE p \in Top /\ Parent(q) = p
    BY <1>2, <1>5, <2>3
  <2>4. CASE p \in Top /\ Parent(q) \notin {p, to}
    <3>1. ~Beneath(p, q) /\ ~Beneath(to, q)
      BY <1>2, <2>4, Beneaths
    <3>2. Kind(store, Parent(q)) = "directory"
      BY <1>2, <1>5, <3>1 DEF ShapeOf
    <3> QED
      BY <1>4, <2>1, <2>4, <3>2
  <2>5. CASE p \notin Top
    <3>1. q # p /\ Parent(q) \notin {p, to}
      BY <1>2, <1>5, <2>1, <2>5
    <3>2. Kind(store, Parent(q)) = "directory"
      <4>1. CASE q = to
        BY <1>2, <1>5, <2>5, <4>1 DEF ShapeOf
      <4>2. CASE q # to
        <5>1. ~Beneath(p, q) /\ ~Beneath(to, q)
          BY <1>2, <2>5, <3>1, <4>2, Beneaths
        <5> QED
          BY <1>2, <1>5, <5>1 DEF ShapeOf
      <4> QED
        BY <4>1, <4>2
    <3> QED
      BY <1>4, <2>1, <3>1, <3>2
  <2> QED
    BY <2>2, <2>3, <2>4, <2>5
<1>6. ASSUME NEW d \in Top, hidden[d] # {} PROVE Kind(s, d) = "directory"
  <2>1. CASE p \in Top /\ d = to
    <3>1. temps[p] # {}
      BY <1>0, <1>6, <2>1
    <3> QED
      BY <1>3, <2>1, <3>1 DEF ShapeOf
  <2>2. CASE p \in Top /\ d = p
    BY <1>0, <1>6, <2>2
  <2>3. CASE d \notin {p, to}
    <3>1. temps[d] # {}
      BY <1>0, <1>6, <2>3
    <3> QED
      BY <1>4, <2>3, <3>1 DEF ShapeOf
  <2> QED
    BY <1>2, <2>1, <2>2, <2>3
<1> HIDE DEF hidden
<1>7. ShapeOf(s, hidden)
  BY <1>1, <1>5, <1>6 DEF ShapeOf
<1> QED
  BY <1>7 DEF s, hidden

-----------------------------------------------------------------------------
(* Calls on disk.                                                          *)
\* A directory nothing may be changed in.
Protected(p) == p \in Top /\ Kind(store, p) = "directory" /\ ~Writable(Mode(p))

\* What a call is for, by the request it makes next, and what it was found to
\* be permitted.
Suits(k) ==
    /\ k \in LocalCalls /\ k.path \in Paths /\ k.to \in Paths
    /\ k.request \in {"statNew", "create", "publish"} => k.op = "put"
    /\ k.request = "mkdir" => k.op = "mkdir" /\ k.path \in Top
    /\ k.request = "stat" => k.op \in {"remove", "rename"}
    /\ k.request = "unlink" => k.op = "remove"
    /\ k.request \in {"statTarget", "rename"} => k.op = "rename"
    /\ k.op = "rename" => k.to # k.path /\ Parent(k.to) = Parent(k.path)
    /\ Writable(setup.granted)
    /\ ~Protected(Parent(k.path))
    /\ k.request \in {"statTarget", "rename"} => ~Protected(k.path)
    /\ k.request = "rename" => ~Protected(k.to)

DiskInv ==
    ~InS3 => /\ ShapeOf(store, temps)
             /\ \A c \in Clients : call[c] # None => Suits(call[c])

\* Steps that change neither the store nor a directory.
Looks(c) ==
    \/ StartsCreate(c) \/ StartsMkdir(c) \/ StartsRemove(c) \/ StartsRename(c)
    \/ StatsNew(c) \/ PermitsChange(c) \/ StatsTarget(c)

LEMMA LooksAtMost ==
    ASSUME NEW c \in Clients, Looks(c) PROVE store' = store /\ UNCHANGED localVars
BY DEF Looks, StartsCreate, StartsMkdir, StartsRemove, StartsRename, Given, Begin,
       StatsNew, PermitsChange, StatsTarget, Same, Stays, Becomes

\* What a call that is about to change the store has of it.
LEMMA SuitsItsCall ==
    ASSUME DiskInv, ~InS3, NEW c \in Clients, NEW r, Makes(c, r)
    PROVE  Suits(call[c]) /\ call[c].request = r /\ call[c].path \in Paths /\ call[c].to \in Paths
BY DEF DiskInv, Makes, Suits

LEMMA ParentOfAPath == \A p \in Paths : p \notin Top => Parent(p) \in Top
BY PathShapes

LEMMA ShapeStep ==
    ASSUME HiddenInv, DiskInv, ~InS3, [Next]_vars PROVE ShapeOf(store, temps)'
<1>0. /\ ShapeOf(store, temps) /\ temps \in [Directories -> SUBSET (Clients \cup {None})]
      /\ Top \subseteq Paths /\ Top \subseteq Directories
  BY DEF DiskInv, HiddenInv, Paths, Directories
\* The store stays, or one path is written, and no directory hides a file that
\* hid none.
<1>1. ASSUME \A d \in Top : temps'[d] # {} => temps[d] # {},
             store' = store
      PROVE  ShapeOf(store, temps)'
  BY <1>0, <1>1, FewerHidden
<1>2. ASSUME \A d \in Top : temps'[d] # {} => temps[d] # {},
             NEW p \in Paths, NEW object \in LocalObjects \cup {None},
             store' = Put(p, object),
             p \notin Top => Kind(store, Parent(p)) = "directory" \/ object = None,
             p \in Top => (object # None /\ object.kind = "directory") \/ ~HasMembers(p)
      PROVE  ShapeOf(store, temps)'
  <2>1. ShapeOf(Put(p, object), temps)
    BY <1>0, <1>2, PutKeepsShape
  <2>2. ShapeOf(Put(p, object), temps')
    BY <1>2, <2>1, FewerHidden
  <2> QED
    BY <1>2, <2>2
<1>3. ASSUME NEW c \in Clients, Looks(c) PROVE ShapeOf(store, temps)'
  BY <1>1, <1>3, LooksAtMost DEF localVars, histories
<1>4. ASSUME NEW c \in Clients, Creates(c) PROVE ShapeOf(store, temps)'
  <2> DEFINE d == Parent(call[c].path)
  <2>1. store' = store
    BY <1>4 DEF Creates, Stays, Becomes
  <2>2. CASE temps' = temps
    BY <1>1, <2>1, <2>2
  <2>3. CASE Kind(store, d) = "directory" /\ temps' = [temps EXCEPT ![d] = @ \cup {c}]
    <3>1. \A e \in Top : temps'[e] # {} => Kind(store, e) = "directory"
      BY <1>0, <2>3 DEF ShapeOf
    <3> QED
      BY <1>0, <2>1, <3>1 DEF ShapeOf
  <2> QED
    BY <1>4, <2>2, <2>3 DEF Creates
<1>5. ASSUME NEW c \in Clients, Publishes(c) PROVE ShapeOf(store, temps)'
  <2> DEFINE p == call[c].path
  <2>1. p \in Paths
    BY <1>5, SuitsItsCall DEF Publishes
  <2>2. \A d \in Top : temps'[d] # {} => temps[d] # {}
    BY <1>0, <1>5 DEF Publishes, Gone
  <2>3. CASE c \in temps[Parent(p)] /\ Kind(store, p) # "directory" /\ store' = Put(p, New("file", 2))
    <3>1. p \in Top => ~HasMembers(p)
      BY <1>0, <2>3, OnlyDirectoriesHaveMembers
    <3>2. p \notin Top => Kind(store, Parent(p)) = "directory"
      BY <1>0, <2>1, <2>3, ParentOfAPath DEF ShapeOf
    <3> QED
      BY <1>2, <2>1, <2>2, <2>3, <3>1, <3>2, NewObjects
  <2> QED
    BY <1>1, <1>5, <2>2, <2>3 DEF Publishes, Stays, Becomes
<1>6. ASSUME NEW c \in Clients, MakesDirectory(c) PROVE ShapeOf(store, temps)'
  <2> DEFINE p == call[c].path
  <2>1. p \in Paths /\ temps' = temps
    BY <1>6, SuitsItsCall DEF MakesDirectory, StoreOnly, Same, localVars, histories
  <2>2. CASE Kind(store, Parent(p)) = "directory" /\ store' = Put(p, New("directory", 0))
    BY <1>2, <2>1, <2>2, NewObjects, NoObjectIsNone
  <2> QED
    BY <1>1, <1>6, <2>1, <2>2 DEF MakesDirectory, StoreOnly, Same, Stays, Becomes
<1>7. ASSUME NEW c \in Clients, Unlinks(c) PROVE ShapeOf(store, temps)'
  <2> DEFINE p == call[c].path
  <2>1. p \in Paths /\ temps' = temps
    BY <1>7, SuitsItsCall DEF Unlinks, StoreOnly, Same, localVars, histories
  <2>2. CASE ~(Kind(store, p) = "directory" /\ HasMembers(p)) /\ store' = Put(p, None)
    <3>1. p \in Top => ~HasMembers(p)
      BY <1>0, <2>2, OnlyDirectoriesHaveMembers
    <3> QED
      BY <1>2, <2>1, <2>2, <3>1
  <2> QED
    BY <1>1, <1>7, <2>1, <2>2 DEF Unlinks, StoreOnly, Same, Stays, Becomes
<1>8. ASSUME NEW c \in Clients, Renames(c) PROVE ShapeOf(store, temps)'
  <2> DEFINE p == call[c].path
             to == call[c].to
  <2>1. p \in Paths /\ to \in Paths /\ p # to /\ Parent(p) = Parent(to)
    BY <1>8, SuitsItsCall DEF Renames, Suits
  <2>2. CASE store' = store /\ temps' = temps
    BY <1>1, <2>2
  <2>3. CASE /\ store' = Moved(p, to)
             /\ temps' = IF p \in Top THEN [temps EXCEPT ![to] = temps[p], ![p] = {}] ELSE temps
    <3>1. ShapeOf(Moved(p, to),
                  IF p \in Top THEN [temps EXCEPT ![to] = temps[p], ![p] = {}] ELSE temps)
      BY <1>0, <2>1, MoveKeepsShape
    <3> QED
      BY <2>3, <3>1
  <2> QED
    BY <1>8, <2>2, <2>3 DEF Renames, Same, Stays, Becomes, localVars, histories
<1>9. CASE Crashes
  BY <1>0, <1>1, <1>9 DEF Crashes
<1>10. CASE SomeoneLocal
  <2>1. PICK p \in Paths, object \in {o \in Objects : o.kind = "file"} \cup {None} :
          /\ Kind(store, Parent(p)) = "directory" /\ Kind(store, p) # "directory"
          /\ store' = Put(p, object)
    BY <1>10 DEF SomeoneLocal, FromOutside
  <2>2. temps' = temps
    BY <1>10 DEF SomeoneLocal, localVars, histories
  <2>3. p \in Top => ~HasMembers(p)
    BY <1>0, <2>1, OnlyDirectoriesHaveMembers
  <2> QED
    BY <1>2, <2>1, <2>2, <2>3, NewObjects
<1>11. CASE UNCHANGED vars
  BY <1>1, <1>11 DEF vars, localVars, histories
<1>12. ASSUME NEW c \in Clients, LeavesBehind(c) PROVE ShapeOf(store, temps)'
  BY <1>0, <1>1, <1>12 DEF LeavesBehind, Stays, Becomes
<1> QED
  BY <1>3, <1>4, <1>5, <1>6, <1>7, <1>8, <1>9, <1>10, <1>11, <1>12 DEF Next, LocalStep, Looks

(* No directory becomes protected: what may not be changed was there from  *)
(* the start, and stays where it was.                                      *)
LEMMA PutProtectsNothing ==
    ASSUME DiskInv, ~InS3, NEW p \in Paths, NEW object \in LocalObjects \cup {None},
           object # None => object.kind = "file" \/ Writable(object.mode),
           store' = Put(p, object),
           NEW d, Protected(d)'
    PROVE  Protected(d)
<1>1. ShapeOf(store, temps)
  BY DEF DiskInv
<1>2. d \in Top /\ d \in Paths /\ Root \notin Paths /\ Kind(store', d) = "directory"
  BY PathShapes DEF Protected, Paths
<1>3. CASE d = p
  BY <1>1, <1>2, <1>3, KindOfPut DEF Protected, Kind, Mode
<1>4. CASE d # p
  <2>1. store'[d] = store[d] /\ Kind(store', d) = Kind(store, d)
    BY <1>1, <1>2, <1>4, KindOfPut
  <2> QED
    BY <1>2, <2>1 DEF Protected, Mode
<1> QED
  BY <1>3, <1>4

LEMMA ProtectsNothing ==
    ASSUME DiskInv, ~InS3, [Next]_vars, NEW d, Protected(d)'
    PROVE  Protected(d)
<1>1. CASE store' = store
  BY <1>1 DEF Protected, Kind, Mode
<1>2. ASSUME NEW c \in Clients, Publishes(c) PROVE Protected(d)
  <2>1. call[c].path \in Paths
    BY <1>2, SuitsItsCall DEF Publishes
  <2>2. store' = store \/ store' = Put(call[c].path, New("file", 2))
    BY <1>2 DEF Publishes, Stays, Becomes
  <2> QED
    BY <1>1, <2>1, <2>2, NewObjects, PutProtectsNothing
<1>3. ASSUME NEW c \in Clients, MakesDirectory(c) PROVE Protected(d)
  <2>1. call[c].path \in Paths
    BY <1>3, SuitsItsCall DEF MakesDirectory
  <2>2. store' = store \/ store' = Put(call[c].path, New("directory", 0))
    BY <1>3 DEF MakesDirectory, StoreOnly, Same, Stays, Becomes
  <2> QED
    BY <1>1, <2>1, <2>2, NewObjects, PutProtectsNothing
<1>4. ASSUME NEW c \in Clients, Unlinks(c) PROVE Protected(d)
  <2>1. call[c].path \in Paths
    BY <1>4, SuitsItsCall DEF Unlinks
  <2>2. store' = store \/ store' = Put(call[c].path, None)
    BY <1>4 DEF Unlinks, StoreOnly, Same, Stays, Becomes
  <2> QED
    BY <1>1, <2>1, <2>2, PutProtectsNothing
<1>5. ASSUME NEW c \in Clients, Renames(c) PROVE Protected(d)
  <2> DEFINE p == call[c].path
             to == call[c].to
  <2>0. p \in Paths /\ to \in Paths /\ p # to /\ Parent(p) = Parent(to) /\ ~Protected(p)
    BY <1>5, SuitsItsCall DEF Renames, Suits
  <2>1. store' = store \/ store' = Moved(p, to)
    BY <1>5 DEF Renames, Same, Stays, Becomes
  <2>2. CASE store' = Moved(p, to)
    <3>1. /\ p \in Top <=> to \in Top
          /\ store'[to] = store[p] /\ store'[p] = None
          /\ \A q \in Paths : ~Beneath(p, q) /\ ~Beneath(to, q) => store'[q] = store[q]
      BY <2>0, <2>2, WhatMoves
    <3>2. d \in Top /\ d \in Paths /\ Root \notin Paths
      BY PathShapes DEF Protected, Paths
    <3>3. d = p \/ d = to \/ store'[d] = store[d]
      BY <2>0, <3>1, <3>2, Beneaths
    <3>4. d # p
      BY <3>1, <3>2 DEF Protected, Kind
    <3>5. d # to
      BY <2>0, <3>1, <3>2 DEF Protected, Kind, Mode
    <3> QED
      BY <3>2, <3>3, <3>4, <3>5 DEF Protected, Kind, Mode
  <2> QED
    BY <1>1, <2>1, <2>2
<1>6. CASE SomeoneLocal
  <2>1. PICK p \in Paths, object \in {o \in Objects : o.kind = "file"} \cup {None} :
          store' = Put(p, object)
    BY <1>6 DEF SomeoneLocal, FromOutside
  <2> QED
    BY <2>1, NewObjects, PutProtectsNothing
<1>7. ASSUME NEW c \in Clients, Looks(c) \/ Creates(c) \/ LeavesBehind(c)
      PROVE  store' = store
  BY <1>7, LooksAtMost DEF Creates, LeavesBehind, Stays, Becomes
<1>8. Crashes \/ UNCHANGED vars => store' = store
  BY DEF Crashes, vars
<1> QED
  BY <1>1, <1>2, <1>3, <1>4, <1>5, <1>6, <1>7, <1>8 DEF Next, LocalStep, Looks

(* Calls.                                                                  *)
LEMMA SuitsStill ==
    ASSUME DiskInv, ~InS3, [Next]_vars, NEW k, Suits(k)
    PROVE  Suits(k)'
<1>1. setup' = setup /\ \A d : Protected(d)' => Protected(d)
  BY SetupStays, ProtectsNothing
<1>2. /\ ~Protected(Parent(k.path))'
      /\ k.request \in {"statTarget", "rename"} => ~Protected(k.path)'
      /\ k.request = "rename" => ~Protected(k.to)'
  BY <1>1 DEF Suits
<1> HIDE DEF Protected
<1> QED
  BY <1>1, <1>2 DEF Suits, Writable

LEMMA ChangeableIsWritable ==
    ASSUME NEW p \in Changeable
    PROVE  p \in Paths /\ Writable(setup.granted) /\ ~Protected(Parent(p))
<1>1. p \in Paths /\ "w" \in Mask(p)
  BY DEF Changeable, Writable
<1>2. "w" \in MaskOf(Parent(p))
  BY <1>1 DEF Mask, ChildMask
<1>3. Parent(p) \in Top => Parent(p) # Root
  BY PathShapes
<1> QED
  BY <1>1, <1>2, <1>3 DEF MaskOf, ChildMask, Protected, Writable

LEMMA SuitsThen ==
    ASSUME NEW e, NEW k, Suits(k)', call'[e] = k
    PROVE  Suits(call[e])'
BY DEF Suits, Protected, Kind, Mode, Writable

LEMMA SuitsStep ==
    ASSUME HiddenInv, DiskInv, ~InS3, [Next]_vars, NEW e \in Clients, call'[e] # None
    PROVE  Suits(call[e])'
<1>0. /\ call \in [Clients -> LocalCalls \cup {None}]
      /\ \A c \in Clients : call[c] # None => Suits(call[c])
  BY DEF HiddenInv, DiskInv
<1>1. CASE call'[e] = call[e]
  <2>1. PICK k : k = call[e]
    OBVIOUS
  <2>2. Suits(k)'
    BY <1>0, <1>1, <2>1, SuitsStill
  <2> QED
    BY <1>1, <2>1, <2>2, SuitsThen
<1>2. ASSUME NEW c \in Clients, NEW p \in Changeable, NEW to \in Paths,
             NEW op \in Operations, NEW r \in LocalRequests,
             Given(c, op, p, to, r),
             r \in {"statNew", "mkdir", "stat"},
             (r = "statNew" => op = "put"), (r = "mkdir" => op = "mkdir" /\ p \in Top),
             (r = "stat" => op \in {"remove", "rename"}),
             (op = "rename" => to # p /\ Parent(to) = Parent(p))
      PROVE  Suits(call[e])'
  <2>0. PICK k : k = [op |-> op, path |-> p, to |-> to, mask |-> Mask(p), request |-> r]
    OBVIOUS
  <2>1. call' = [call EXCEPT ![c] = k]
    BY <1>2, <2>0 DEF Given, Begin
  <2>2. k \in LocalCalls
    BY <2>0, MasksAreMasks, ChangeableIsWritable DEF LocalCalls
  <2>3. Suits(k)
    BY <1>2, <2>0, <2>2, ChangeableIsWritable DEF Suits
  <2>4. Suits(k)'
    BY <2>3, SuitsStill
  <2>5. CASE e = c
    <3>1. call'[e] = k
      BY <1>0, <2>1, <2>5
    <3> QED
      BY <2>4, <3>1, SuitsThen
  <2>6. CASE e # c
    BY <1>0, <1>1, <2>1, <2>6
  <2> QED
    BY <2>5, <2>6
\* The next request of a call, and its end.
<1>3. ASSUME NEW c \in Clients, call[c] # None, NEW r \in LocalRequests, Goes(c, r),
             (r \in {"create", "publish"} => call[c].op = "put"),
             (r = "unlink" => call[c].op = "remove"),
             (r \in {"statTarget", "rename"} => call[c].op = "rename" /\ ~Protected(call[c].path)),
             (r = "rename" => ~Protected(call[c].to)),
             r \in {"create", "publish", "unlink", "statTarget", "rename"}
      PROVE  Suits(call[e])'
  <2>0. PICK k : k = [call[c] EXCEPT !.request = r]
    OBVIOUS
  <2>1. call' = [call EXCEPT ![c] = k]
    BY <1>3, <2>0 DEF Goes
  <2>2. Suits(call[c])
    BY <1>0, <1>3
  <2>3. /\ k \in LocalCalls
        /\ k.op = call[c].op /\ k.path = call[c].path /\ k.to = call[c].to /\ k.request = r
    BY <2>0, <2>2 DEF Suits, LocalCalls
  <2>4. Suits(k)
    BY <1>3, <2>2, <2>3 DEF Suits
  <2>5. Suits(k)'
    BY <2>4, SuitsStill
  <2>6. CASE e = c
    <3>1. call'[e] = k
      BY <1>0, <2>1, <2>6
    <3> QED
      BY <2>5, <3>1, SuitsThen
  <2>7. CASE e # c
    BY <1>0, <1>1, <2>1, <2>7
  <2> QED
    BY <2>6, <2>7
<1>4. ASSUME NEW c \in Clients, call' = [call EXCEPT ![c] = None] PROVE Suits(call[e])'
  BY <1>0, <1>1, <1>4
<1>5. ASSUME NEW c \in Clients,
             StartsCreate(c) \/ StartsMkdir(c) \/ StartsRemove(c) \/ StartsRename(c)
      PROVE  Suits(call[e])'
  <2>0. /\ {"put", "mkdir", "remove", "rename"} \subseteq Operations
        /\ {"statNew", "mkdir", "stat"} \subseteq LocalRequests
    BY DEF Operations, LocalRequests
  <2>1. CASE StartsCreate(c)
    <3>1. PICK p \in Changeable : Given(c, "put", p, p, "statNew")
      BY <2>1 DEF StartsCreate
    <3> QED
      BY <1>2, <2>0, <3>1, ChangeableIsWritable
  <2>2. CASE StartsMkdir(c)
    <3>1. PICK p \in Changeable \cap Top : Given(c, "mkdir", p, p, "mkdir")
      BY <2>2 DEF StartsMkdir
    <3> QED
      BY <1>2, <2>0, <3>1, ChangeableIsWritable
  <2>3. CASE StartsRemove(c)
    <3>1. PICK p \in Changeable : Given(c, "remove", p, p, "stat")
      BY <2>3 DEF StartsRemove
    <3> QED
      BY <1>2, <2>0, <3>1, ChangeableIsWritable
  <2>4. CASE StartsRename(c)
    <3>1. PICK p \in Changeable, to \in Paths :
            to # p /\ Parent(p) = Parent(to) /\ Given(c, "rename", p, to, "stat")
      BY <2>4 DEF StartsRename
    <3> QED
      BY <1>2, <2>0, <3>1
  <2> QED
    BY <1>5, <2>1, <2>2, <2>3, <2>4
<1>6. {"create", "publish", "unlink", "statTarget", "rename"} \subseteq LocalRequests
  BY DEF LocalRequests
<1>7. ASSUME NEW c \in Clients, StatsNew(c) PROVE Suits(call[e])'
  <2>1. call[c] # None /\ call[c].op = "put"
    BY <1>7, SuitsItsCall DEF StatsNew, Makes, Suits
  <2>2. CASE Goes(c, "create")
    BY <1>3, <1>6, <2>1, <2>2
  <2> QED
    BY <1>4, <1>7, <2>2 DEF StatsNew, Returns
<1>8. ASSUME NEW c \in Clients, Creates(c) PROVE Suits(call[e])'
  <2>1. call[c] # None /\ call[c].op = "put"
    BY <1>8, SuitsItsCall DEF Creates, Makes, Suits
  <2>2. CASE Goes(c, "publish")
    BY <1>3, <1>6, <2>1, <2>2
  <2> QED
    BY <1>4, <1>8, <2>2 DEF Creates, Returns
<1>9. ASSUME NEW c \in Clients, PermitsChange(c) PROVE Suits(call[e])'
  <2> DEFINE p == call[c].path
  <2>1. call[c] # None /\ call[c].op \in {"remove", "rename"}
    BY <1>9, SuitsItsCall DEF PermitsChange, Makes, Suits
  <2>2. CASE call[c].op = "remove" /\ Goes(c, "unlink")
    BY <1>3, <1>6, <2>1, <2>2
  <2>3. CASE call[c].op = "rename" /\ MayWrite(c, p) /\ Goes(c, "statTarget")
    <3>1. ~Protected(p)
      BY <2>3 DEF MayWrite, Writable, Protected
    <3> QED
      BY <1>3, <1>6, <2>1, <2>3, <3>1
  <2>4. CASE \E how : Returns(c, how)
    BY <1>4, <2>4 DEF Returns
  <2> QED
    BY <1>9, <2>1, <2>2, <2>3, <2>4 DEF PermitsChange
<1>10. ASSUME NEW c \in Clients, StatsTarget(c) PROVE Suits(call[e])'
  <2>1. call[c] # None /\ Suits(call[c]) /\ call[c].request = "statTarget"
    BY <1>10, SuitsItsCall DEF StatsTarget, Makes
  <2>2. CASE store[call[c].to] = None /\ Goes(c, "rename")
    <3>1. ~Protected(call[c].to)
      BY <2>2, PathShapes DEF Protected, Kind
    <3>2. call[c].op = "rename" /\ ~Protected(call[c].path)
      BY <2>1 DEF Suits
    <3> QED
      BY <1>3, <1>6, <2>1, <2>2, <3>1, <3>2
  <2> QED
    BY <1>4, <1>10, <2>2 DEF StatsTarget, Returns
<1>11. ASSUME NEW c \in Clients,
              \/ Publishes(c) \/ LeavesBehind(c) \/ MakesDirectory(c)
              \/ Unlinks(c) \/ Renames(c)
       PROVE  Suits(call[e])'
  BY <1>4, <1>11 DEF Publishes, LeavesBehind, MakesDirectory, Unlinks, Renames, Returns
<1>12. CASE Crashes
  BY <1>12 DEF Crashes
<1>13. CASE SomeoneLocal \/ UNCHANGED vars
  BY <1>1, <1>13 DEF SomeoneLocal, FromOutside, vars, callVars
<1> QED
  BY <1>5, <1>7, <1>8, <1>9, <1>10, <1>11, <1>12, <1>13 DEF Next, LocalStep

LEMMA DiskInvariant == Spec => [](HiddenInv /\ DiskInv)
<1>1. Init => HiddenInv /\ DiskInv
  <2> SUFFICES ASSUME Init PROVE HiddenInv /\ DiskInv
    OBVIOUS
  <2>1. HiddenInv
    BY DEF Init, CallsInit, LocalInit, HiddenInv
  <2>2. ASSUME ~InS3 PROVE DiskInv
    <3>1. call = [c \in Clients |-> None] /\ temps = [d \in Directories |-> {}]
      BY <2>2 DEF Init, CallsInit, LocalInit
    <3>2. /\ store \in [Paths -> Objects \cup {None}]
          /\ \A p \in Paths \ Top : store[p] # None => Kind(store, Parent(p)) = "directory"
      BY <2>2 DEF Init, LocalInit
    <3>3. ShapeOf(store, temps)
      BY <3>1, <3>2, NewObjects DEF ShapeOf, Directories
    <3> QED
      BY <3>1, <3>3 DEF DiskInv
  <2> QED
    BY <2>1, <2>2 DEF DiskInv
<1>2. HiddenInv /\ DiskInv /\ [Next]_vars => (HiddenInv /\ DiskInv)'
  <2> SUFFICES ASSUME HiddenInv, DiskInv, [Next]_vars PROVE (HiddenInv /\ DiskInv)'
    OBVIOUS
  <2>1. HiddenInv'
    BY HiddenStep
  <2>2. ASSUME ~InS3'
        PROVE  ShapeOf(store, temps)' /\ \A c \in Clients : call'[c] # None => Suits(call[c])'
    <3>1. ~InS3
      BY <2>2, SetupStays DEF InS3
    <3> QED
      BY <3>1, ShapeStep, SuitsStep
  <2>3. DiskInv'
    BY <2>2 DEF DiskInv
  <2> QED
    BY <2>1, <2>3
<1> QED
  BY <1>1, <1>2, PTL DEF Spec

-----------------------------------------------------------------------------
(* What a local step does to the store.                                    *)
LEMMA MembersAreIn ==
    ASSUME ShapeOf(store, temps), NEW q \in Paths, Parent(q) # Root,
           Kind(store, Parent(q)) = "directory", ~Protected(Parent(q))
    PROVE  store[Parent(q)] = None \/ Writable(store[Parent(q)].mode)
<1>1. Parent(q) \in Top
  BY PathShapes
<1> QED
  BY <1>1 DEF Protected, Mode

LEMMA DiskReadOnly ==
    ASSUME HiddenInv, DiskInv, ~InS3, LocalStep, outside \in Nat, ByProxy
    PROVE  /\ Writable(setup.granted)
           /\ \A q \in Paths : store[q] # store'[q] /\ Parent(q) # Root =>
                 store[Parent(q)] = None \/ Writable(store[Parent(q)].mode)
<1>0. ShapeOf(store, temps) /\ store' # store /\ outside' = outside
  BY DEF DiskInv, ByProxy
<1> DEFINE Goal == /\ Writable(setup.granted)
                   /\ \A q \in Paths : store[q] # store'[q] /\ Parent(q) # Root =>
                         store[Parent(q)] = None \/ Writable(store[Parent(q)].mode)
<1>1. ASSUME NEW c \in Clients, Suits(call[c]), NEW object \in LocalObjects \cup {None},
             store' = Put(call[c].path, object),
             call[c].path \notin Top => Kind(store, Parent(call[c].path)) = "directory"
      PROVE  Goal
  <2>1. call[c].path \in Paths /\ Writable(setup.granted) /\ ~Protected(Parent(call[c].path))
    BY <1>1 DEF Suits
  <2>2. ASSUME NEW q \in Paths, store[q] # store'[q], Parent(q) # Root
        PROVE  store[Parent(q)] = None \/ Writable(store[Parent(q)].mode)
    <3>1. q = call[c].path
      BY <1>0, <1>1, <2>1, <2>2, KindOfPut
    <3>2. q \notin Top
      BY <2>2, PathShapes
    <3> QED
      BY <1>0, <1>1, <2>1, <2>2, <3>1, <3>2, MembersAreIn
  <2> QED
    BY <2>1, <2>2
<1>2. ASSUME NEW c \in Clients, Publishes(c) PROVE Goal
  <2> DEFINE p == call[c].path
  <2>1. Suits(call[c]) /\ p \in Paths
    BY <1>2, SuitsItsCall DEF Publishes
  <2>2. c \in temps[Parent(p)] /\ store' = Put(p, New("file", 2))
    BY <1>0, <1>2 DEF Publishes, Stays, Becomes
  <2>3. p \notin Top => Kind(store, Parent(p)) = "directory"
    BY <1>0, <2>1, <2>2, ParentOfAPath DEF ShapeOf
  <2> QED
    BY <1>1, <2>1, <2>2, <2>3, NewObjects
<1>3. ASSUME NEW c \in Clients, MakesDirectory(c) PROVE Goal
  <2> DEFINE p == call[c].path
  <2>1. Suits(call[c]) /\ p \in Paths
    BY <1>3, SuitsItsCall DEF MakesDirectory
  <2>2. Kind(store, Parent(p)) = "directory" /\ store' = Put(p, New("directory", 0))
    BY <1>0, <1>3 DEF MakesDirectory, StoreOnly, Same, Stays, Becomes
  <2> QED
    BY <1>1, <2>1, <2>2, NewObjects
<1>4. ASSUME NEW c \in Clients, Unlinks(c) PROVE Goal
  <2> DEFINE p == call[c].path
  <2>1. Suits(call[c]) /\ p \in Paths
    BY <1>4, SuitsItsCall DEF Unlinks
  <2>2. Kind(store, p) # "none" /\ store' = Put(p, None)
    BY <1>0, <1>4 DEF Unlinks, StoreOnly, Same, Stays, Becomes
  <2>3. store[p] # None
    BY <2>1, <2>2, PathShapes DEF Kind, Paths
  <2>4. p \notin Top => Kind(store, Parent(p)) = "directory"
    BY <1>0, <2>1, <2>3 DEF ShapeOf
  <2> QED
    BY <1>1, <2>1, <2>2, <2>4
<1>5. ASSUME NEW c \in Clients, Renames(c) PROVE Goal
  <2> DEFINE p == call[c].path
             to == call[c].to
  <2>1. /\ p \in Paths /\ to \in Paths /\ p # to /\ Parent(p) = Parent(to)
        /\ Writable(setup.granted) /\ ~Protected(Parent(p)) /\ ~Protected(p) /\ ~Protected(to)
    BY <1>5, SuitsItsCall DEF Renames, Suits
  <2>2. Kind(store, p) # "none" /\ ~InTheWay(p, to) /\ store' = Moved(p, to)
    BY <1>0, <1>5 DEF Renames, Same, Stays, Becomes
  <2> HIDE DEF p, to
  <2>3. store[p] # None
    BY <2>1, <2>2, PathShapes DEF Kind, Paths
  <2>4. /\ p \in Top <=> to \in Top
        /\ \A q \in Paths : ~Beneath(p, q) /\ ~Beneath(to, q) => store'[q] = store[q]
        /\ \A q \in Paths \ Top : p \in Top /\ Parent(q) = to => store'[q] = store[Append(p, q[2])]
        /\ \A q \in Paths \ Top : p \in Top /\ Parent(q) = p => store'[q] = None
    BY <2>1, <2>2, WhatMoves
  <2>5. ASSUME NEW q \in Paths, store[q] # store'[q], Parent(q) # Root
        PROVE  store[Parent(q)] = None \/ Writable(store[Parent(q)].mode)
    <3>1. q \notin Top /\ (Beneath(p, q) \/ Beneath(to, q))
      BY <2>4, <2>5, PathShapes
    <3>2. CASE p \notin Top
      <4>1. Parent(q) = Parent(p)
        BY <2>1, <2>4, <3>1, <3>2, Beneaths
      <4>2. Kind(store, Parent(p)) = "directory"
        BY <1>0, <2>1, <2>3, <3>2 DEF ShapeOf
      <4> QED
        BY <1>0, <2>1, <2>5, <4>1, <4>2, MembersAreIn
    <3>3. CASE p \in Top /\ Parent(q) = p
      <4>1. store[q] # None
        BY <2>4, <2>5, <3>1, <3>3
      <4>2. Kind(store, p) = "directory"
        BY <1>0, <3>1, <3>3, <4>1 DEF ShapeOf
      <4> QED
        BY <1>0, <2>1, <2>5, <3>3, <4>2, MembersAreIn
    <3>4. CASE p \in Top /\ Parent(q) = to
      <4>1. CASE store[to] = None
        BY <3>4, <4>1
      <4>2. CASE store[to] # None /\ Kind(store, to) = "directory"
        BY <1>0, <2>1, <2>5, <3>4, <4>2, MembersAreIn
      \* Nothing is in a file, and only a file replaces one.
      <4>3. CASE store[to] # None /\ Kind(store, to) # "directory"
        <5>1. Kind(store, to) # "none"
          BY <1>0, <2>1, <4>3, PathShapes DEF Kind, ShapeOf, LocalObjects, Paths
        <5>2. Kind(store, p) # "directory"
          BY <2>2, <4>3, <5>1 DEF InTheWay
        <5>3. store[q] = None
          BY <1>0, <3>1, <3>4, <4>3 DEF ShapeOf
        <5>4. Append(p, q[2]) \in Paths \ Top /\ Parent(Append(p, q[2])) = p
          BY <3>1, <3>4, PathShapes
        <5>5. store[Append(p, q[2])] = None
          BY <1>0, <5>2, <5>4 DEF ShapeOf
        <5> QED
          BY <2>4, <2>5, <3>1, <3>4, <5>3, <5>5
      <4> QED
        BY <4>1, <4>2, <4>3
    <3> QED
      BY <2>1, <2>4, <3>1, <3>2, <3>3, <3>4, Beneaths
  <2> QED
    BY <2>1, <2>5
<1>6. ASSUME NEW c \in Clients, Looks(c) \/ Creates(c) \/ LeavesBehind(c) PROVE FALSE
  BY <1>0, <1>6, LooksAtMost DEF Creates, LeavesBehind, Stays, Becomes
<1>7. ~Crashes
  BY <1>0 DEF Crashes
<1>8. ~SomeoneLocal
  BY <1>0 DEF SomeoneLocal, FromOutside
<1> SUFFICES Goal
  OBVIOUS
<1> HIDE DEF Goal
<1> QED
  BY <1>2, <1>3, <1>4, <1>5, <1>6, <1>7, <1>8 DEF LocalStep, Looks

-----------------------------------------------------------------------------
\* What is changed in a bucket has been permitted.
LEMMA WorksAsPermitted ==
    ASSUME CallsFit, NEW c \in Clients, Works(c), NEW x \in Keys, store'[x] # store[x]
    PROVE  Granted(x)
<1> DEFINE k == call[c]
<1>1. k # None /\ k.op # "list"
  BY DEF Works, Copies, Finishes, RequestFails, Makes, LastRequests, CallsFit, Fits
<1>2. /\ Fits(k) /\ k.path \in Paths /\ k.to \in Paths /\ Allowed(k.op)
      /\ Paths \subseteq Keys
  BY <1>1 DEF CallsFit, Fits, Keys
<1>3. store' = Change(k)
  BY DEF Works, Copies, Finishes, RequestFails, Stored, Becomes, Nothing, Stays, Change, Makes
<1> HIDE DEF k
<1>4. \/ k.request \in {"putObject", "putMarker", "delete", "deleteMarker"}
      \/ k.request = "copy" /\ store[k.path] # None
  BY <1>3 DEF Change
<1>5. ASSUME NEW y, NEW object, store' = With(y, object) PROVE store'[x] = object
  BY <1>5 DEF With
<1>6. CASE k.request \in {"putObject", "putMarker"}
  <2>1. Permits("PutObject")
    BY <1>2, <1>6 DEF Fits, Allowed
  <2>2. store'[x] # None
    BY <1>3, <1>5, <1>6, NoCallIsNone DEF Change, DirectoryMark
  <2> QED
    BY <2>1, <2>2 DEF Granted
<1>7. CASE k.request \in {"delete", "deleteMarker"}
  <2>1. Permits("DeleteObject")
    BY <1>2, <1>7 DEF Fits, Allowed
  <2>2. store'[x] = None
    BY <1>3, <1>5, <1>7 DEF Change
  <2> QED
    BY <2>1, <2>2 DEF Granted
<1>8. CASE k.request = "copy" /\ store[k.path] # None
  <2>1. Permits("CopyObject")
    BY <1>2, <1>8 DEF Fits, Allowed
  <2>2. store'[x] = store[k.path]
    BY <1>3, <1>5, <1>8 DEF Change
  <2> QED
    BY <1>2, <1>8, <2>1, <2>2 DEF Granted
<1> QED
  BY <1>4, <1>6, <1>7, <1>8

LEMMA BucketReadOnly ==
    ASSUME InS3, CallsFit, Next, outside \in Nat, ByProxy
    PROVE  \A k \in Keys : store'[k] # store[k] => Granted(k)
<1>1. store' # store /\ outside' = outside
  BY DEF ByProxy
<1>2. ASSUME NEW c \in Clients,
             Starts(c) \/ Asks(c) \/ Lists(c) \/ Pages(c) \/ PageFails(c) \/ Listed(c)
      PROVE  store' = store
  BY <1>2, StartsIs DEF Asks, Heads, HeadsTarget, ListsTwo, Nothing, Stays, Becomes, Lists, Begin,
                        Pages, PageFails, Listed
<1>3. CASE SomeoneElse
  BY <1>1, <1>3 DEF SomeoneElse, FromOutside
<1> QED
  BY <1>1, <1>2, <1>3, StepsOfS3, WorksAsPermitted

(* What the deployment withholds is not changed through the proxy: no      *)
(* object goes from a bucket, or gets there, but by a request that is      *)
(* permitted there; nothing changes on a disk that is served read-only,    *)
(* and nothing in a directory that may not be written.                     *)
(* (s3fs.go: permits; localfs.go: mask, child, Child, permitChange)        *)
THEOREM WithheldIsKept == Spec => ReadOnlyIsKept
<1>1. ASSUME HiddenInv, DiskInv, BucketHolds, Counted, [Next]_vars, ByProxy
      PROVE  IF InS3 THEN \A k \in Keys : store'[k] # store[k] => Granted(k)
             ELSE /\ Writable(setup.granted)
                  /\ \A p \in Paths : store[p] # store'[p] /\ Parent(p) # Root =>
                        store[Parent(p)] = None \/ Writable(store[Parent(p)].mode)
  <2>1. Next /\ outside \in Nat
    BY <1>1, BoundsAssumption DEF ByProxy, vars, Counted
  <2>2. CASE InS3
    BY <1>1, <2>1, <2>2, BucketReadOnly DEF BucketHolds
  <2>3. CASE ~InS3
    <3>1. LocalStep
      BY <2>1, <2>3 DEF Next
    <3> QED
      BY <1>1, <2>1, <2>3, <3>1, DiskReadOnly
  <2> QED
    BY <2>2, <2>3
<1> QED
  BY <1>1, DiskInvariant, BucketAlways, CountedAlways, PTL DEF Spec, ReadOnlyIsKept

-----------------------------------------------------------------------------
(* What a call in a bucket has done so far, if nothing got in its way.     *)
Sofar(k, s, t) ==
    /\ IF k.op = "rename" /\ k.request = "delete"
          THEN s[k.to] = None /\ t = [s EXCEPT ![k.to] = s[k.path]]
          ELSE t = s
    /\ k.request = "copy" => s[k.to] = None
    /\ k.request = "deleteMarker" => Under(s, k.path[1]) \subseteq {Marker(k.path[1])}
DoneSofar(c) == call[c] # None /\ Alone(c) => Sofar(call[c], before[c], store)

\* A call that starts, and one that another does not disturb.
LEMMA StartsWith ==
    ASSUME CallsFit, ListingTyped, NEW c \in Clients, Starts(c)
    PROVE  /\ call'[c].request \in {"putObject", "putMarker", "head", "listTwo"}
           /\ before'[c] = store /\ store' = store
<1>1. ASSUME NEW op, NEW p, NEW to, NEW needed, NEW r, Starting(c, op, p, to, needed, r)
      PROVE  call'[c].request = r /\ before'[c] = store /\ store' = store
  <2>1. call' = [call EXCEPT ![c] = [op |-> op, path |-> p, to |-> to, mask |-> Methods,
                                     request |-> r]]
    BY <1>1 DEF Starting, Begin
  <2>2. call'[c].request = r
    BY <2>1 DEF CallsFit
  <2>3. before'[c] = store /\ store' = store
    BY <1>1 DEF Starting, Begin, ListingTyped
  <2> QED
    BY <2>2, <2>3
<1> QED
  BY <1>1 DEF Starts, Stores, MakesMarker, RemovesFile, RemovesDirectory, RenamesFile

LEMMA OthersStepAside ==
    ASSUME InS3, CallsFit, ListingTyped, Next, NEW c \in Clients, NEW e \in Clients \ {c},
           \/ Starts(c) \/ Asks(c) \/ Works(c) \/ Lists(c) \/ Pages(c) \/ PageFails(c) \/ Listed(c)
    PROVE  call'[e] = call[e] /\ (before'[e] # None => before'[e] = before[e] /\ store' = store)
<1>1. call'[e] = call[e]
  BY OneCallMoves DEF CallsFit
<1>2. ASSUME NEW new, Becomes(c, new)
      PROVE  before'[e] # None => before'[e] = before[e] /\ store' = store
  BY <1>2 DEF Becomes
<1>3. CASE Starts(c) \/ Lists(c)
  BY <1>1, <1>3, StartsIs DEF Lists, Begin, ListingTyped
<1>4. CASE Asks(c) \/ Works(c) \/ Pages(c) \/ PageFails(c) \/ Listed(c)
  <2>1. \E new : Becomes(c, new)
    BY <1>4 DEF Asks, Heads, HeadsTarget, ListsTwo, Works, Copies, Finishes, RequestFails, Nothing,
                Stored, Stays, Pages, PageFails, Listed
  <2> QED
    BY <1>1, <1>2, <2>1
<1> QED
  BY <1>3, <1>4

\* A request that changes nothing, and is not the last.
LEMMA AsksOn ==
    ASSUME CallsFit, NEW c \in Clients, call[c] # None, DoneSofar(c), Stays(c),
           ~(call[c].op = "rename" /\ call[c].request = "delete"),
           NEW r, Goes(c, r), ~(call[c].op = "rename" /\ r = "delete"),
           r = "copy" => store[call[c].to] = None,
           r = "deleteMarker" => Under(store, call[c].path[1]) \subseteq {Marker(call[c].path[1])}
    PROVE  DoneSofar(c)'
<1>1. PICK k : k = [call[c] EXCEPT !.request = r]
  OBVIOUS
<1>2. k.op = call[c].op /\ k.path = call[c].path /\ k.to = call[c].to /\ k.request = r
  BY <1>1 DEF CallsFit, S3Calls
<1>3. call'[c] = k
  BY <1>1 DEF Goes, CallsFit
<1>4. store' = store /\ (before'[c] # None => before'[c] = before[c])
  BY DEF Stays, Becomes
<1>5. before[c] # None => before[c] = store
  BY DEF DoneSofar, Alone, Sofar
<1>6. before'[c] # None => Sofar(k, store, store)
  BY <1>2, <1>5 DEF Sofar
<1> QED
  BY <1>3, <1>4, <1>5, <1>6 DEF DoneSofar, Alone, Sofar, Under

LEMMA DoneSofarStep ==
    ASSUME InS3, CallsFit, ListingTyped, store \in [Keys -> Contents], Next,
           NEW e \in Clients, DoneSofar(e)
    PROVE  DoneSofar(e)'
<1>1. CASE call'[e] = None
  BY <1>1 DEF DoneSofar
<1>2. CASE before'[e] = None
  BY <1>2 DEF DoneSofar, Alone
<1>3. CASE call'[e] = call[e] /\ before'[e] = before[e] /\ store' = store
  BY <1>3 DEF DoneSofar, Alone, Sofar, Under
<1>4. ASSUME NEW c \in Clients, e # c,
             \/ Starts(c) \/ Asks(c) \/ Works(c) \/ Lists(c) \/ Pages(c) \/ PageFails(c) \/ Listed(c)
      PROVE  DoneSofar(e)'
  BY <1>2, <1>3, <1>4, OthersStepAside
<1>5. CASE SomeoneElse
  BY <1>2, <1>5 DEF SomeoneElse, FromOutside
<1>6. ASSUME call'[e].request \notin {"delete", "copy", "deleteMarker"},
             before'[e] = store, store' = store
      PROVE  DoneSofar(e)'
    BY <1>6 DEF DoneSofar, Sofar
<1>7. CASE Starts(e)
  BY <1>6, <1>7, StartsWith
<1>8. CASE Lists(e)
  <2>1. PICK d \in Top \cup {Root}, r \in {"page", "listed"} : Begin(e, "list", d, d, Methods, r)
    BY <1>8 DEF Lists
  <2>2. call' = [call EXCEPT ![e] = [op |-> "list", path |-> d, to |-> d, mask |-> Methods,
                                     request |-> r]]
    BY <2>1 DEF Begin
  <2>3. call'[e].request = r
    BY <2>2 DEF CallsFit
  <2>4. before'[e] = store /\ store' = store
    BY <2>1 DEF Begin, ListingTyped
  <2> QED
    BY <1>6, <2>3, <2>4
<1>9. ASSUME call[e] # None PROVE Fits(call[e])
  BY <1>9 DEF CallsFit
<1>10. CASE Heads(e)
  <2>1. call[e] # None /\ call[e].request = "head" /\ Stays(e)
    BY <1>10 DEF Heads, Makes, Nothing
  <2>2. CASE Returns(e, "notExist")
    BY <1>1, <2>2 DEF Returns, CallsFit
  <2>3. CASE Goes(e, IF call[e].op = "rename" THEN "headTarget" ELSE "delete")
    BY <2>1, <2>3, AsksOn
  <2> QED
    BY <1>10, <2>2, <2>3 DEF Heads
<1>11. CASE HeadsTarget(e)
  <2>1. call[e] # None /\ call[e].request = "headTarget" /\ Stays(e)
    BY <1>11 DEF HeadsTarget, Makes, Nothing
  <2>2. CASE Returns(e, "exist")
    BY <1>1, <2>2 DEF Returns, CallsFit
  <2>3. CASE store[call[e].to] = None /\ Goes(e, "copy")
    BY <2>1, <2>3, AsksOn
  <2> QED
    BY <1>11, <2>2, <2>3 DEF HeadsTarget
<1>12. CASE ListsTwo(e)
  <2> DEFINE n == call[e].path[1]
             members == Under(store, n) \ {Marker(n)}
             room == IF store[Marker(n)] # None THEN KeysAskedFor - 1 ELSE KeysAskedFor
  <2>1. call[e] # None /\ call[e].request = "listTwo" /\ Stays(e)
    BY <1>12 DEF ListsTwo, Makes, Nothing
  <2>2. CASE Returns(e, "failure")
    BY <1>1, <2>2 DEF Returns, CallsFit
  <2>3. room > 0
    BY DEF KeysAskedFor
  <2>4. CASE members = {} /\ Goes(e, "deleteMarker")
    BY <2>1, <2>4, AsksOn
  <2> QED
    BY <1>12, <2>2, <2>3, <2>4 DEF ListsTwo
<1>13. CASE Copies(e)
  <2>1. call[e] # None /\ call[e].request = "copy" /\ call[e].op = "rename"
    BY <1>9, <1>13 DEF Copies, Makes, Fits
  <2>2. CASE Returns(e, "notExist")
    BY <1>1, <2>2 DEF Returns, CallsFit
  <2>3. CASE Goes(e, "delete") /\ Stored(e, With(call[e].to, store[call[e].path]))
    <3>1. PICK k : k = [call[e] EXCEPT !.request = "delete"]
      OBVIOUS
    <3>2. k.op = call[e].op /\ k.path = call[e].path /\ k.to = call[e].to /\ k.request = "delete"
      BY <2>1, <3>1 DEF CallsFit, S3Calls
    <3>3. call'[e] = k
      BY <2>3, <3>1 DEF Goes, CallsFit
    <3>4. /\ before'[e] # None => before'[e] = before[e]
          /\ store' = [store EXCEPT ![k.to] = store[k.path]]
      BY <2>3, <3>2 DEF Stored, Becomes, With
    <3>5. before[e] # None => before[e] = store /\ store[k.to] = None
      BY <2>1, <3>2 DEF DoneSofar, Alone, Sofar
    <3> QED
      BY <2>1, <3>2, <3>3, <3>4, <3>5 DEF DoneSofar, Alone, Sofar
  <2> QED
    BY <1>13, <2>2, <2>3 DEF Copies
<1>14. CASE Pages(e)
  <2>1. call[e] # None /\ call[e].request = "page" /\ call[e].op = "list" /\ Stays(e)
    BY <1>9, <1>14 DEF Pages, Makes, Fits
  <2>2. CASE Returns(e, "failure")
    BY <1>1, <2>2 DEF Returns, CallsFit
  <2>3. ASSUME NEW r \in {"page", "listed"}, Goes(e, r) PROVE DoneSofar(e)'
    BY <2>1, <2>3, AsksOn
  <2> QED
    BY <1>14, <2>2, <2>3 DEF Pages, TooMany
<1>15. CASE Finishes(e) \/ RequestFails(e) \/ PageFails(e) \/ Listed(e)
  BY <1>1, <1>15 DEF Finishes, RequestFails, PageFails, Listed, Returns, CallsFit
<1> QED
  BY <1>4, <1>5, <1>7, <1>8, <1>10, <1>11, <1>12, <1>13, <1>14, <1>15, StepsOfS3 DEF Asks, Works

\* Markers are not files.
LEMMA MarkersAreNoFiles == \A n \in Names : Marker(n) \notin Paths
<1>1. \A p \in Paths \ Top : p[2] \in Members /\ Len(p) = 2
  BY PathShapes
<1>2. \A p \in Top : Len(p) = 1
  BY PathShapes
<1>3. \A n \in Names : Len(Marker(n)) = 2 /\ Marker(n)[2] = MarkerName
  BY KeyShapes
<1> QED
  BY <1>1, <1>2, <1>3, S3Assumption

\* What a call that ends in a bucket leaves alone, at whatever request.
LEMMA NothingChanged ==
    ASSUME NEW k, NEW s PROVE LeavesAlone(k, s, s)
BY DEF LeavesAlone

LEMMA BucketLeavesAlone ==
    ASSUME InS3, NEW k, Fits(k), NEW s \in [Keys -> Contents], store \in [Keys -> Contents],
           Sofar(k, s, store)
    PROVE  LeavesAlone(k, s, store) /\ LeavesAlone(k, s, Change(k))
<1>1. k.op = "rename" => k.path \in Keys /\ k.to \in Keys /\ k.path # k.to
  BY KeysOfPaths DEF Fits
<1>2. \A p : FileAt(s, p) = s[p] /\ FileAt(store, p) = store[p] /\ FileAt(Change(k), p) = Change(k)[p]
  BY DEF FileAt
<1>3. LeavesAlone(k, s, store)
  <2>1. CASE store = s
    BY <2>1, NothingChanged
  <2>2. CASE k.op = "rename" /\ s[k.to] = None /\ store = [s EXCEPT ![k.to] = s[k.path]]
    <3>1. /\ \A q \in Keys \ {k.to} : store[q] = s[q]
          /\ store[k.to] = s[k.path]
      BY <1>1, <2>2
    <3> QED
      BY <1>1, <1>2, <2>2, <3>1, KeysOfPaths DEF LeavesAlone, Concerns
  <2> QED
    BY <2>1, <2>2 DEF Sofar
<1>4. LeavesAlone(k, s, Change(k))
  <2>1. CASE k.request = "putObject"
    <3>1. store = s /\ k.op = "put" /\ k.path \in Keys /\ Change(k) = [s EXCEPT ![k.path] = 2]
      BY <2>1, KeysOfPaths DEF Sofar, Change, With, Fits
    <3>2. \A q \in Keys \ {k.path} : Change(k)[q] = s[q]
      BY <3>1
    <3> QED
      BY <1>2, <3>1, <3>2, KeysOfPaths DEF LeavesAlone, Concerns
  <2>2. CASE k.request \in {"putMarker", "deleteMarker"}
    <3>1. store = s /\ k.op \in {"mkdir", "rmdir"} /\ k.path \in Top
      BY <2>2 DEF Sofar, Fits
    <3>2. \E x : Change(k) = [s EXCEPT ![Marker(k.path[1])] = x]
      BY <2>2, <3>1 DEF Change, With
    <3>3. Marker(k.path[1]) \notin Paths
      BY <3>1, KeysOfPaths, MarkersAreNoFiles
    <3>4. \A q \in Paths : Change(k)[q] = s[q]
      BY <3>2, <3>3, KeysOfPaths
    <3> QED
      BY <1>2, <3>1, <3>4 DEF LeavesAlone
  <2>3. CASE k.request = "delete" /\ k.op = "remove"
    <3>1. store = s /\ k.path \in Keys /\ Change(k) = [s EXCEPT ![k.path] = None]
      BY <2>3, KeysOfPaths DEF Sofar, Change, With, Fits
    <3>2. \A q \in Keys \ {k.path} : Change(k)[q] = s[q]
      BY <3>1
    <3>3. \A q \in Paths : ~Concerns(k, q) => Change(k)[q] = s[q]
      BY <2>3, <3>2, KeysOfPaths DEF Concerns
    <3>4. \A q \in Paths : ~Concerns(k, q) => FileAt(Change(k), q) = FileAt(s, q)
      BY <1>2, <3>3
    <3> QED
      BY <2>3, <3>4 DEF LeavesAlone
  <2>4. CASE k.request = "delete" /\ k.op = "rename"
    <3>1. /\ s[k.to] = None /\ store = [s EXCEPT ![k.to] = s[k.path]]
          /\ Change(k) = [store EXCEPT ![k.path] = None]
      BY <2>4 DEF Sofar, Change, With
    <3>2. /\ \A q \in Keys \ {k.path, k.to} : Change(k)[q] = s[q]
          /\ Change(k)[k.to] = s[k.path]
      BY <1>1, <2>4, <3>1
    <3>3. \A q \in Paths : ~Concerns(k, q) => Change(k)[q] = s[q]
      BY <2>4, <3>2, KeysOfPaths DEF Concerns
    <3>4. FileAt(s, k.path) = FileAt(Change(k), k.to) /\ FileAt(s, k.to) = None
      BY <1>2, <3>1, <3>2
    <3>5. \A q \in Paths : ~Concerns(k, q) => FileAt(Change(k), q) = FileAt(s, q)
      BY <1>2, <3>3
    <3> QED
      BY <3>4, <3>5 DEF LeavesAlone
  <2>5. CASE k.request = "copy" /\ store[k.path] # None
    <3>1. /\ k.op = "rename" /\ s[k.to] = None /\ store = s
          /\ Change(k) = [s EXCEPT ![k.to] = s[k.path]]
      BY <2>5 DEF Sofar, Change, With, Fits
    <3>2. /\ \A q \in Keys \ {k.to} : Change(k)[q] = s[q]
          /\ Change(k)[k.to] = s[k.path]
      BY <1>1, <3>1
    <3>3. \A q \in Paths : ~Concerns(k, q) => Change(k)[q] = s[q]
      BY <3>2, KeysOfPaths DEF Concerns
    <3>4. FileAt(s, k.path) = FileAt(Change(k), k.to) /\ FileAt(s, k.to) = None
      BY <1>2, <3>1, <3>2
    <3>5. \A q \in Paths : ~Concerns(k, q) => FileAt(Change(k), q) = FileAt(s, q)
      BY <1>2, <3>3
    <3> QED
      BY <3>4, <3>5 DEF LeavesAlone
  <2>6. CASE Change(k) = store
    BY <1>3, <2>6
  <2>7. k.request = "delete" => k.op \in {"remove", "rename"}
    BY DEF Fits
  <2>8. \/ k.request \in {"putObject", "putMarker", "deleteMarker", "delete"}
        \/ k.request = "copy" /\ store[k.path] # None
        \/ Change(k) = store
    BY DEF Change
  <2> QED
    BY <2>1, <2>2, <2>3, <2>4, <2>5, <2>6, <2>7, <2>8
<1> QED
  BY <1>3, <1>4

\* What the last request of a call leaves.
LEMMA BucketDoes ==
    ASSUME InS3, NEW k, Fits(k), NEW s \in [Keys -> Contents], store \in [Keys -> Contents],
           Sofar(k, s, store), k.request \in LastRequests
    PROVE  Done(k, s, Change(k))
<1>1. k.op # "list" /\ k.path \in Keys /\ k.to \in Keys
  BY KeysOfPaths DEF Fits, LastRequests
<1>2. \A t, p : FileAt(t, p) = t[p]
  BY DEF FileAt
<1>3. CASE k.request = "putObject"
  <2>1. k.op = "put" /\ Change(k) = [store EXCEPT ![k.path] = 2]
    BY <1>3 DEF Fits, Change, With
  <2>2. Change(k)[k.path] = 2
    BY <1>1, <2>1
  <2> QED
    BY <1>2, <2>1, <2>2 DEF Done
<1>4. CASE k.request = "putMarker"
  <2> DEFINE n == k.path[1]
  <2>1. k.op = "mkdir" /\ k.path \in Top /\ n \in Names /\ Marker(n) \in Keys
    BY <1>4, KeysOfPaths DEF Fits
  <2>2. Change(k) = [store EXCEPT ![Marker(n)] = 0]
    BY <1>4 DEF Change, With, DirectoryMark
  <2>3. Change(k)[Marker(n)] = 0 /\ None # 0
    BY <2>1, <2>2, NoCallIsNone
  <2>4. Marker(n) \in Under(Change(k), n)
    BY <2>1, <2>3, KeyShapes DEF Under
  <2>5. DirAt(Change(k), k.path)
    BY <2>1, <2>4 DEF DirAt
  <2> QED
    BY <2>1, <2>5 DEF Done
<1>5. CASE k.request = "delete" /\ k.op = "remove"
  <2>1. Change(k) = [store EXCEPT ![k.path] = None]
    BY <1>5 DEF Change, With
  <2>2. Change(k)[k.path] = None
    BY <1>1, <2>1
  <2> QED
    BY <1>2, <1>5, <2>2 DEF Done
<1>6. CASE k.request = "delete" /\ k.op = "rename"
  <2>1. /\ s[k.to] = None /\ store = [s EXCEPT ![k.to] = s[k.path]]
        /\ Change(k) = [store EXCEPT ![k.path] = None] /\ k.path # k.to
    BY <1>6 DEF Sofar, Change, With, Fits
  <2>2. Change(k)[k.to] = s[k.path] /\ Change(k)[k.path] = None
    BY <1>1, <2>1
  <2>3. SameAt(s, k.path, Change(k), k.to)
    BY <1>2, <2>2 DEF SameAt
  <2>4. Free(s, k.to)
    BY <1>2, <2>1 DEF Free
  <2> QED
    BY <1>2, <1>6, <2>1, <2>2, <2>3, <2>4 DEF Done
<1>7. CASE k.request = "deleteMarker"
  <2> DEFINE n == k.path[1]
  <2>1. /\ k.op = "rmdir" /\ k.path \in Top /\ n \in Names /\ Marker(n) \in Keys
        /\ store = s /\ Under(s, n) \subseteq {Marker(n)}
    BY <1>7, KeysOfPaths DEF Fits, Sofar
  <2>2. Change(k) = [store EXCEPT ![Marker(n)] = None]
    BY <1>7 DEF Change, With
  <2>3. /\ Change(k)[Marker(n)] = None
        /\ \A q \in Keys \ {Marker(n)} : Change(k)[q] = s[q]
    BY <2>1, <2>2
  <2>4. Under(Change(k), n) = {}
    BY <2>1, <2>3 DEF Under
  <2>5. ~DirAt(Change(k), k.path)
    BY <2>4 DEF DirAt
  <2> QED
    BY <2>1, <2>5 DEF Done
<1>8. k.request = "delete" => k.op \in {"remove", "rename"}
  BY DEF Fits
<1> QED
  BY <1>3, <1>4, <1>5, <1>6, <1>7, <1>8 DEF LastRequests

LEMMA BucketDoesWhatItSays ==
    ASSUME InS3, CallsFit, ListingTyped, store \in [Keys -> Contents], Next,
           NEW c \in Clients, DoneSofar(c), EndsAlone(c)
    PROVE  /\ LeavesAlone(call[c], before[c], store')
           /\ answer' = "ok" => Done(call[c], before[c], store')
<1>1. /\ call[c] # None /\ call'[c] = None /\ Fits(call[c])
      /\ before[c] \in [Keys -> Contents] /\ Sofar(call[c], before[c], store)
  BY DEF EndsAlone, Alone, DoneSofar, ListingTyped, CallsFit
<1>2. LeavesAlone(call[c], before[c], store) /\ LeavesAlone(call[c], before[c], Change(call[c]))
  BY <1>1, BucketLeavesAlone
<1>3. ASSUME NEW e \in Clients, e # c,
             \/ Starts(e) \/ Asks(e) \/ Works(e) \/ Lists(e) \/ Pages(e) \/ PageFails(e) \/ Listed(e)
      PROVE  FALSE
  BY <1>1, <1>3, OneCallMoves DEF CallsFit
<1>4. ~SomeoneElse
  BY <1>1 DEF SomeoneElse, FromOutside
<1>5. ~Starts(c) /\ ~Lists(c)
  BY <1>1, StartsIs DEF Lists, Begin
<1>6. ASSUME NEW r \in S3Requests PROVE ~Goes(c, r)
  <2>1. Goes(c, r) => call'[c] = [call[c] EXCEPT !.request = r]
    BY <1>1 DEF Goes, CallsFit
  <2> QED
    BY <1>1, <2>1, Onwards, NoCallIsNone
<1>7. CASE Asks(c)
  <2>1. store' = store /\ \E how : how # "ok" /\ answer' = how
    BY <1>6, <1>7 DEF Asks, Heads, HeadsTarget, ListsTwo, Nothing, Stays, Becomes, Returns,
                      S3Requests
  <2> QED
    BY <1>2, <2>1
<1>8. CASE Copies(c)
  <2>1. store' = store /\ answer' = "notExist"
    BY <1>6, <1>8 DEF Copies, Nothing, Stays, Becomes, Returns, S3Requests
  <2> QED
    BY <1>2, <2>1
<1>9. CASE Finishes(c)
  <2>1. store' = Change(call[c]) /\ call[c].request \in LastRequests
    BY <1>9 DEF Finishes, Stored, Becomes
  <2>2. Done(call[c], before[c], Change(call[c]))
    BY <1>1, <2>1, BucketDoes
  <2> QED
    BY <1>2, <2>1, <2>2
<1>10. CASE RequestFails(c)
  <2>1. store' \in {store, Change(call[c])} /\ answer' = "failure"
    BY <1>10 DEF RequestFails, Returns, Stored, Becomes
  <2> QED
    BY <1>2, <2>1
<1>11. CASE Pages(c) \/ PageFails(c)
  <2>1. store' = store /\ answer' = "failure"
    BY <1>6, <1>11 DEF Pages, TooMany, PageFails, Stays, Becomes, Returns, S3Requests
  <2> QED
    BY <1>2, <2>1
<1>12. CASE Listed(c)
  <2>1. store' = store /\ call[c].op = "list"
    BY <1>1, <1>12 DEF Listed, Makes, Stays, Becomes, Fits
  <2>2. before[c] = store
    BY <1>1, <2>1 DEF Sofar
  <2>3. Done(call[c], before[c], store)
    BY <2>1, <2>2 DEF Done
  <2> QED
    BY <1>2, <2>1, <2>3
<1> QED
  BY <1>3, <1>4, <1>5, <1>7, <1>8, <1>9, <1>10, <1>11, <1>12, StepsOfS3 DEF Works

-----------------------------------------------------------------------------
(* What a call on disk has done so far, if nothing got in its way: nothing *)
(* until its last request.                                                 *)
Undisturbed(c) ==
    call[c] # None /\ Alone(c) =>
        before[c] = store /\ (call[c].request = "rename" => store[call[c].to] = None)
DiskCalls == ~InS3 => DOMAIN before = Clients /\ \A c \in Clients : Undisturbed(c)

\* Steps of one call on disk.
Makings(c) ==
    \/ Creates(c) \/ Publishes(c) \/ LeavesBehind(c)
    \/ MakesDirectory(c) \/ Unlinks(c) \/ Renames(c)
Givings(c) == StartsCreate(c) \/ StartsMkdir(c) \/ StartsRemove(c) \/ StartsRename(c)
Stats(c) == StatsNew(c) \/ PermitsChange(c) \/ StatsTarget(c)

LEMMA StepsOnDisk ==
    ASSUME ~InS3, Next
    PROVE  (\E c \in Clients : Givings(c) \/ Stats(c) \/ Makings(c)) \/ Crashes \/ SomeoneLocal
BY DEF Next, LocalStep, Givings, Stats, Makings

LEMMA GivingIs ==
    ASSUME HiddenInv, ~InS3, DOMAIN before = Clients, NEW c \in Clients, Givings(c)
    PROVE  /\ call[c] = None /\ call'[c].request # "rename" /\ store' = store
           /\ before' = [before EXCEPT ![c] = store] /\ before'[c] = store
           /\ \A e \in Clients \ {c} : call'[e] = call[e]
<1>1. ASSUME NEW op, NEW p, NEW to, NEW r, r # "rename", Given(c, op, p, to, r)
      PROVE  /\ call[c] = None /\ call'[c].request # "rename" /\ store' = store
             /\ before' = [before EXCEPT ![c] = store] /\ before'[c] = store
             /\ \A e \in Clients \ {c} : call'[e] = call[e]
  <2>1. call' = [call EXCEPT ![c] = [op |-> op, path |-> p, to |-> to, mask |-> Mask(p),
                                     request |-> r]]
    BY <1>1 DEF Given, Begin
  <2>2. call'[c].request = r /\ \A e \in Clients \ {c} : call'[e] = call[e]
    BY <2>1 DEF HiddenInv
  <2>3. call[c] = None /\ store' = store /\ before' = [before EXCEPT ![c] = store]
    BY <1>1 DEF Given, Begin
  <2>4. before'[c] = store
    BY <2>3
  <2> QED
    BY <1>1, <2>2, <2>3, <2>4
<1>2. CASE StartsCreate(c)
  BY <1>1, <1>2 DEF StartsCreate
<1>3. CASE StartsMkdir(c)
  BY <1>1, <1>3 DEF StartsMkdir
<1>4. CASE StartsRemove(c)
  BY <1>1, <1>4 DEF StartsRemove
<1>5. CASE StartsRename(c)
  <2>1. PICK p, to : Given(c, "rename", p, to, "stat")
    BY <1>5 DEF StartsRename
  <2> QED
    BY <1>1, <2>1
<1> QED
  BY <1>2, <1>3, <1>4, <1>5 DEF Givings

\* Any other step of a call is an end or a next request.
LEMMA OneDiskCallMoves ==
    ASSUME HiddenInv, ~InS3, NEW c \in Clients, Stats(c) \/ Makings(c)
    PROVE  /\ call[c] # None
           /\ call'[c] = None \/ \E r \in LocalRequests : Goes(c, r)
           /\ \A e \in Clients \ {c} : call'[e] = call[e]
           /\ \E new : Becomes(c, new)
<1>1. call[c] # None
  BY DEF Stats, Makings, StatsNew, PermitsChange, StatsTarget, Creates, Publishes, LeavesBehind,
         MakesDirectory, Unlinks, Renames, Makes
<1>2. (\E r \in LocalRequests : Goes(c, r)) \/ (\E how : Returns(c, how))
  BY DEF Stats, Makings, StatsNew, PermitsChange, StatsTarget, Creates, Publishes, LeavesBehind,
         MakesDirectory, Unlinks, Renames, LocalRequests
<1>3. call'[c] = None \/ \E r \in LocalRequests : Goes(c, r)
  BY <1>2 DEF Returns, HiddenInv
<1>4. \A e \in Clients \ {c} : call'[e] = call[e]
  BY <1>2 DEF Returns, Goes, HiddenInv
<1>5. \E new : Becomes(c, new)
  BY DEF Stats, Makings, StatsNew, PermitsChange, StatsTarget, Creates, Publishes, LeavesBehind,
         MakesDirectory, Unlinks, Renames, Same, StoreOnly, Stays
<1> QED
  BY <1>1, <1>3, <1>4, <1>5

LEMMA GoesOnUndisturbed ==
    ASSUME HiddenInv, ~InS3, NEW c \in Clients, call[c] # None, Undisturbed(c), Stays(c),
           NEW r \in LocalRequests, Goes(c, r), r = "rename" => store[call[c].to] = None
    PROVE  Undisturbed(c)'
<1>1. PICK k : k = [call[c] EXCEPT !.request = r]
  OBVIOUS
<1>2. k.to = call[c].to /\ k.request = r
  BY <1>1 DEF HiddenInv, LocalCalls
<1>3. call'[c] = k
  BY <1>1 DEF Goes, HiddenInv
<1>4. store' = store /\ (before'[c] # None => before'[c] = before[c])
  BY DEF Stays, Becomes
<1> QED
  BY <1>2, <1>3, <1>4 DEF Undisturbed, Alone

LEMMA UndisturbedStep ==
    ASSUME HiddenInv, ~InS3, DOMAIN before = Clients, Next, NEW e \in Clients, Undisturbed(e)
    PROVE  Undisturbed(e)'
<1>1. CASE call'[e] = None
  BY <1>1 DEF Undisturbed
<1>2. CASE before'[e] = None
  BY <1>2 DEF Undisturbed, Alone
<1>3. CASE call'[e] = call[e] /\ before'[e] = before[e] /\ store' = store
  BY <1>3 DEF Undisturbed, Alone
<1>4. ASSUME NEW c \in Clients, e # c, Givings(c) PROVE Undisturbed(e)'
  BY <1>3, <1>4, GivingIs
<1>5. ASSUME NEW c \in Clients, e # c, Stats(c) \/ Makings(c) PROVE Undisturbed(e)'
  <2>1. call'[e] = call[e] /\ \E new : Becomes(c, new)
    BY <1>5, OneDiskCallMoves
  <2>2. before'[e] = None \/ (before'[e] = before[e] /\ store' = store)
    BY <1>5, <2>1 DEF Becomes
  <2> QED
    BY <1>2, <1>3, <2>1, <2>2
<1>6. CASE Givings(e)
  BY <1>6, GivingIs DEF Undisturbed
<1>7. ASSUME Stays(e), NEW r \in LocalRequests, Goes(e, r), call[e] # None,
             r = "rename" => store[call[e].to] = None
      PROVE  Undisturbed(e)'
  BY <1>7, GoesOnUndisturbed
<1>8. CASE Stats(e)
  <2>1. Stays(e) /\ call[e] # None
    BY <1>8 DEF Stats, StatsNew, PermitsChange, StatsTarget, Same, Makes
  <2>2. CASE \E r \in {"create", "unlink", "statTarget"} : Goes(e, r)
    BY <1>7, <2>1, <2>2 DEF LocalRequests
  <2>3. CASE store[call[e].to] = None /\ Goes(e, "rename")
    BY <1>7, <2>1, <2>3 DEF LocalRequests
  <2>4. CASE \E how : Returns(e, how)
    BY <1>1, <2>4 DEF Returns, HiddenInv
  <2> QED
    BY <1>8, <2>2, <2>3, <2>4 DEF Stats, StatsNew, PermitsChange, StatsTarget
<1>9. CASE Creates(e)
  <2>1. Stays(e) /\ call[e] # None
    BY <1>9 DEF Creates, Makes
  <2>2. CASE Goes(e, "publish")
    BY <1>7, <2>1, <2>2 DEF LocalRequests
  <2>3. CASE \E how : Returns(e, how)
    BY <1>1, <2>3 DEF Returns, HiddenInv
  <2> QED
    BY <1>9, <2>2, <2>3 DEF Creates
<1>10. CASE \/ Publishes(e) \/ LeavesBehind(e) \/ MakesDirectory(e)
            \/ Unlinks(e) \/ Renames(e)
  BY <1>1, <1>10 DEF Publishes, LeavesBehind, MakesDirectory, Unlinks, Renames, Returns, HiddenInv
<1>11. CASE Crashes
  BY <1>1, <1>11 DEF Crashes
<1>12. CASE SomeoneLocal
  BY <1>2, <1>12 DEF SomeoneLocal, FromOutside
<1> QED
  BY <1>4, <1>5, <1>6, <1>8, <1>9, <1>10, <1>11, <1>12, StepsOnDisk DEF Makings

LEMMA DiskCallsStep == HiddenInv /\ DiskCalls /\ [Next]_vars => DiskCalls'
<1> SUFFICES ASSUME HiddenInv, DiskCalls, [Next]_vars PROVE DiskCalls'
  OBVIOUS
<1>1. CASE InS3
  BY <1>1, SetupStays DEF DiskCalls, InS3
<1>2. CASE ~InS3 /\ UNCHANGED vars
  BY <1>2 DEF DiskCalls, Undisturbed, Alone, vars, callVars
<1>3. CASE ~InS3 /\ Next
  <2>1. DOMAIN before = Clients /\ \A c \in Clients : Undisturbed(c)
    BY <1>3 DEF DiskCalls
  <2>2. \A c \in Clients : Undisturbed(c)'
    BY <1>3, <2>1, UndisturbedStep
  <2>3. ASSUME NEW c \in Clients, Givings(c) PROVE DOMAIN before' = Clients
    BY <1>3, <2>1, <2>3, GivingIs
  <2>4. ASSUME NEW c \in Clients, Stats(c) \/ Makings(c) PROVE DOMAIN before' = Clients
    BY <1>3, <2>4, OneDiskCallMoves DEF Becomes
  <2>5. Crashes \/ SomeoneLocal => DOMAIN before' = Clients
    BY DEF Crashes, SomeoneLocal, FromOutside
  <2> QED
    BY <1>3, <2>2, <2>3, <2>4, <2>5, StepsOnDisk DEF DiskCalls
<1> QED
  BY <1>1, <1>2, <1>3

\* What is at a path of one store, and at one of another.
LEMMA AlikeOnDisk ==
    ASSUME ~InS3, NEW s, NEW t, NEW p \in Paths, NEW q \in Paths, t[q] = s[p]
    PROVE  SameAt(s, p, t, q)
<1>1. Root \notin Paths
  BY PathShapes DEF Paths
<1> QED
  BY <1>1 DEF SameAt, FileAt, DirAt, Kind

LEMMA PutLeavesAlone ==
    ASSUME HiddenInv, DiskInv, ~InS3, NEW k, k.path \in Paths, k.op # "rename",
           NEW object \in LocalObjects \cup {None}
    PROVE  LeavesAlone(k, store, Put(k.path, object))
<1>1. \A q \in Paths \ {k.path} : Put(k.path, object)[q] = store[q]
  BY KindOfPut DEF DiskInv
<1>2. \A q \in Paths \ {k.path} : FileAt(Put(k.path, object), q) = FileAt(store, q)
  BY <1>1, AlikeOnDisk DEF SameAt
<1> QED
  BY <1>2 DEF LeavesAlone, Concerns

LEMMA DiskDoesWhatItSays ==
    ASSUME HiddenInv, DiskInv, ~InS3, DOMAIN before = Clients, Next,
           NEW c \in Clients, Undisturbed(c), EndsAlone(c), crashes' = crashes
    PROVE  /\ LeavesAlone(call[c], before[c], store')
           /\ answer' = "ok" => Done(call[c], before[c], store')
<1>1. /\ call[c] # None /\ call'[c] = None /\ before[c] = store
      /\ call[c].request = "rename" => store[call[c].to] = None
  BY DEF EndsAlone, Alone, Undisturbed
<1>2. /\ Suits(call[c]) /\ call[c].path \in Paths /\ call[c].to \in Paths
      /\ ShapeOf(store, temps) /\ Root \notin Paths
  BY <1>1, PathShapes DEF DiskInv, Suits, Paths
<1> DEFINE p == call[c].path
           to == call[c].to
           Goal == /\ LeavesAlone(call[c], before[c], store')
                   /\ answer' = "ok" => Done(call[c], before[c], store')
<1>3. CASE store' = store /\ answer' # "ok"
  BY <1>1, <1>3, NothingChanged
<1>4. ASSUME NEW r \in LocalRequests PROVE ~Goes(c, r)
  <2>1. Goes(c, r) => call'[c] = [call[c] EXCEPT !.request = r]
    BY DEF Goes, HiddenInv
  <2>2. [call[c] EXCEPT !.request = r] \in LocalCalls
    BY <1>2 DEF Suits, LocalCalls
  <2> QED
    BY <1>1, <2>1, <2>2, NoObjectIsNone
<1>5. {"create", "publish", "unlink", "statTarget", "rename"} \subseteq LocalRequests
  BY DEF LocalRequests
<1>6. CASE Stats(c) \/ Creates(c)
  <2>1. store' = store
    BY <1>6 DEF Stats, StatsNew, PermitsChange, StatsTarget, Creates, Same, Stays, Becomes
  <2>2. answer' # "ok"
    BY <1>4, <1>5, <1>6 DEF Stats, StatsNew, PermitsChange, StatsTarget, Creates, Returns
  <2> QED
    BY <1>3, <2>1, <2>2
<1>7. CASE Publishes(c)
  <2>1. CASE store' = Put(p, New("file", 2))
    <3>1. call[c].op = "put"
      BY <1>2, <1>7 DEF Publishes, Makes, Suits
    <3>2. store'[p] = New("file", 2)
      BY <1>2, <2>1, NewObjects, KindOfPut
    <3>3. FileAt(store', p) = 2
      BY <1>2, <3>2, NewObjects, NoObjectIsNone DEF FileAt, Kind
    <3>4. LeavesAlone(call[c], store, store')
      BY <1>2, <2>1, <3>1, NewObjects, PutLeavesAlone
    <3> QED
      BY <1>1, <3>1, <3>3, <3>4 DEF Done
  <2>2. CASE store' = store /\ answer' = "failure"
    BY <1>3, <2>2
  <2> QED
    BY <1>7, <2>1, <2>2 DEF Publishes, Stays, Becomes, Returns
<1>8. CASE MakesDirectory(c)
  <2>1. CASE store' = Put(p, New("directory", 0))
    <3>1. call[c].op = "mkdir"
      BY <1>2, <1>8 DEF MakesDirectory, Makes, Suits
    <3>2. store'[p] = New("directory", 0)
      BY <1>2, <2>1, NewObjects, KindOfPut
    <3>3. DirAt(store', p)
      BY <1>2, <3>2, NewObjects, NoObjectIsNone DEF DirAt, Kind
    <3>4. LeavesAlone(call[c], store, store')
      BY <1>2, <2>1, <3>1, NewObjects, PutLeavesAlone
    <3> QED
      BY <1>1, <3>1, <3>3, <3>4 DEF Done
  <2>2. CASE store' = store /\ answer' = "exist"
    BY <1>3, <2>2
  <2> QED
    BY <1>8, <2>1, <2>2 DEF MakesDirectory, Same, StoreOnly, Stays, Becomes, Returns
<1>9. CASE Unlinks(c)
  <2>1. CASE store' = Put(p, None)
    <3>1. call[c].op = "remove"
      BY <1>2, <1>9 DEF Unlinks, Makes, Suits
    <3>2. store'[p] = None
      BY <1>2, <2>1, KindOfPut
    <3>3. FileAt(store', p) = None /\ ~DirAt(store', p)
      BY <1>2, <3>2 DEF FileAt, DirAt, Kind
    <3>4. LeavesAlone(call[c], store, store')
      BY <1>2, <2>1, <3>1, PutLeavesAlone
    <3> QED
      BY <1>1, <3>1, <3>3, <3>4 DEF Done
  <2>2. CASE store' = store /\ answer' \in {"notExist", "failure"}
    BY <1>3, <2>2
  <2> QED
    BY <1>9, <2>1, <2>2 DEF Unlinks, Same, StoreOnly, Stays, Becomes, Returns
<1>10. CASE Renames(c)
  <2>1. call[c].op = "rename" /\ to # p /\ Parent(to) = Parent(p) /\ store[to] = None
    BY <1>1, <1>2, <1>10 DEF Renames, Makes, Suits
  <2>2. CASE store' = Moved(p, to)
    <3>1. /\ p \in Top <=> to \in Top
          /\ store'[to] = store[p] /\ store'[p] = None
          /\ \A q \in Paths : ~Beneath(p, q) /\ ~Beneath(to, q) => store'[q] = store[q]
          /\ \A q \in Paths \ Top : p \in Top /\ Parent(q) = to =>
                store'[q] = store[Append(p, q[2])]
      BY <1>2, <2>1, <2>2, WhatMoves
    <3> HIDE DEF p, to
    <3>2. p \in Paths /\ to \in Paths
      BY <1>2 DEF p, to
    <3>3. SameAt(store, p, store', to)
      BY <3>1, <3>2, AlikeOnDisk
    <3>4. FileAt(store', p) = None /\ FileAt(store, to) = None
      BY <1>2, <2>1, <3>1, <3>2 DEF FileAt, Kind
    <3>5. \A q \in Paths : ~Beneath(p, q) /\ ~Beneath(to, q) => FileAt(store', q) = FileAt(store, q)
      BY <3>1, AlikeOnDisk DEF SameAt
    <3>6. ASSUME NEW m \in Members, p \in Top PROVE SameAt(store, p \o <<m>>, store', to \o <<m>>)
      <4>1. \A d \in Top : /\ Append(d, m) \in Paths \ Top /\ Parent(Append(d, m)) = d
                           /\ Append(d, m)[2] = m /\ d \o <<m>> = Append(d, m)
        BY PathShapes
      <4>2. /\ to \o <<m>> \in Paths \ Top /\ Parent(to \o <<m>>) = to /\ (to \o <<m>>)[2] = m
            /\ p \o <<m>> = Append(p, m) /\ p \o <<m>> \in Paths
        BY <3>1, <3>6, <4>1
      <4>3. store'[to \o <<m>>] = store[p \o <<m>>]
        BY <3>1, <3>6, <4>2
      <4> QED
        BY <4>2, <4>3, AlikeOnDisk
    <3>7. LeavesAlone(call[c], store, store')
      <4>1. \A q \in Paths : ~Concerns(call[c], q) => FileAt(store', q) = FileAt(store, q)
        BY <2>1, <3>5 DEF Concerns, p, to
      <4>2. FileAt(store', to) = FileAt(store, p)
        BY <3>3 DEF SameAt
      <4> QED
        BY <3>4, <4>1, <4>2 DEF LeavesAlone, p, to
    <3>8. Free(store, to)
      BY <1>2, <2>1, <3>2, <3>4 DEF Free, DirAt, Kind
    <3>9. Done(call[c], store, store')
      BY <2>1, <3>3, <3>4, <3>6, <3>8 DEF Done, p, to
    <3> QED
      BY <1>1, <3>7, <3>9
  <2>3. CASE store' = store /\ answer' \in {"notExist", "failure"}
    BY <1>3, <2>3
  <2> QED
    BY <1>10, <2>2, <2>3 DEF Renames, Same, Stays, Becomes, Returns
<1>11. CASE LeavesBehind(c)
  BY <1>3, <1>11 DEF LeavesBehind, Stays, Becomes, Returns
<1>12. ASSUME NEW e \in Clients, e # c, Givings(e) \/ Stats(e) \/ Makings(e) PROVE FALSE
  BY <1>1, <1>12, GivingIs, OneDiskCallMoves
<1>13. ~Givings(c)
  BY <1>1, GivingIs
<1>14. ~Crashes
  BY DEF Crashes, HiddenInv
<1>15. ~SomeoneLocal
  BY <1>1 DEF SomeoneLocal, FromOutside
<1> QED
  BY <1>6, <1>7, <1>8, <1>9, <1>10, <1>11, <1>12, <1>13, <1>14, <1>15, StepsOnDisk
     DEF Makings

DoneInBucket == InS3 => \A c \in Clients : DoneSofar(c)

(* A call that nothing else got in the way of did what it says, and one    *)
(* that fails has left alone what it does not concern.                     *)
(* (s3fs.go and localfs.go: Create, Mkdir, Remove, Rename)                 *)
THEOREM CallsDoWhatTheySay == Spec => DoesWhatItSays
<1>1. Init => DiskCalls /\ DoneInBucket
  BY DEF Init, CallsInit, DiskCalls, Undisturbed, DoneInBucket, DoneSofar
<1>2. BucketHolds /\ DoneInBucket /\ [Next]_vars => DoneInBucket'
  <2> SUFFICES ASSUME BucketHolds, DoneInBucket, [Next]_vars, InS3', NEW c \in Clients
               PROVE  DoneSofar(c)'
    BY DEF DoneInBucket
  <2>1. InS3
    BY SetupStays DEF InS3
  <2>2. CASE Next
    BY <2>1, <2>2, DoneSofarStep DEF BucketHolds, DoneInBucket
  <2>3. CASE UNCHANGED vars
    BY <2>1, <2>3 DEF DoneInBucket, DoneSofar, Alone, Sofar, Under, vars, callVars
  <2> QED
    BY <2>2, <2>3
<1>3. ASSUME HiddenInv, DiskInv, BucketHolds, DiskCalls, DoneInBucket, [Next]_vars,
             NEW c \in Clients, EndsAlone(c), crashes' = crashes
      PROVE  /\ LeavesAlone(call[c], before[c], store')
             /\ answer' = "ok" => Done(call[c], before[c], store')
  <2>1. Next
    BY <1>3 DEF EndsAlone, vars, callVars
  <2>2. CASE InS3
    BY <1>3, <2>1, <2>2, BucketDoesWhatItSays DEF BucketHolds, DoneInBucket
  <2>3. CASE ~InS3
    BY <1>3, <2>1, <2>3, DiskDoesWhatItSays DEF DiskCalls
  <2> QED
    BY <2>2, <2>3
<1>4. Spec => [](HiddenInv /\ DiskInv /\ BucketHolds)
  BY DiskInvariant, BucketAlways, PTL
<1>5. HiddenInv /\ DiskInv /\ BucketHolds /\ DiskCalls /\ DoneInBucket /\ [Next]_vars =>
          \A c \in Clients : EndsAlone(c) /\ crashes' = crashes =>
              /\ LeavesAlone(call[c], before[c], store')
              /\ answer' = "ok" => Done(call[c], before[c], store')
  BY <1>3
<1> QED
  BY <1>1, <1>2, <1>4, <1>5, DiskCallsStep, PTL DEF Spec, DoesWhatItSays
=============================================================================
