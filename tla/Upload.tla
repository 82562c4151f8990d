------------------------------- MODULE Upload -------------------------------
(***************************************************************************)
(* The uploads of one connection, from the slot an upload takes to the     *)
(* file it publishes.  Modelled together, because a property of one half   *)
(* is kept by the other:                                                   *)
(*   server/sftpfs.go    uploadLimiter, uploadWriter, tracedWriter         *)
(*   server/scp_sink.go  receiveFile, receiveContents                      *)
(*   vfs/vfs.go          sizeLimitedWriter                                 *)
(*   vfs/staging.go      StagedWriter, for the HTTP and S3 backends        *)
(*   localfs/file.go     upload, for the local one                         *)
(*                                                                         *)
(* Every upload names the same file and runs on a channel of its own, the  *)
(* most concurrent case there is.  A file is the set of chunks written to  *)
(* it.  pkg/sftp, which drives the handles, is external: it runs writes in *)
(* parallel, holds a CLOSE back until the writes before it are answered,   *)
(* and when its session ends reports the failure on every handle still     *)
(* open (TransferError) and then closes it.                                *)
(***************************************************************************)
EXTENDS Naturals, FiniteSets

CONSTANTS
    Uploads,   \* attempts to upload
    Scp,       \* those received by the SCP sink; the others are SFTP handles
    Local,     \* those stored by localfs; the others are staged and sent
    Chunks,    \* the pieces of a file, numbered from its start
    Announced, \* the files SCP clients announce, each from the first piece on
    Oversize,  \* the pieces that end past the node's maxUploadSize
    MaxConcurrentUploads, \* slots of the limiter; 0 is a nil limiter
    LateWrites, \* whether a client pipelines writes behind its own CLOSE
    None,      \* nobody has published yet
    Nothing    \* not a file's content

ASSUME UploadAssumption ==
    /\ IsFiniteSet(Uploads)
    /\ Scp \subseteq Uploads
    /\ Local \subseteq Uploads
    /\ None \notin Uploads
ASSUME ChunkAssumption ==
    /\ Chunks \subseteq Nat
    /\ Announced \subseteq SUBSET Chunks
    /\ Oversize \subseteq Chunks
    /\ \A S \in SUBSET Chunks : Nothing # S
ASSUME LimitAssumption ==
    /\ MaxConcurrentUploads \in Nat
    /\ LateWrites \in BOOLEAN

VARIABLES
    slots,     \* how full the limiter's channel is
    phase,     \* where each upload is
    released,  \* its release has run: once, or the end of receiveFile
    err,       \* the writer's sticky error
    file,      \* its staging file or temporary: "none", "open", "closed"
    temp,      \* its temporary still has a name on disk (localfs only)
    sent,      \* chunks the client has sent
    inflight,  \* chunks a WriteAt is storing
    landed,    \* chunks stored
    failure,   \* receiveContents: a write failed, and writing has stopped
    promised,  \* what the client said it had finished sending
    content,   \* what the upload published
    current,   \* whose content the file's name leads to
    reply,     \* what the client was told of the whole upload
    dropped    \* the connection is gone

vars == <<slots, phase, released, err, file, temp, sent, inflight, landed,
          failure, promised, content, current, reply, dropped>>

limiter == <<slots, released>>
writer == <<err, file, temp>>
data == <<sent, inflight, landed, failure>>
outcome == <<promised, content, current, reply>>

Phases == {"idle", "refused", "creating", "open", "closeSent", "closing",
           "committing", "closed", "aborted", "done"}

TypeOK ==
    /\ slots \in Nat
    /\ phase \in [Uploads -> Phases]
    /\ released \in [Uploads -> BOOLEAN]
    /\ err \in [Uploads -> BOOLEAN]
    /\ file \in [Uploads -> {"none", "open", "closed"}]
    /\ temp \in [Uploads -> BOOLEAN]
    /\ sent \in [Uploads -> SUBSET Chunks]
    /\ inflight \in [Uploads -> SUBSET Chunks]
    /\ landed \in [Uploads -> SUBSET Chunks]
    /\ failure \in [Uploads -> BOOLEAN]
    /\ promised \in [Uploads -> {Nothing} \cup SUBSET Chunks]
    /\ content \in [Uploads -> {Nothing} \cup SUBSET Chunks]
    /\ current \in Uploads \cup {None}
    /\ reply \in [Uploads -> {"none", "ok", "failure"}]
    /\ dropped \in BOOLEAN

Init ==
    /\ slots = 0
    /\ phase = [u \in Uploads |-> "idle"]
    /\ released = [u \in Uploads |-> FALSE]
    /\ err = [u \in Uploads |-> FALSE]
    /\ file = [u \in Uploads |-> "none"]
    /\ temp = [u \in Uploads |-> FALSE]
    /\ sent = [u \in Uploads |-> {}]
    /\ inflight = [u \in Uploads |-> {}]
    /\ landed = [u \in Uploads |-> {}]
    /\ failure = [u \in Uploads |-> FALSE]
    /\ promised = [u \in Uploads |-> Nothing]
    /\ content = [u \in Uploads |-> Nothing]
    /\ current = None
    /\ reply = [u \in Uploads |-> "none"]
    /\ dropped = FALSE

Goto(u, p) == phase' = [phase EXCEPT ![u] = p]
Tell(u, answer) == reply' = [reply EXCEPT ![u] = answer]

Limited == MaxConcurrentUploads > 0

-----------------------------------------------------------------------------
(* uploadLimiter: a slot is taken without waiting for one.                 *)
Acquire(u) ==
    /\ phase[u] = "idle"
    /\ ~dropped
    /\ IF Limited
          THEN slots < MaxConcurrentUploads /\ slots' = slots + 1
          ELSE UNCHANGED slots
    /\ Goto(u, "creating")
    /\ UNCHANGED <<released, writer, data, outcome, dropped>>

AcquireRefused(u) ==
    /\ phase[u] = "idle"
    /\ ~dropped
    /\ Limited
    /\ slots >= MaxConcurrentUploads
    /\ Goto(u, "refused")
    /\ Tell(u, "failure")
    /\ UNCHANGED <<limiter, writer, data, promised, content, current, dropped>>

\* The release func: a receive, which would wait on an empty channel.
Release(u) ==
    /\ IF Limited THEN slots > 0 /\ slots' = slots - 1 ELSE UNCHANGED slots
    /\ released' = [released EXCEPT ![u] = TRUE]

\* Mutant: uploadWriter without its sync.Once.
ReleaseEveryTime(u) == Release(u)

\* Mutant: the same, with a counter in place of the channel.
ReleaseBlindly(u) ==
    /\ slots' = slots - 1
    /\ released' = [released EXCEPT ![u] = TRUE]

ReleaseOnce(u) == IF released[u] THEN UNCHANGED limiter ELSE Release(u)

CreateFails(u) ==
    /\ phase[u] = "creating"
    /\ Release(u)
    /\ Goto(u, "done")
    /\ Tell(u, "failure")
    /\ UNCHANGED <<writer, data, promised, content, current, dropped>>

Create(u) ==
    /\ phase[u] = "creating"
    /\ file' = [file EXCEPT ![u] = "open"]
    /\ temp' = [temp EXCEPT ![u] = u \in Local]
    /\ Goto(u, "open")
    /\ UNCHANGED <<limiter, err, data, outcome, dropped>>

-----------------------------------------------------------------------------
(* WriteAt.  SFTP writes run side by side in any order; the sink reads the *)
(* file from start to end and writes a chunk at a time.                    *)
MaySend(u, c) ==
    /\ ~dropped
    /\ c \notin sent[u]
    /\ \/ phase[u] = "open"
       \/ phase[u] = "closeSent" /\ LateWrites
    /\ u \in Scp =>
          /\ inflight[u] = {}
          /\ \A d \in Chunks \ sent[u] : c <= d

\* The limit speaks before the writer does, and leaves no mark on it.
Rejected(u, c) ==
    \/ c \in Oversize
    \/ err[u]
    \/ failure[u]

WriteRejected(u, c) ==
    /\ MaySend(u, c)
    /\ Rejected(u, c)
    /\ sent' = [sent EXCEPT ![u] = @ \cup {c}]
    /\ failure' = [failure EXCEPT ![u] = u \in Scp]
    /\ UNCHANGED <<limiter, phase, writer, inflight, landed, outcome, dropped>>

WriteStarts(u, c) ==
    /\ MaySend(u, c)
    /\ ~Rejected(u, c)
    /\ sent' = [sent EXCEPT ![u] = @ \cup {c}]
    /\ inflight' = [inflight EXCEPT ![u] = @ \cup {c}]
    /\ UNCHANGED <<limiter, phase, writer, landed, failure, outcome, dropped>>

\* Mutant: localfs writes in place instead of under a temporary name.
WriteLandsInPlace(u, c) ==
    /\ c \in inflight[u]
    /\ inflight' = [inflight EXCEPT ![u] = @ \ {c}]
    /\ landed' = [landed EXCEPT ![u] = @ \cup {c}]
    /\ content' = [content EXCEPT ![u] = IF u \in Local THEN landed'[u] ELSE @]
    /\ current' = IF u \in Local THEN u ELSE current
    /\ UNCHANGED <<limiter, phase, writer, sent, failure, promised, reply, dropped>>

\* The bytes reach the file, which for localfs may already be the published one.
WriteLands(u, c) ==
    /\ c \in inflight[u]
    /\ inflight' = [inflight EXCEPT ![u] = @ \ {c}]
    /\ landed' = [landed EXCEPT ![u] = @ \cup {c}]
    /\ content' = [content EXCEPT ![u] =
                     IF u \in Local /\ @ # Nothing THEN @ \cup {c} ELSE @]
    /\ UNCHANGED <<limiter, phase, writer, sent, failure, promised, current,
                   reply, dropped>>

\* Mutant: a failed write answers the client and leaves the writer unmarked.
WriteFailsQuietly(u, c) ==
    /\ c \in inflight[u]
    /\ inflight' = [inflight EXCEPT ![u] = @ \ {c}]
    /\ failure' = [failure EXCEPT ![u] = u \in Scp]
    /\ UNCHANGED <<limiter, phase, writer, sent, landed, outcome, dropped>>

\* A full disk, a failed device, or a descriptor already closed.
WriteFails(u, c) ==
    /\ c \in inflight[u]
    /\ inflight' = [inflight EXCEPT ![u] = @ \ {c}]
    /\ err' = [err EXCEPT ![u] = TRUE]
    /\ failure' = [failure EXCEPT ![u] = u \in Scp]
    /\ UNCHANGED <<limiter, phase, file, temp, sent, landed, outcome, dropped>>

-----------------------------------------------------------------------------
(* Close.  The client's CLOSE waits for the writes before it; the handle   *)
(* leaves pkg/sftp's table when the close runs, so only a write already    *)
(* under way can overlap it.                                               *)
CloseArrives(u) ==
    /\ u \notin Scp
    /\ phase[u] = "open"
    /\ inflight[u] = {}
    /\ ~dropped
    /\ promised' = [promised EXCEPT ![u] = sent[u]]
    /\ Goto(u, "closeSent")
    /\ UNCHANGED <<limiter, writer, data, content, current, reply, dropped>>

CloseStarts(u) ==
    /\ phase[u] = "closeSent"
    /\ Goto(u, "closing")
    /\ UNCHANGED <<limiter, writer, data, outcome, dropped>>

\* The descriptor is closed, and with it goes all a staging file ever was.
Discard(u) ==
    /\ file' = [file EXCEPT ![u] = "closed"]
    /\ temp' = [temp EXCEPT ![u] = FALSE]

\* A write failed, or the upload was aborted: nothing is published.
CloseRefused(u) ==
    /\ phase[u] = "closing"
    /\ err[u]
    /\ Discard(u)
    /\ Goto(u, "closed")
    /\ Tell(u, "failure")
    /\ UNCHANGED <<limiter, err, data, promised, content, current, dropped>>

\* localfs bars further writes here, before the rename; staging never does.
CloseProceeds(u) ==
    /\ phase[u] = "closing"
    /\ ~err[u]
    /\ err' = [err EXCEPT ![u] = u \in Local]
    /\ Goto(u, "committing")
    /\ UNCHANGED <<limiter, file, temp, data, outcome, dropped>>

\* The backend's PUT or POST, or the rename, takes effect.
Publish(u) ==
    /\ content' = [content EXCEPT ![u] = landed[u]]
    /\ current' = u

Commit(u) ==
    /\ phase[u] = "committing"
    /\ Publish(u)
    /\ Discard(u)
    /\ Goto(u, "closed")
    /\ Tell(u, "ok")
    /\ UNCHANGED <<limiter, err, data, promised, dropped>>

\* The backend stored it, and its answer did not arrive.
CommitUnanswered(u) ==
    /\ phase[u] = "committing"
    /\ u \notin Local
    /\ Publish(u)
    /\ Discard(u)
    /\ Goto(u, "closed")
    /\ Tell(u, "failure")
    /\ UNCHANGED <<limiter, err, data, promised, dropped>>

\* Mutant: a rename that fails leaves the temporary where it was.
CommitFailsLeaving(u) ==
    /\ phase[u] = "committing"
    /\ file' = [file EXCEPT ![u] = "closed"]
    /\ Goto(u, "closed")
    /\ Tell(u, "failure")
    /\ UNCHANGED <<limiter, err, temp, data, promised, content, current, dropped>>

CommitFails(u) ==
    /\ phase[u] = "committing"
    /\ Discard(u)
    /\ Goto(u, "closed")
    /\ Tell(u, "failure")
    /\ UNCHANGED <<limiter, err, data, promised, content, current, dropped>>

\* The slot is given back once the writer's Close has returned.
CloseReturns(u) ==
    /\ phase[u] = "closed"
    /\ ReleaseOnce(u)
    /\ Goto(u, "done")
    /\ UNCHANGED <<writer, data, outcome, dropped>>

-----------------------------------------------------------------------------
\* Mutant: Abort closes the staging file and does not mark the writer.
AbortUnmarked(u) == Discard(u) /\ UNCHANGED err

(* Abort.  StagedWriter closes its file every time; localfs's upload does  *)
(* nothing once a write has failed, and leaves the discarding to a Close.  *)
Abort(u) ==
    /\ err' = [err EXCEPT ![u] = TRUE]
    /\ IF u \in Local /\ err[u] THEN UNCHANGED <<file, temp>> ELSE Discard(u)

\* The session ended with the handle open: TransferError.
TransferError(u) ==
    /\ u \notin Scp
    /\ phase[u] = "open"
    /\ dropped
    /\ inflight[u] = {}
    /\ Abort(u)
    /\ Goto(u, "aborted")
    /\ UNCHANGED <<limiter, data, outcome, dropped>>

\* The slot goes back.  pkg/sftp then closes the handle; the sink does not.
AbortReturns(u) ==
    /\ phase[u] = "aborted"
    /\ ReleaseOnce(u)
    /\ Goto(u, IF u \in Scp THEN "done" ELSE "closing")
    /\ UNCHANGED <<writer, data, outcome, dropped>>

-----------------------------------------------------------------------------
(* How receiveFile ends.  The client announces a size and then sends that  *)
(* much, which shows only here: its file is whole, whatever was stored.    *)
Received(u) == sent[u] \in Announced /\ inflight[u] = {}

\* The client's verdict is good, and so is what was stored.
SinkCloses(u) ==
    /\ u \in Scp
    /\ phase[u] = "open"
    /\ ~dropped
    /\ Received(u)
    /\ ~failure[u]
    /\ promised' = [promised EXCEPT ![u] = sent[u]]
    /\ Goto(u, "closing")
    /\ UNCHANGED <<limiter, writer, data, content, current, reply, dropped>>

\* A write failed, or the client says its own copy went wrong.
SinkAborts(u) ==
    /\ u \in Scp
    /\ phase[u] = "open"
    /\ ~dropped
    /\ Received(u)
    /\ Abort(u)
    /\ Goto(u, "aborted")
    /\ Tell(u, "failure")
    /\ UNCHANGED <<limiter, data, promised, content, current, dropped>>

\* The stream ended under an acknowledgement, the contents or the verdict.
SinkLost(u) ==
    /\ u \in Scp
    /\ phase[u] = "open"
    /\ dropped
    /\ inflight[u] = {}
    /\ Abort(u)
    /\ Goto(u, "aborted")
    /\ UNCHANGED <<limiter, data, outcome, dropped>>

Drop ==
    /\ ~dropped
    /\ dropped' = TRUE
    /\ UNCHANGED <<limiter, phase, writer, data, outcome>>

-----------------------------------------------------------------------------
\* What this side does, the backend's answers to it included.
Step(u) ==
    \/ CreateFails(u) \/ Create(u)
    \/ CloseStarts(u) \/ CloseRefused(u) \/ CloseProceeds(u)
    \/ Commit(u) \/ CommitUnanswered(u) \/ CommitFails(u) \/ CloseReturns(u)
    \/ TransferError(u) \/ AbortReturns(u) \/ SinkLost(u)
    \/ \E c \in Chunks : WriteLands(u, c) \/ WriteFails(u, c)

\* What its client does, the verdict that ends an SCP file included.
Client(u) ==
    \/ Acquire(u) \/ AcquireRefused(u)
    \/ \E c \in Chunks : WriteRejected(u, c) \/ WriteStarts(u, c)
    \/ CloseArrives(u) \/ SinkCloses(u) \/ SinkAborts(u)

Next ==
    \/ \E u \in Uploads : Client(u) \/ Step(u)
    \/ Drop

Spec == Init /\ [][Next]_vars

(* Goroutines are scheduled and a backend that was sent a file answers or  *)
(* fails; nothing makes a client finish, but its connection may end.       *)
FairSpec == Spec /\ \A u \in Uploads : WF_vars(Step(u))

-----------------------------------------------------------------------------
\* The uploads that hold a slot: a finished or refused one holds none.
Holders ==
    {u \in Uploads :
       \/ phase[u] \in {"creating", "open", "closeSent", "aborted"}
       \/ phase[u] \in {"closing", "committing", "closed"} /\ ~released[u]}

(* The limiter counts what it is there to count.  Every path an upload may *)
(* end by, Close and Abort of the same writer one after the other included,*)
(* gives its slot back exactly once: a slot given twice would let in more  *)
(* uploads than the user may have, and one never given would be lost to    *)
(* the connection for good.                                                *)
SlotsAreHeld ==
    Limited => slots = Cardinality(Holders) /\ slots <= MaxConcurrentUploads

(* Nothing is published but what a client finished sending: an upload its  *)
(* client abandoned, on either protocol, never replaces the file.          *)
AbandonedIsNotPublished ==
    \A u \in Uploads : content[u] # Nothing => promised[u] # Nothing

(* What is published holds every chunk the client sent before it finished, *)
(* except those the size limit turned away.  A write that failed in        *)
(* storage, whichever of several in flight it was, publishes nothing.      *)
PublishedIsWhole ==
    \A u \in Uploads : content[u] # Nothing => promised[u] \ Oversize \subseteq content[u]

(* An incomplete upload is never sent: what is published is what the       *)
(* client sent, with no exception for the size limit.                      *)
IncompleteIsNeverSent ==
    \A u \in Uploads : content[u] # Nothing => promised[u] \subseteq content[u]

(* An upload that is over has left nothing behind: no descriptor that      *)
(* keeps staging space taken, and no hidden temporary beside the file.     *)
NothingIsLeftBehind ==
    \A u \in Uploads : phase[u] = "done" => file[u] # "open" /\ ~temp[u]

(* A connection that ends leaves no upload unsettled, so every slot and    *)
(* every staging file comes back without the client's help.                *)
DroppedUploadsSettle ==
    dropped ~> \A u \in Uploads : phase[u] \in {"idle", "refused", "done"}

-----------------------------------------------------------------------------
(* The file as AtomicPut sees it: of what a client promised, the size      *)
(* limit has let through all but the chunks past it; of what is stored, a  *)
(* client vouches for no chunk that it sent behind its CLOSE.              *)
Settling(u) == phase[u] \in {"closeSent", "closing", "committing"}

PutState(u) ==
    IF promised[u] = Nothing THEN "unfinished"
    ELSE IF Settling(u) THEN "offered" ELSE "settled"

Offered(u) == IF promised[u] = Nothing THEN Nothing ELSE promised[u] \ Oversize

Vouched(u) ==
    IF promised[u] = Nothing THEN content[u] ELSE content[u] \cap promised[u]

PutStore ==
    [by |-> current, data |-> IF current = None THEN Nothing ELSE Vouched(current)]

Put == INSTANCE AtomicPut WITH
    Contents <- SUBSET Chunks,
    Initial <- Nothing,
    state <- [u \in Uploads |-> PutState(u)],
    offered <- [u \in Uploads |-> Offered(u)],
    answer <- reply,
    store <- PutStore

(* Uploads implement atomic replacement, whatever a client writes behind   *)
(* its own CLOSE: what it promised within the size limit replaces the file *)
(* in one step or not at all, and is there entire once it is told "ok".    *)
ImplementsAtomicPut == Put!Spec
=============================================================================
