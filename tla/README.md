# sftp-proxy in TLA+

sftp-proxy is an SSH server that answers SFTP and SCP clients out of somebody
else's storage: an HTTP backend, a local directory or an S3 bucket. This
directory holds a specification of the parts of it where order and failure
matter, the TLC configurations that check it on small instances, and proofs of
its most important invariants for instances of any size.

Paths below are relative to `src/server/internal/` unless they start with `src/`.

## 1. Inventory

### Components

| component | state | operations | talks to |
|---|---|---|---|
| Reading a file over HTTP, `httpfs/read.go` | per handle: the reader chosen, the gate of the probe in flight, closed; per range reader the length it learnt; per staged reader a file on disk | `ReadAt`, `Size`, `Close`, from many goroutines at once | the backend by GET; the staging directory; the operation's context |
| Uploads, `server/sftpfs.go`, `vfs/staging.go`, `localfs/file.go`, `vfs/vfs.go` (`sizeLimitedWriter`) | per connection: slots taken; per upload: sticky error, staging file or temporary, whether its slot was given back | acquire, create, parallel `WriteAt`, `Close`, `Abort`, `TransferError` | pkg/sftp or the SCP sink above, a backend below |
| Virtual filesystem, `vfs/vfs.go` | per connection: path -> node last resolved, under a mutex | `Stat`, `List`, `Open`, `Create`, `Mkdir`, `Remove`, `Rename` | every channel of the connection above, backends below |
| SCP, `server/scp.go`, `scp_sink.go`, `scp_source.go` | per session: command, whether a path was refused, the stack of targets or the walk, the file in hand | the two directions of the protocol | the client by a byte stream; the virtual filesystem; the upload limiter |
| SFTP adapter, `server/sftpfs.go` | per session: nothing but what is above | `Fileread`, `Filewrite`, `Filecmd`, `Filelist` | pkg/sftp; the virtual filesystem |
| HTTP backend, `httpfs/httpfs.go` | none | list, create, mkdir, remove, rename: a request each | an HTTP server |
| Local files, `localfs/localfs.go`, `file.go` | the host's directories, through `os.Root` | the backend contract, under a permission mask | the operating system |
| S3, `s3fs/s3fs.go`, `read.go` | none; a directory is a prefix or a marker | the backend contract; paged listings; rename as copy and delete | an S3 store |
| Server, `server/server.go` | listeners, one goroutine per connection and channel, keepalive state | accept, handshake with a grace time, channel and request loops, `clientAlive`, shutdown | everything above |
| Authentication, `auth/auth.go` | per handshake: the policy looked up | password and public-key callbacks | a static list or an HTTP server |
| Configuration, `config/config.go` | none after start | parse and validate | - |
| Headers, telemetry, command | immutable or irrelevant to behaviour | - | - |

`PROJECT.json` lists the same components with their status.

### How they interact

A connection owns one `FS` and one `uploadLimiter`, shared by all its channels
(`server.go:217-237`). A channel runs either an SFTP session (pkg/sftp: eight
workers for reads and writes, one for everything else, so commands of a channel
run in sequence and those of two channels do not) or one SCP session, a single
goroutine. pkg/sftp holds a CLOSE back until the reads and writes before it are
answered, takes the handle from its table when the close runs, and at the end of
a session reports a `TransferError` on every handle still open and then closes
it. The end of a client's connection cancels no context: only closing a handle
and the process's own shutdown do.

### What is hard here, and what has to be true

* *Reading.* SFTP clients pipeline. A burst of reads reaches a handle that does
  not know yet whether its backend serves ranges. Exactly one must ask; the others
  must wait and get through whatever becomes of it; a whole-file answer must be
  kept once; and a close at any moment must leave nothing on disk.
* *Uploading.* An upload ends in one of many ways, on two protocols and two kinds
  of writer: closed, closed after a failed write, aborted, aborted and then
  closed, cut off. A slot has to come back once on each, and a file replaced only
  by something whole that its client finished.
* *The cache.* Resolution results outlive the operation that computed them, while
  renames move whole subtrees and a location may be nothing but a path. A stale
  entry sends a remove or an upload to another file.
* *SCP.* Nothing frames the stream. A refusal in place of an answer, a failed
  write, a short file, a directory that could not be made: after each the ends
  must agree on what comes next, on whose turn it is, and on where the next entry
  belongs, and at the end the exit status has to own up to all of it.
* *Logging in.* The client may change its name between attempts, a policy is
  cached, and the backend is asked about a key before anybody has signed with it.
  Who is let in must be the very name that was vouched for, with that very proof.
* *Staying connected.* A login deadline, a callback that waits for a backend, and
  a prober whose answers may come late or pile up behind one that never comes.
  Silent clients have to go, and nobody else.
* *Shared places.* A bucket or a directory belongs to no connection. A call on it
  is several requests, with anything between any two of them: another call, an
  outsider, a failure whose effect is unknown, on disk a crash.
* *Consent.* What a deployment will serve is decided when the document is read and
  again at request time, by two pieces of code that have to agree.

`PROJECT.json` lists each hazard at its line, with the properties that cover it
or the reason none does.

## 2. Modules

| module | what it is |
|---|---|
| `OpenFile` | a handle of `httpfs`: probe, gate, readers, close |
| `OpenFileProofs` | its invariants, proved |
| `AtomicPut` | abstract: a file replaced whole, in one step, by what a client finished sending |
| `Upload` | the uploads of a connection; implements `AtomicPut` |
| `UploadProofs` | its invariants and the refinement, proved |
| `VFS` | path resolution, the cache and the seven operations, over an external backend |
| `VFSProofs` | its types, the cache, and what its operations answer and change, proved |
| `ScpSession`, `ScpSink`, `ScpSource`, `Scp` | the stream and turn taking; the receiving and the sending half, each with the client at the other end; the two put together, and what must hold |
| `ScpTypeProofs`, `ScpProofs`, `ScpFilesProofs` | its types; that the ends stay in step; where files land and what success says; each extends the one before, all proved |
| `Config` | the configuration document: what makes one valid, what is read from it, and what serves a node at request time; no state |
| `Auth` | the authentication of one connection: callbacks, the cached lookup, what is accepted of a backend's answers |
| `Connection` | one connection from accept to its end, `Auth` inside it, with its deadline and `clientAlive` |
| `Server` | the process: configuration, listeners, accept loops, shutdown, and one `Connection` at a time |
| `ServerProofs` | listeners, sessions, probes, types and what a valid document is served from, proved |
| `BackendCalls` | what a call of a backend on a shared place is: requests, an outcome, and what else happened meanwhile |
| `S3`, `LocalFS` | the two backends that are shared, request by request |
| `Backends` | a place served by one of them, and what a call promises whichever it is |
| `BackendsProofs` | hidden files, listings, consent, what calls do and types, proved |
| `MCOpenFile`, `MCUpload`, `MCVFS`, `MCScp`, `MCServer`, `MCBackends` | instances for TLC; `MC*.cfg` are the runs |

A definition whose comment begins with "Mutant" is no part of the model. It is a
plausible mistake in the code, and TLC finds the property it is listed with in
`PROJECT.json` violated when it takes the place of the definition it varies.

### OpenFile and the code

A goroutine inside `ReadAt` or `Size` is a process with its own `pc`. `next`
looks at the handle under its mutex and so is one atomic step with four outcomes
(`NextRefuses`, `NextForwards`, `NextWaits`, `NextProbes`). Everything that
happens outside the mutex is separate steps: the request (`fetch`), the copy to
disk (`stage`), `adopt`, the first read (`reread`), clearing `probing` (`settle`)
and closing the gate (`broadcast`). The last two are apart because in the code a
new probe can start between them. Readers are named by the goroutine that built
them, gates by the probe that closes them. Bytes are abstracted to whether a read
returned any, lengths to members of `Sizes`. `Cancel` is the process's signal
context (`src/server/cmd/sftp-proxy/main.go:62-70`), `Close` the first half of
`Close` and `CloseReleases` the second, with the operation's `finish`. SFTP asks
a handle's length nowhere; SCP does from its one goroutine (`Sizers`).

### Upload and the code

Every upload names the same file and has a channel of its own: the most
concurrent case. A chunk is sent, is in flight and lands or fails, with any
number in flight. `err` is the sticky error of both `StagedWriter` and localfs's
`upload`, read and written without a lock, so a write may or may not see it. For a
client that waits for its writes before it closes this decides nothing, since
`Close` runs after them. `ReleaseOnce` is the `sync.Once`
of `uploadWriter`. An SCP upload (`Scp`) is closed or aborted, never both; an SFTP
one is aborted by `TransferError` and closed by pkg/sftp afterwards. `Local` uploads
rename a temporary over the name, the others send a staging file; a backend may
take the file and its answer be lost (`CommitUnanswered`). `Announced` are the
files an SCP client may announce: it sends all of one. `Oversize` chunks lie
past `maxUploadSize` and are refused without a mark on the writer.

### VFS and the code

`resolved` is `FS.resolved`. Each look at it and each change of it is one step,
and each backend call is one step, as the mutex covers the map and nothing else.
`resolve` takes the longest remembered prefix and walks one listing at a time,
remembering each child. The backend's store maps paths to objects with a
location. A location is either assigned and kept through a rename, or the path
itself (`PathLocs`), in which case a rename relocates a subtree. A directory in
`InlineDirs` is listed with its children inline and has no backend of its own.

`LocsHold` is when a location leads to where it was found, whoever remembers it:
locations are paths, or are kept in a rename and there is one channel and no
directory listed inline. Otherwise a rename takes the location elsewhere while
another channel, or the children remembered with their directory, still have it
under the old name, and an operation by that name acts on what was renamed; TLC
finds this of a remove, for one channel and for two. `CacheIsTrue`, `NotFoundIsTrue`,
`ListingIsFresh` and `RemovesWhatItNames` speak of connections where `LocsHold`.

### Scp and the code

The stream is a sequence of words each way: a word is what is written at a time
and read at a time. The server's `pc` is the place in the code where it reads or
writes next: `line` and `contents` are `receive` and `receiveContents`; `walk`,
`timed`, `asked`, `contents` and `closed` follow `sendNode`. The recursion of
`sendNode` is the stack `work`; that of the sink is the code's own `stack`
(`frames`). `refused` and `status` are `scpSession.refused` and the exit status.
Any `Stat`, `List`, `Open`, `Create`, `Mkdir`, write or close may fail. The
client follows the protocol and is free in what it sends: it may also decline what
it is offered, break the protocol, report a problem of its own after a file, or
lose the connection at any moment, taking any tail of what it sent with it.
`SkipsRefused` chooses between the two clients there are: one that sends what is
in a refused directory, as the comments and the test of `scp_sink.go` have it, and
OpenSSH's, which does not.

### Config, Auth, Connection, Server and the code

A document is a record, and each `Validate` a predicate on a part of it, since a
document is refused as a whole. A tree of entries is the sequence of its nodes with
their paths, so that `walkEntries` is a quantifier. A URL is a scheme, path
segments and whether it is sound; `Clean`, `Inside` and `Overlaps` are computed,
since consent rests on them. `Serving`, `ResolvesLocally`, `ResolvesInS3` and
`Served` are the request-time side, translated from `server.go`, `localfs.go`,
`s3fs.go` and `vfs.go` and not from `config.go`.

`Auth` follows a callback from the client's request (`Ask`) to its end (`Granted`,
`Refused`), with one POST under way at a time (`posting`). `lookup` is
`fullAuth.lookup` with `lookedUpUser`. x/crypto/ssh is external, and modelled as far
as it decides the outcome: it calls back for a key before it has a signature,
remembers the last answer for a name and a key (`candidates`, `AskAgain`), and gives
up after `MaxTries`. Its cache has one entry: a key asked about again after another
one is called back for again.

`Connection` takes that from accept (`Connect`) through `Serve`, where the deadline
is cleared and `clientAlive` starts, to `ChannelsEnd`, where `done` is closed. A
probe is a goroutine of its own in `SendRequest`; `probe` is the current one,
`inside` whether the one that has `SendRequest`'s mutex is current or old, and
`waiting` the old ones behind it. Since x/crypto keeps that mutex until the answer
comes, a probe behind one that is unanswered is not even sent. `GetsIn` is
`sync.Mutex`: who comes by as it is let go of may take it before the one it woke
(`mutexMode` is "normal"), and one that was woken for nothing makes it "starvation",
in which those who wait have it in their order. Bound: one that is overtaken learns
of it before the other is out again. What the login kept is dropped in `Serve`,
where it stops mattering.

`Server` is `main`, `New`, `listenAll`, `ListenAndServe` and `serveListener`. An
accept that fails is tried again at once and changes nothing. Connections outlive
`ListenAndServe`, in the model too. A session's channel and what runs on it are
the other modules'.

### S3, LocalFS, Backends and the code

A call begins when the virtual filesystem has found its node (`Begin`), and its
requests follow one step each, so a node may be out of date by its first request.
`answer` is how the last call ended. `before` is a history: the place as it was
when a call began, while nothing else has changed it; what a call promises is
stated for the calls that have it at their end.

In `S3` a directory is there while a key begins with its prefix. Any request may
fail and have had its effect (`RequestFails`). `List` takes a page a step;
`always` and `ever` are histories of what was in the directory throughout and at
some time. In the real order of keys, `n` comes before `n/` with keys such as `n!`
between them; here they are neighbours, which pages of one entry still separate.
`KeysAskedFor` is the 2 of `removeDirectory`.

In `LocalFS` modes and masks are sets of `r` and `w`. A node's mask is computed from
the deployment's down (`Reached`, `Shown`, `Mask`), as `List` and `Child` state it.
`temps` holds, per directory, the uploads that have a hidden file in it, and `None`
for files whose upload will not come back for them. Writing to one is `Upload`'s
business. `Publishes` is every end of an upload that removes its file or puts it in
place; `LeavesBehind` is the one that does neither, an `Abort` after a failed write
with no `Close` to follow. `Crashes` ends every call and leaves the disk. `moved`,
`botched` and `crashes` are histories of the three ways to lose a hidden file.

## 3. Runs

| run | instance | shows |
|---|---|---|
| `openfile` | 3 goroutines, 2 offsets, answers that state length 1, 2 or none | safety of the handle: one probe, one copy, nothing left behind, the reader and the length settled once |
| `openfile_live` | 2 goroutines, one of which may ask the length | reads at the gate get through if the backend answers; closing ends every read even if it does not |
| `upload_publish` | 3 uploads (one SCP, one local SFTP, one staged SFTP), 2 chunks of which one oversize, SCP files of one or both, 2 slots, writes behind CLOSE | slots counted; what is published was finished and is whole; nothing is left behind; `Upload` implements `AtomicPut`; a lost connection settles every upload |
| `vfs` | three setups: 1 channel, 4 paths, assigned locations; the same with path locations and a directory listed inline; 2 channels, 2 paths, path locations | what one channel remembers is true and what it took away is forgotten; a stale entry one channel left misdirects neither a listing nor a remove of the other |
| `scp` | both directions, 3 entries announced, depth 2, up to 2 pieces a file; 4 trees to download | ends in step, never both waiting, files where they belong, a truthful exit status, an end |
| `server` | 15,292 documents; 2 names, 2 keys of which the client owns one, 3 lookup policies, 2 failures; 3 keepalive policies; one connection at a time | valid documents can be served; sessions are vouched for; silent clients go and others stay; every probe comes back; a process told to stop listens no more and returns |
| `backends` | 2 calls in all, at once or one after the other, 2 names and one member beneath each, 1 change from outside, 1 crash; 6 buckets, from all permitted to reading or one kind of change alone, and 3 directories, with pages of 1 and 2 and limits of 1 and 2 | calls do what they say, failed ones lose nothing, listings are honest, what is withheld stays so, hidden files are uploads' |
| `upload_truncated` (violation) | 1 staged SFTP upload | finding 1 |
| `upload_scp_local` (violation) | 1 local SCP upload | finding 2 |
| `vfs_two_channels` (violation) | 2 channels | finding 3 |
| `scp_skips` (violation) | as `scp`, with OpenSSH's client | finding 4 |
| `rename_onto_directory` (violation) | 1 call on a bucket, nobody else there | finding 5 |

### Bounds, and why they are enough

* `OpenFile`: three goroutines are a probe, a waiter and a newcomer that can
  become the next probe between `settle` and `broadcast`; a fourth only repeats
  one of them. Offsets 0 and 1 with lengths 1 and 2 are a read inside the file
  whichever length is stated and one that only the shorter has past its end, and a
  later answer may shorten the file. Goroutines are interchangeable in the safety run, hence its
  symmetry set; the liveness run uses none.
* `Upload`: two slots for three uploads make the third contend, and one of each
  kind lets every pair interleave. Two chunks allow one write to fail beside one
  that lands, and one past the limit beside one within it. An SCP file is within the
  limit or goes past it; one of no bytes, which needs no write, is left to SFTP.
* `VFS`: two names and two levels are the least in which a rename moves a subtree
  onto or beside another that is remembered. `MaxLocs = 2` lets a location be
  assigned anew for what was removed. Two channels need no more
  than a directory and one entry in it for one of them to remember what the other
  took away.
* `Scp`: three entries allow a directory, something refused inside it and
  something that follows. Two pieces allow a write to fail with more to come. The
  trees are a file, two shapes of nested directory, and the root.

* `Server`: trees of three levels are the least that a walk of the root and its
  children misses something of. Prefixes come in both orders of an overlap. Two
  names, one of them perhaps static, are what a cached policy can be mistaken for.
  A count of two lets one probe be unanswered and the next answered late; a count
  left out is three. The document is dropped once it has been acted on, so that
  15,292 of them cost one step each. Two failures let a client fail once and go on.
* `Backends`: each property compares one call's requests with what one other actor
  does between them, so two calls suffice. Two names are a source and a
  destination; one member is what makes a directory non-empty; a page of one entry
  puts each name on a page of its own, and a limit of one is passed on the second.
  With three calls the same run also passes (5,683,563 states), too slowly to be
  repeated each time. The members of a directory are files.

`CHECK_DEADLOCK FALSE` appears where the system does stop: uploads are finitely
many and each is attempted once, a session ends for good, a process returns, and
calls of a backend are counted. `OpenFile` and `VFS` never stop and are checked for
deadlock.

### Fairness, and what justifies it

* `OpenFile!FairSpec`: a goroutine that can go on by itself does (the Go
  scheduler, a mutex held across no call), and a request whose context is done
  fails. That the backend answers is *not* assumed: `httpfs` sets no timeout.
  `WaitersAreLetThrough` states it as its antecedent; `CloseEndsItsReads` does
  without.
* `Upload!FairSpec`: each upload's own goroutines go on, the backend's answer to a
  commit included. Clients are not fair; their connection may end, and then
  pkg/sftp reports and closes every handle.
* `Scp!FairSpec`: the session's goroutine goes on, with a backend that answers,
  and the client does not stop in the middle of its turn. No read of an SCP
  session has a timeout, so a silent client holds it until the connection's
  keepalive ends it, which is outside this model.

* `Server!Fairness`: goroutines go on, and timers that were set go off: the login
  deadline, the timeout of a POST (or the process's context), the ticker and the
  interval of a probe. Clients, backends and whoever stops the process owe nothing.
  `EverythingEnds` says of a login that it ends if there is a deadline and POSTs
  time out; without either, nothing promises that.
* `Backends` has no fairness and no liveness: no call has a timeout of its own.

## 4. Proofs

TLAPS checks these for every value of the constants, from the named assumptions
of the modules.

**OpenFileProofs**, for any number of goroutines, any offsets and lengths.
`OneProbe`, `NobodyWaitsForNobody` and `AtMostOneCopy` do not stand by
themselves: that a second copy cannot be made rests on there being no chosen
reader while a probe works, which rests in turn on `adopt` having been the probe's
own. `CopyHasAHolder` says this, and `IInv` is it together with `TypeOK`,
`OneProbe` and `NobodyWaitsForNobody`; it is inductive (`Initially`, `GatesStep`,
`HolderStep`, `CloseStep`, joined in `Invariance`). From it: `ProbeIsUnique`,
`OneCopy`, `CopiesEndWithTheHandle`, and of steps `ChoiceIsFinal`,
`StagedAsksNothing` and `FirstLengthStays`.

**UploadProofs**, for any finite set of uploads, any chunks, any limit.

* `SlotsAreCounted`: the limiter equals the number of uploads that hold a slot.
  `SlotInv` adds where `released` may be true; the steps reduce to three lemmas on
  cardinalities (`SlotKept`, `SlotTaken`, `SlotGiven`).
* `UploadsCleanUp`: under `Scp \cap Local = {}`, an upload that is over has neither a
  descriptor nor a temporary. Without that assumption it is false, by finding 2: a
  local writer that failed discards its file in `Close` alone, and the SCP sink
  does not close what it aborts. `LeftInv` says in which phases a file may be there.
* `AbandonedStaysUnpublished` and `PublishedWhole` follow from `WholeInv`: in the
  phases up to the commit, what was promised has landed or was oversize, unless
  `err` is set.
* `UploadsAreAtomic`: `Spec` implies `AtomicPut`'s specification. What an upload
  offers is what its client promised within the size limit (`Offered`; finding 1 is
  what becomes of the rest), and what the file holds is read without what a client
  wrote behind its own CLOSE (`Vouched`), which may land in the published file.
  `OnlyInv` adds to `WholeInv` that nothing which was promised lands later, so the
  store changes at a commit alone (`StoreKept`); every step then maps to a step of
  `AtomicPut` or to a stutter.

**ServerProofs**, for any documents, users, keys, policies and answers.

* `NothingIsLeftListening`: `ListenInv` says in which stages of the process nothing
  is open yet, or any more.
* `EverySessionIsVouchedFor`: a session is granted out of a request that a callback
  has under way, a cached policy or a remembered answer, so `SessionInv` says of each
  of these what was asked of the backend to have it: a policy's combinations are all
  `allowed` for the name it is cached with, a remembered grant is for its own name
  and vouched for, a credential's POST is only ever made once the policy allowed it.
  `StartInv` adds that no connection exists while `New` still changes the settings.
* `FewProbes` and `AnsweringKeepsIt`, from `KeeperInv`, for every policy that states
  numbers (`AliveAssumption`). Each old probe has cost an interval of the count. An
  answer to the current one starts the count anew and may have overtaken old ones,
  fewer than the count; the mutex is then in starvation mode, and none is overtaken
  again before they are through. So there are fewer than twice the count, and TLC
  reaches one less than that (with counts of 2 and 3). It rests on `GetsIn`'s bound.
* `TypeCorrect`, from `Typed`: a static user has a name `config.ValidName` accepts
  because the document was accepted, and a POST is under way only for a request.
* `WhatIsValidIsServed`, for any document with any number of prefixes, buckets, users
  and any tree (`DocumentAssumption`: its prefixes are paths).
  `LoadedInv` has only that what is loaded was valid; the work is in what lies between
  the two readings of a document. `PlacesHaveSchemes` has that a URL accepted by
  `config.go` has a place `localfs` or `s3fs` will resolve, `PrefixesOfOne` that two
  prefixes of one path are prefixes of each other, and `OnePrefixServes` from it that
  prefixes which do not overlap leave a path exactly one that serves it.

**ScpTypeProofs, ScpProofs, ScpFilesProofs**, for any names, any trees whose files
are in directories of theirs (`TreesAssumption`), any number and size of entries.

* `TypeCorrect`, from `Typed` and `InHand`: the server has a frame while it reads
  lines and an item while it sends one.
* `StaysInSync` and `SomeoneSpeaks`. What may be under way in the stream depends on
  what both ends are doing, so `TurnInv` says it for each pair: `SinkTurns` and
  `SourceTurns` give, for each state of the server and each of the client there is
  with it, what is in either direction; `SinkUp` and `SourceUp` say what the server
  has still to read when the client has gone. Each step of one end takes a pair to a
  pair, and a session runs in one direction, so each half is proved by itself.
* `FilesLand` and `SuccessTells`, which speak of files, for a client that goes into
  the directories it announces (`~SkipsRefused`, that of `scp_sink.go:174-177`; with
  the other one `FilesLandWhereSent` is false, finding 4). `Inv` is the types and the turns.
  `SinkDirs` has that the server's frames are those of the directory the client is
  in, shifted by the target, whatever was refused on the way down; `SinkFiles` and
  `SinkSuccess` that every file offered is stored, is in flight, or was refused and
  remembered as that. `SourceDirs` and `SourceSuccess` say the same of the walk:
  the stack of items continues in the directory the client is in, and every file of
  the tree was taken, was refused, or is below an item still to come.

**BackendsProofs**, for any number of calls, names and members, any sizes of page
and limits on a listing, any number of changes from outside and crashes
(`BoundsAssumption`, `S3Assumption`, `LocalAssumption`: bounds and sizes are numbers,
each name has one place in the order of keys, the marker is no name, masks are sets
of bits, and nothing else is called `None`).

* `NoHiddenFileIsForgotten`, but for a crash, a directory renamed and an abort that
  no close follows (finding 2): `HiddenInv` adds that an upload's hidden file is in
  the directory of the path it uploads to until that directory is renamed.
* `ListingsAreHonest`. `BucketHolds` has, for each listing under way, that what was
  there all along was listed or is beyond the last entry of the pages so far
  (`Listing`), and that each request belongs to a call of its kind (`CallsFit`). A
  page is the least of what is left (`Pagewise`, `EndOfPage`), so what a page passes
  over is on it; `FreshOnes` has that the names already listed are left out.
* `WithheldIsKept`. A mask is read when a call begins and a mode when it asks, either
  long before the change. `DiskInv` carries both over: a directory's mode is not
  changed through the proxy and no new one lacks a bit (`ProtectsNothing`), so what
  was permitted when it was looked at is permitted at the change (`Suits`). It adds
  that everything there is in a directory (`ShapeOf`), which a rename keeps because
  it takes what is beneath along (`WhatMoves`, `MoveKeepsShape`).
* `CallsDoWhatTheySay`. `Sofar` says, of a call in a bucket that nothing got in the
  way of, what it has done up to its next request: nothing, or, of a rename, the copy.
  On disk it is nothing until the last (`Undisturbed`). What the last request leaves,
  and what a failure leaves at any of them, is then read off (`BucketDoes`,
  `BucketLeavesAlone`, `DiskDoesWhatItSays`).
* `TypeCorrect`, from these and the counters.

**VFSProofs**, for any number of channels, any names, any set of paths closed under
taking a prefix, any store to begin with (`PathAssumption`, `SetupAssumption`,
`BoundAssumption`, and `LocAssumption`: a location assigned is no path, and neither
is having none).

* `TypeCorrect`, from `Typed`: what a channel walks to fits the operation it was
  asked for (`GoalFits`) and how far it has come (`StageFits`).
* `StoreInv` is what a store is like: each thing is in a directory, no two are at one
  location, and a location that follows from its path does. A rename is what could
  break it: it takes all that is beneath along and puts nothing where something is
  (`MoveIs`, `MovedTellsApart`, `StoreInvRenames`).
* `RemovesTheNamed` and `ListingsAreFresh`. With locations that are paths, and any
  number of channels, `PlaceInv` has every node (remembered, in hand, or in a listing
  still to be remembered) at the path it is taken for; it says nothing of whether
  anything is still there. With locations that are kept, and one channel, `AloneInv`
  takes its place.
* `WhatIsRememberedIsTrue` and `NotFoundMeansNotThere`. `AloneInv` has, for a channel
  with the connection to itself, that what is remembered, what is in hand and what was
  listed are true (`CacheTrue`, `HandTrue`, `SeenTrue`). What it takes away it has
  forgotten before, and in between it does nothing that remembers. That is `GoneInv`,
  from which `WhatIsGoneIsForgotten` follows too.

Only model-checked: all liveness, which the prover does not handle under fairness.
The property of a run that expects a violation is false in that instance. Every
safety invariant and action property of the other runs is proved.

## 5. Findings

1. `upload_truncated`: a write past `maxUploadSize` is refused and leaves no mark
   on the writer (`vfs/vfs.go:35`), so a client that then closes has the truncated
   file published.
2. `upload_scp_local`: an SCP upload to a local file whose write failed is
   aborted and never closed; `Abort` discards nothing in that case
   (`localfs/file.go:141`) and leaves the temporary and its descriptor.
3. `vfs_two_channels`: a listing answered before another channel's remove is
   remembered after that remove has forgotten, so a location that is gone stays
   cached. After a rename, over a backend that keeps locations, it leads to the
   renamed file, and a remove by the old name removes that (TLC, outside `LocsHold`).
4. `scp_skips`: OpenSSH's client passes over a directory that was refused,
   together with its `E`. The sink pushes it all the same, and files that follow
   are refused, or stored one directory too deep.
5. `rename_onto_directory`: in a bucket a rename looks for the destination's key and
   not for keys beneath it (`s3fs/s3fs.go:484`), so a file is renamed onto the name
   of a directory, and listings show the directory alone. `src/DESIGN.md:158-159` has
   a rename onto an occupied name be an error. `DoesWhatItSays` claims of a bucket
   only that no file is replaced (`Free`).

Other places where code and text differ, which no run is spent on:

* `src/DESIGN.md:244-245` has listings fetched afresh every time. A directory that was
  listed with its children inline is remembered with them (`vfs/vfs.go:257`) and
  listed from memory, so what was removed beneath it is still listed, and what it
  lists may lead to where a rename has since taken it (`LocsHold` above).
* `src/docs/s3-backend.md:140` has a long listing return its first 10,000 entries;
  `s3fs/s3fs.go:276-280` fails it as a whole. `ListingIsHonest` relies on the code.
* `s3fs/s3fs.go:250-252` has a key and a prefix of one name resolve to the directory.
  Over several pages they resolve to whichever is listed first, the key.
* `config/config.go:744-747` has every name that can be uploaded appear in a listing;
  one with localfs's hidden prefix does not (`localfs/localfs.go:175`).
* `config/config.go:167-168` speaks of a session that is idle; `clientAlive` probes
  at every interval, traffic or not.
* `src/DESIGN.md:30-32` has a signature verified before the backend is asked to
  vouch; `auth/auth.go:250` asks when a client first names the key. What
  `SessionIsVouchedFor` says holds because x/crypto lets nobody in unsigned.
* `server/server.go:279-280` has at most `clientAliveCountMax` probes outstanding. A
  probe that overtakes old ones at `SendRequest`'s mutex and is answered starts the
  count anew while they are out, so there may be one less than twice as many. TLC
  reaches that; `ProbesAreFew` states the bound that holds.
* `server/scp_sink.go:190` lets any `ErrExist` pass for a directory that is there. Of
  a file by that name too: an empty directory sent onto it is acknowledged, and the
  exit status is success. `SuccessIsTrue` speaks of files.

## 6. Not modelled, and why

* Wording, attributes, tracing and status codes: nothing decides on them. The
  errors that `outcome` makes of a failure are one.
* Shell unquoting, path cleaning of SCP arguments, header parsing, JSON, hashes and
  keys: pure functions on strings, well covered by the repository's tests.
* Several connections at once: they share the backends, which is `Backends`, and
  the process's context.
* The workers of a session beyond what `OpenFile`, `Upload` and `VFS` make of them:
  `serveSession` forwards a channel to one of the two protocols and keeps nothing.
* How often a failing accept is retried, and the milliseconds of a timeout: a number
  that overflows a `Duration` (`config/config.go:34`) is past 292 years.
* A local listing taken while the directory changes: it is one step of the node a
  call begins with. A disk that fails to remove a hidden file.
* Two uploads on different paths: they share the limiter alone, and that is there.
* A file that changes at the backend under a handle: no part of the code relates
  two requests to each other.

## 7. Plan

The components that decide anything are modelled. What is left:

1. An abstract "ask every time" filesystem that `VFS` with one channel implements.
2. `VFS` over `Backends` in place of its external backend, if the states allow it.
