------------------------------ MODULE ScpSink ------------------------------
(***************************************************************************)
(* The receiving half of SCP: src/server/internal/server/scp_sink.go, and  *)
(* a client that uploads to it.  Paths are relative to the target of the   *)
(* command.  What the filesystem answers is external.                      *)
(***************************************************************************)
EXTENDS ScpSession

CONSTANTS
    SkipsRefused \* a client passes over a directory that was refused

ASSUME SkipsAssumption == SkipsRefused \in BOOLEAN

VARIABLES
    frames,    \* the stack of scpTargets: where the next entry lands
    dirs,      \* the filesystem: directories there are
    stored,    \* and files that were stored
    sent,      \* entries the client has announced
    offered,   \* files among them
    told       \* and those it was told were stored

sink == <<frames, dirs, stored, sent, offered, told>>

SinkInit ==
    /\ frames = <<>>
    /\ dirs = {}
    /\ stored = {}
    /\ sent = 0
    /\ offered = {}
    /\ told = {}

Frame == frames[Len(frames)]
ResolveName(frame, name) == IF frame.named THEN Append(frame.path, name) ELSE frame.path

-----------------------------------------------------------------------------
(* receive(): the target is looked at once, and then line after line read. *)
ReceiveStarts(isDirectory) ==
    /\ command.sink
    /\ pc = "start"
    /\ command.directory => isDirectory
    /\ frames' = <<[path |-> Target, named |-> isDirectory]>>
    /\ dirs' = IF isDirectory THEN {Target} ELSE {}
    /\ Ack
    /\ Goto("line")
    /\ UNCHANGED <<command, file, up, eof, gone, client, stored, sent, offered, told>>

\* There is no such directory, or Stat failed.
ReceiveRefuses ==
    /\ command.sink
    /\ pc = "start"
    /\ UNCHANGED <<refused, file>>
    /\ End(FALSE)
    /\ UNCHANGED <<command, stream, client, sink>>

Receiving(kind) == command.sink /\ pc = "line" /\ Heard(kind)

\* The client has nothing further to send.
ReceiveEnds ==
    /\ command.sink
    /\ pc = "line"
    /\ HeardNothing
    /\ UNCHANGED refused
    /\ End(TRUE)
    /\ UNCHANGED <<command, down, eof, gone, file, client, sink>>

\* A line that is none, or an E that closes nothing.
ReceiveNonsense ==
    /\ \/ Receiving("nonsense")
       \/ Receiving("E") /\ Len(frames) = 1
    /\ UNCHANGED refused
    /\ End(FALSE)
    /\ UNCHANGED <<command, down, eof, gone, file, client, sink>>

\* Mutant: the times are accepted without a word.
ReceiveTimesSilently ==
    /\ Receiving("T")
    /\ UNCHANGED <<command, down, eof, gone, server, client, sink>>

\* Modification times are accepted and ignored.
ReceiveTimes ==
    /\ Receiving("T")
    /\ Ack
    /\ UNCHANGED <<command, eof, gone, pc, status, file, client, sink>>

(* receiveFile(): refused, for want of a slot or because Create failed, or *)
(* accepted.                                                               *)
Creatable(path) == (path = Target \/ Parent(path) \in dirs) /\ path \notin dirs

FileRefused ==
    /\ Receiving("C")
    /\ Fail
    /\ UNCHANGED <<command, eof, gone, pc, status, file, client, sink>>

FileAccepted ==
    /\ Receiving("C")
    /\ Creatable(ResolveName(Frame, Head(up).name))
    /\ file' = [path |-> ResolveName(Frame, Head(up).name), left |-> Head(up).size,
                failed |-> FALSE]
    /\ Ack
    /\ Goto("contents")
    /\ UNCHANGED <<command, eof, gone, client, sink>>

\* Mutant: a write that fails stops the reading as well.
ReceivePieceGivingUp ==
    /\ command.sink
    /\ pc = "contents"
    /\ file.left > 0
    /\ Heard("data")
    /\ \E failed \in {file.failed, TRUE} :
          file' = [file EXCEPT !.left = IF failed THEN 0 ELSE @ - 1, !.failed = failed]
    /\ UNCHANGED <<command, down, eof, gone, pc, refused, status, client, sink>>

\* receiveContents(): all of them are read, written or not.
ReceivePiece ==
    /\ command.sink
    /\ pc = "contents"
    /\ file.left > 0
    /\ Heard("data")
    /\ \E failed \in {file.failed, TRUE} :
          file' = [file EXCEPT !.left = @ - 1, !.failed = failed]
    /\ UNCHANGED <<command, down, eof, gone, pc, refused, status, client, sink>>

\* The stream ended under the contents or the verdict, or the verdict is bad:
\* the upload is aborted and the session over.
ReceiveBreaks ==
    /\ command.sink
    /\ pc = "contents"
    /\ HeardNothing \/ (file.left = 0 /\ Heard("warn"))
    /\ UNCHANGED <<refused, file>>
    /\ End(FALSE)
    /\ UNCHANGED <<command, down, eof, gone, client, sink>>

\* The client's verdict is good.
FileDone ==
    /\ command.sink
    /\ pc = "contents"
    /\ file.left = 0
    /\ Heard("ok")
    /\ \/ ~file.failed /\ stored' = stored \cup {file.path} /\ Ack
       \/ UNCHANGED stored /\ Fail
    /\ Goto("line")
    /\ UNCHANGED <<command, eof, gone, file, client, frames, dirs, sent, offered, told>>

(* receiveDirectory(): its frame is there to be closed even when it could  *)
(* not be made.                                                            *)
Enter(name) ==
    frames' = Append(frames, [path |-> ResolveName(Frame, name), named |-> TRUE])

\* Mutant: only a directory that could be made is entered.
DirectoryRefusedUnframed ==
    /\ Receiving("D")
    /\ Fail
    /\ UNCHANGED <<command, eof, gone, pc, status, file, client, sink>>

DirectoryRefused ==
    /\ Receiving("D")
    /\ Enter(Head(up).name)
    /\ Fail
    /\ UNCHANGED <<command, eof, gone, pc, status, file, client, dirs, stored,
                   sent, offered, told>>

\* It was made, or something of that name was there: a file will do.
DirectoryAccepted ==
    /\ Receiving("D")
    /\ Enter(Head(up).name)
    /\ LET path == ResolveName(Frame, Head(up).name)
       IN  \/ Creatable(path) /\ path \notin stored /\ dirs' = dirs \cup {path}
           \/ UNCHANGED dirs
    /\ Ack
    /\ UNCHANGED <<command, eof, gone, pc, status, file, client, stored, sent,
                   offered, told>>

DirectoryLeft ==
    /\ Receiving("E")
    /\ Len(frames) > 1
    /\ frames' = SubSeq(frames, 1, Len(frames) - 1)
    /\ Ack
    /\ UNCHANGED <<command, eof, gone, pc, status, file, client, dirs, stored,
                   sent, offered, told>>

SinkStep ==
    \/ \E isDirectory \in BOOLEAN : ReceiveStarts(isDirectory)
    \/ ReceiveRefuses \/ ReceiveEnds \/ ReceiveNonsense \/ ReceiveTimes
    \/ FileRefused \/ FileAccepted \/ ReceivePiece \/ ReceiveBreaks \/ FileDone
    \/ DirectoryRefused \/ DirectoryAccepted \/ DirectoryLeft

-----------------------------------------------------------------------------
(* A client that uploads: free to announce something, or waiting for the   *)
(* answer to what it announced last.                                       *)
CGoto(state) == cpc' = state /\ UNCHANGED <<cdir, cfile>>

Uploads(state, kind) ==
    /\ command.sink
    /\ cpc = state
    /\ CHeard(kind)
    /\ UNCHANGED <<command, eof, gone, server, frames, dirs, stored, sent, offered>>

ClientStarts ==
    /\ \/ Uploads("greeting", "ok") \/ Uploads("said", "ok")
       \/ Uploads("times", "ok")
    /\ CGoto(IF cpc = "times" THEN "timed" ELSE "free")
    /\ UNCHANGED <<up, told>>

Announces(word) ==
    /\ command.sink
    /\ CSay(<<word>>)
    /\ UNCHANGED <<command, down, eof, gone, server, frames, dirs, stored, told>>

\* Without -d there is one entry at the top.
MayAnnounce ==
    /\ sent < MaxEntries
    /\ command.directory \/ cdir # Target \/ sent = 0

AnnouncesEntry ==
    /\ cpc \in {"free", "timed"}
    /\ MayAnnounce
    /\ sent' = sent + 1

ClientAnnouncesFile(name, size) ==
    /\ Announces(Header("C", name, size))
    /\ AnnouncesEntry
    /\ cfile' = [path |-> Append(cdir, name), left |-> size, failed |-> FALSE]
    /\ offered' = offered \cup {Append(cdir, name)}
    /\ cpc' = "file"
    /\ UNCHANGED cdir

ClientSendsFile(verdict) ==
    /\ Uploads("file", "ok")
    /\ CSay(Append(Pieces(cfile.left), Word(verdict)))
    /\ CGoto("sent")
    /\ UNCHANGED told

ClientSkipsFile ==
    /\ Uploads("file", "warn")
    /\ CGoto("free")
    /\ UNCHANGED <<up, told>>

ClientIsAnswered(kind) ==
    /\ Uploads("sent", kind)
    /\ told' = IF kind = "ok" THEN told \cup {cfile.path} ELSE told
    /\ CGoto("free")
    /\ UNCHANGED up

ClientAnnouncesDirectory(name) ==
    /\ Announces(Header("D", name, 0))
    /\ AnnouncesEntry
    /\ Len(cdir) < MaxDepth
    /\ cfile' = [path |-> Append(cdir, name), left |-> 0, failed |-> FALSE]
    /\ cpc' = "directory"
    /\ UNCHANGED <<cdir, offered>>

ClientEnters(kind) ==
    /\ Uploads("directory", kind)
    /\ cdir' = IF kind = "warn" /\ SkipsRefused THEN cdir ELSE cfile.path
    /\ cpc' = "free"
    /\ UNCHANGED <<up, told, cfile>>

ClientCloses ==
    /\ Announces(Word("E"))
    /\ cpc = "free"
    /\ cdir # Target
    /\ cdir' = Parent(cdir)
    /\ cpc' = "said"
    /\ UNCHANGED <<cfile, sent, offered>>

\* The times of the entry that comes next.
ClientSaysTimes ==
    /\ Announces(Word("T"))
    /\ cpc = "free"
    /\ MayAnnounce
    /\ CGoto("times")
    /\ UNCHANGED <<sent, offered>>

\* A line the server will not take: an E that closes nothing, or none at all.
ClientErrs(kind) ==
    /\ Announces(Word(kind))
    /\ cpc = "free"
    /\ kind = "E" => cdir = Target
    /\ CGoto("said")
    /\ UNCHANGED <<sent, offered>>

ClientFinishes ==
    /\ command.sink
    /\ cpc = "free"
    /\ cdir = Target
    /\ eof' = TRUE
    /\ CGoto("over")
    /\ UNCHANGED <<command, up, down, gone, server, sink>>

SinkClient ==
    \/ ClientStarts \/ ClientSkipsFile \/ ClientCloses \/ ClientSaysTimes
    \/ ClientFinishes
    \/ \E name \in Names, size \in 0..MaxSize : ClientAnnouncesFile(name, size)
    \/ \E verdict \in {"ok", "warn"} : ClientSendsFile(verdict)
    \/ \E kind \in {"ok", "warn"} : ClientIsAnswered(kind) \/ ClientEnters(kind)
    \/ \E name \in Names : ClientAnnouncesDirectory(name)
    \/ \E kind \in {"E", "nonsense"} : ClientErrs(kind)
=============================================================================
