----------------------------- MODULE ScpSource -----------------------------
(***************************************************************************)
(* The sending half of SCP: src/server/internal/server/scp_source.go, and  *)
(* a client that downloads from it.  Paths start with the name of the      *)
(* target, which the client creates its copy under; the root has none.     *)
(* What the filesystem answers is external, and any answer may be an error.*)
(***************************************************************************)
EXTENDS ScpSession, SequencesExt

CONSTANTS
    Trees \* what a target may be: its path, the directories and files under it

(* A target has one name, or none when it is the root, and what is under   *)
(* it is in directories that are under it as well.                         *)
ASSUME TreesAssumption ==
    \A t \in Trees :
        LET all == t.dirs \cup t.files
        IN  /\ all \subseteq Seq(Names) /\ IsFiniteSet(all)
            /\ t.top \in all /\ Len(t.top) <= 1
            /\ t.dirs \cap t.files = {} /\ <<>> \notin t.files
            /\ \A p \in all :
                  /\ Len(t.top) <= Len(p) /\ SubSeq(p, 1, Len(t.top)) = t.top
                  /\ \A n \in Len(t.top)..Len(p) - 1 : SubSeq(p, 1, n) \in t.dirs

VARIABLES
    tree,  \* what this one is
    work,  \* what sendNode still has to send, what is next first
    taken  \* the files the client has, contents and all

source == <<tree, work, taken>>

Node(path) == [path |-> path, ends |-> FALSE]
EndOf(path) == [path |-> path, ends |-> TRUE]

SourceInit ==
    /\ tree \in Trees
    /\ work = <<>>
    /\ taken = {}

Item == Head(work)
IsDirectory(path) == path \in tree.dirs
Children(path) == {p \in tree.dirs \cup tree.files : p # <<>> /\ Parent(p) = path}
Name(path) == path[Len(path)]

-----------------------------------------------------------------------------
Sending(state) ==
    /\ ~command.sink
    /\ pc = state
    /\ UNCHANGED <<command, eof, gone, client, tree, taken>>

\* send(): nothing goes out before the client is ready.
SendStarts ==
    /\ Sending("start")
    /\ Heard("ok")
    /\ \/ work' = <<Node(tree.top)>> /\ Goto("walk") /\ UNCHANGED <<down, refused>>
       \* Stat failed.
       \/ Fail /\ End(TRUE) /\ UNCHANGED work
    /\ UNCHANGED file

\* There is nothing left to send.
SendEnds ==
    /\ Sending("walk")
    /\ work = <<>>
    /\ UNCHANGED refused
    /\ End(TRUE)
    /\ UNCHANGED <<file, up, down, work>>

(* sendNode(): what cannot be sent is reported and skipped.                *)
Sendable(path) == IsDirectory(path) => command.recursive /\ path # <<>>

SendSkips ==
    /\ Sending("walk")
    /\ work # <<>> /\ ~Item.ends
    /\ Fail
    /\ work' = Tail(work)
    /\ UNCHANGED <<pc, status, file, up>>

SendTimes ==
    /\ Sending("walk")
    /\ command.preserve
    /\ work # <<>> /\ ~Item.ends /\ Sendable(Item.path)
    /\ Say(Word("T"))
    /\ Goto("timed")
    /\ UNCHANGED <<refused, file, up, work>>

\* With no times to state, or when the client has them.
SendHeader ==
    /\ \/ Sending("walk") /\ UNCHANGED up
       \/ Sending("timed") /\ Heard("ok")
    /\ work # <<>> /\ ~Item.ends /\ Sendable(Item.path)
    /\ LET path == Item.path
       IN  IF IsDirectory(path)
           THEN /\ Say(Header("D", Name(path), 0))
                /\ UNCHANGED file
           ELSE \E size \in 0..MaxSize :
                   /\ Say(Header("C", Name(path), size))
                   /\ file' = [path |-> path, left |-> size, failed |-> FALSE]
    /\ Goto("asked")
    /\ UNCHANGED <<refused, work>>

\* sendDirectory(): its children, in the order they were listed, and its end.
SendChildren ==
    /\ Sending("asked")
    /\ IsDirectory(Item.path)
    /\ Heard("ok")
    /\ \E children \in SetToSeqs(Children(Item.path)) :
          work' = [i \in 1..Len(children) |-> Node(children[i])]
                    \o <<EndOf(Item.path)>> \o Tail(work)
    /\ Goto("walk")
    /\ UNCHANGED <<refused, file, down>>

SendEndOfDirectory ==
    /\ Sending("walk")
    /\ work # <<>> /\ Item.ends
    /\ Say(Word("E"))
    /\ Goto("closed")
    /\ UNCHANGED <<refused, file, up, work>>

(* sendFile() and sendContents(): as many as were announced, or no more of *)
(* the session.                                                            *)
SendFile ==
    /\ Sending("asked")
    /\ ~IsDirectory(Item.path)
    /\ Heard("ok")
    /\ Goto("contents")
    /\ UNCHANGED <<refused, file, down, work>>

\* Mutant: the loop runs once more than there are bytes.
SendPieceOneMore ==
    /\ Sending("contents")
    /\ Say(Word("data"))
    /\ file' = [file EXCEPT !.left = @ - 1]
    /\ UNCHANGED <<pc, refused, status, up, work>>

SendPiece ==
    /\ Sending("contents")
    /\ file.left > 0
    /\ Say(Word("data"))
    /\ file' = [file EXCEPT !.left = @ - 1]
    /\ UNCHANGED <<pc, refused, status, up, work>>

\* Mutant: a file that comes up short is reported as if it had been skipped.
SendShortAndGoOn ==
    /\ Sending("contents")
    /\ file.left > 0
    /\ Fail
    /\ work' = Tail(work)
    /\ Goto("walk")
    /\ UNCHANGED <<file, up>>

SendShort ==
    /\ Sending("contents")
    /\ file.left > 0
    /\ UNCHANGED <<refused, file, up, down, work>>
    /\ End(FALSE)

SendVerdict ==
    /\ Sending("contents")
    /\ file.left = 0
    /\ Ack
    /\ Goto("closed")
    /\ UNCHANGED <<file, up, work>>

SendNext ==
    /\ Sending("closed")
    /\ Heard("ok")
    /\ work' = Tail(work)
    /\ Goto("walk")
    /\ UNCHANGED <<refused, file, down>>

\* awaitAck(): the client has a problem of its own, or will not answer.
SendBreaks ==
    /\ \E state \in {"start", "timed", "asked", "closed"} : Sending(state)
    /\ Heard("warn") \/ HeardNothing
    /\ UNCHANGED <<refused, file, down, work>>
    /\ End(FALSE)

SourceStep ==
    \/ SendStarts \/ SendEnds \/ SendSkips \/ SendTimes \/ SendHeader
    \/ SendChildren \/ SendEndOfDirectory \/ SendFile \/ SendPiece \/ SendShort
    \/ SendVerdict \/ SendNext \/ SendBreaks

-----------------------------------------------------------------------------
(* A client that downloads.                                                *)
Downloads(state) ==
    /\ ~command.sink
    /\ cpc = state
    /\ UNCHANGED <<command, eof, gone, server, tree, work>>

DownloadStarts ==
    /\ Downloads("greeting")
    /\ CSay(<<Word("ok")>>)
    /\ cpc' = "reading"
    /\ UNCHANGED <<down, cdir, cfile, taken>>

TakesTimes ==
    /\ Downloads("reading")
    /\ CHeard("T")
    /\ CSay(<<Word("ok")>>)
    /\ UNCHANGED <<cpc, cdir, cfile, taken>>

TakesDirectory ==
    /\ Downloads("reading")
    /\ CHeard("D")
    /\ cdir' = Append(cdir, Head(down).name)
    /\ CSay(<<Word("ok")>>)
    /\ UNCHANGED <<cpc, cfile, taken>>

TakesEnd ==
    /\ Downloads("reading")
    /\ CHeard("E")
    /\ cdir # Target
    /\ cdir' = Parent(cdir)
    /\ CSay(<<Word("ok")>>)
    /\ UNCHANGED <<cpc, cfile, taken>>

TakesFile ==
    /\ Downloads("reading")
    /\ CHeard("C")
    /\ cfile' = [path |-> Append(cdir, Head(down).name), left |-> Head(down).size,
                 failed |-> FALSE]
    /\ cpc' = "taking"
    /\ CSay(<<Word("ok")>>)
    /\ UNCHANGED <<cdir, taken>>

TakesPiece ==
    /\ Downloads("taking")
    /\ cfile.left > 0
    /\ CHeard("data")
    /\ cfile' = [cfile EXCEPT !.left = @ - 1]
    /\ UNCHANGED <<up, cpc, cdir, taken>>

TakesVerdict ==
    /\ Downloads("taking")
    /\ cfile.left = 0
    /\ CHeard("ok")
    /\ taken' = taken \cup {cfile.path}
    /\ cpc' = "reading"
    /\ CSay(<<Word("ok")>>)
    /\ UNCHANGED <<cdir, cfile>>

\* The client cannot create or keep what it is offered.
Declines ==
    /\ \/ Downloads("reading") /\ (CHeard("C") \/ CHeard("D"))
       \/ Downloads("taking") /\ cfile.left = 0 /\ CHeard("ok")
    /\ cpc' = "reading"
    /\ CSay(<<Word("warn")>>)
    /\ UNCHANGED <<cdir, cfile, taken>>

HearsWarning ==
    /\ Downloads("reading")
    /\ CHeard("warn")
    /\ UNCHANGED <<up, cpc, cdir, cfile, taken>>

SourceClient ==
    \/ DownloadStarts \/ TakesTimes \/ TakesDirectory \/ TakesEnd \/ TakesFile
    \/ TakesPiece \/ TakesVerdict \/ Declines \/ HearsWarning
=============================================================================
