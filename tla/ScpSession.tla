----------------------------- MODULE ScpSession -----------------------------
(***************************************************************************)
(* One SCP session, in either direction: src/server/internal/server/scp.go *)
(* and serveSCP in server.go.  This module holds what the sink (ScpSink)   *)
(* and the source (ScpSource) share: the stream, the taking of turns and   *)
(* the exit status.  Scp puts the two together and states the properties.  *)
(*                                                                         *)
(* The stream is a sequence of words in each direction, a word being what  *)
(* one end writes at a time and the other reads at a time: a control line, *)
(* a piece of a file's contents, or an answer ("ok", or "warn" with its    *)
(* message).  Nothing in the stream says which of them comes next, so both *)
(* ends have to agree on it.  The client is external, and follows the      *)
(* protocol as scp.go and its tests describe it.                           *)
(***************************************************************************)
EXTENDS Naturals, Sequences, FiniteSets

CONSTANTS
    Names,     \* names an entry may have
    MaxSize,   \* bound: pieces of contents in a file
    MaxDepth,  \* bound: directories open within one another
    MaxEntries \* bound: entries a client announces

ASSUME BoundsAssumption == {MaxSize, MaxDepth, MaxEntries} \subseteq Nat

VARIABLES
    command,   \* the scpCommand: direction and flags
    pc,        \* what the server is doing
    refused,   \* scpSession.refused
    status,    \* the exit status sent: "none", "success" or "failure"
    file,      \* the file in hand, and how many pieces of it are to come
    up,        \* words on the way to the server
    down,      \* words on the way to the client
    eof,       \* the client has closed its end
    gone,      \* the connection is lost
    cpc,       \* what the client is doing
    cdir,      \* the directory it is in, from where it started
    cfile      \* the file it has in hand

stream == <<up, down, eof, gone>>
client == <<cpc, cdir, cfile>>
server == <<pc, refused, status, file>>
session == <<command, stream, client, server>>

Target == <<>>
Parent(path) == SubSeq(path, 1, Len(path) - 1)

Commands ==
    {c \in [sink : BOOLEAN, directory : BOOLEAN, recursive : BOOLEAN, preserve : BOOLEAN] :
       \* What a flag says to the other direction is read by nobody.
       IF c.sink THEN ~c.preserve /\ c.recursive ELSE ~c.directory}

NoFile == [path |-> Target, left |-> 0, failed |-> FALSE]

SessionInit ==
    /\ command \in Commands
    /\ pc = "start"
    /\ refused = FALSE
    /\ status = "none"
    /\ file = NoFile
    /\ up = <<>>
    /\ down = <<>>
    /\ eof = FALSE
    /\ gone = FALSE
    /\ cpc = "greeting"
    /\ cdir = Target
    /\ cfile = NoFile

-----------------------------------------------------------------------------
Word(kind) == [kind |-> kind]
Header(kind, name, size) == [kind |-> kind, name |-> name, size |-> size]
Pieces(n) == [i \in 1..n |-> Word("data")]

\* The server's end.
Heard(kind) == up # <<>> /\ Head(up).kind = kind /\ up' = Tail(up)
HeardNothing == up = <<>> /\ (eof \/ gone) /\ UNCHANGED up
Say(word) == down' = Append(down, word)

\* ack() and fail(): the answers the server gives.
Ack == Say(Word("ok")) /\ UNCHANGED refused

\* Mutant: a problem is reported and not remembered.
FailForgetfully == Say(Word("warn")) /\ UNCHANGED refused

Fail == Say(Word("warn")) /\ refused' = TRUE

\* run() returns, and serveSCP sends the exit status.
End(ok) ==
    /\ pc' = "over"
    /\ status' = IF ok /\ ~refused' THEN "success" ELSE "failure"

Goto(state) == pc' = state /\ UNCHANGED status

\* What is written to a connection that is gone fails, and ends the session.
WriteBreaks ==
    /\ pc # "over"
    /\ gone
    /\ command.sink => up # <<>>
    /\ UNCHANGED <<refused, file>>
    /\ End(FALSE)
    /\ UNCHANGED <<command, stream, client>>

-----------------------------------------------------------------------------
\* The client's end.
CHeard(kind) == down # <<>> /\ Head(down).kind = kind /\ down' = Tail(down)
CSay(words) == up' = up \o words

\* The client has nothing more to hear, and sees how the session ended.
ClientLeaves ==
    /\ cpc # "over"
    /\ status # "none"
    /\ down = <<>>
    /\ cpc' = "over"
    /\ UNCHANGED <<command, stream, server, cdir, cfile>>

\* The connection is lost, and with it the end of what was on its way.
Drop ==
    /\ ~gone
    /\ gone' = TRUE
    /\ \E n \in 0..Len(up) : up' = SubSeq(up, 1, n)
    /\ cpc' = "over"
    /\ UNCHANGED <<command, server, down, eof, cdir, cfile>>
=============================================================================
