-------------------------------- MODULE Scp --------------------------------
(***************************************************************************)
(* SCP sessions, both directions, with the client at the other end of the  *)
(* stream: what src/server/internal/server/scp.go, scp_sink.go and         *)
(* scp_source.go say of them, and of the exit status server.go sends.      *)
(***************************************************************************)
EXTENDS ScpSink, ScpSource

vars == <<session, sink, source>>

Init == SessionInit /\ SinkInit /\ SourceInit

\* A session runs in one direction, and leaves the other's state alone.
ServerStep ==
    \/ SinkStep /\ UNCHANGED source
    \/ SourceStep /\ UNCHANGED sink
    \/ WriteBreaks /\ UNCHANGED <<sink, source>>

ClientStep ==
    \/ SinkClient /\ UNCHANGED source
    \/ SourceClient /\ UNCHANGED sink
    \/ ClientLeaves /\ UNCHANGED <<sink, source>>

Next ==
    \/ ServerStep
    \/ ClientStep
    \/ Drop /\ UNCHANGED <<sink, source>>

Spec == Init /\ [][Next]_vars

\* Both ends go on with what they can do: the goroutine of serveSCP runs, the
\* backend answers it, and the client does not stop in the middle of its turn.
FairSpec == Spec /\ WF_vars(ServerStep) /\ WF_vars(ClientStep)

-----------------------------------------------------------------------------
Lines == {"C", "D", "E", "T"}
Answers == {"ok", "warn"}

IsWord(word) ==
    /\ word.kind \in Lines \cup Answers \cup {"data", "nonsense"}
    /\ word.kind \in {"C", "D"} => word.name \in Names /\ word.size \in 0..MaxSize

IsPath(path) == path \in Seq(Names)
IsFile(f) == IsPath(f.path) /\ f.left \in 0..MaxSize /\ f.failed \in BOOLEAN

\* Every variable has its type: that of the scpSession and its locals, the
\* stack of receive(), the stream and the client's own.
TypeOK ==
    /\ command \in Commands
    /\ pc \in {"start", "line", "contents", "walk", "timed", "asked", "closed", "over"}
    /\ {refused, eof, gone} \subseteq BOOLEAN
    /\ status \in {"none", "success", "failure"}
    /\ \A i \in DOMAIN up : IsWord(up[i])
    /\ \A i \in DOMAIN down : IsWord(down[i])
    /\ IsFile(file) /\ IsFile(cfile) /\ IsPath(cdir)
    /\ \A i \in DOMAIN frames : IsPath(frames[i].path) /\ frames[i].named \in BOOLEAN
    /\ \A path \in dirs \cup stored \cup offered \cup told \cup taken : IsPath(path)
    /\ tree \in Trees
    /\ sent \in 0..MaxEntries
    /\ \A i \in DOMAIN work : IsPath(work[i].path) /\ work[i].ends \in BOOLEAN

-----------------------------------------------------------------------------
ServerExpects ==
    CASE pc = "line" -> Lines \cup {"nonsense"}
      [] pc = "contents" /\ command.sink -> IF file.left > 0 THEN {"data"} ELSE Answers
      [] pc \in {"start", "timed", "asked", "closed"} /\ ~command.sink -> Answers
      [] OTHER -> {}

ClientExpects ==
    CASE cpc = "reading" -> Lines \cup {"warn"}
      [] cpc = "taking" -> IF cfile.left > 0 THEN {"data"} ELSE {"ok"}
      [] cpc \in {"times", "said"} -> {"ok"}
      [] cpc \in {"greeting", "file", "sent", "directory"} /\ command.sink -> Answers
      [] OTHER -> {}

\* Whatever fails on the way, a control line is never read where contents were
\* sent nor contents where a line was: what arrives next is of the kind its
\* reader waits for (scp_sink.go:196-201, scp_source.go:126-128).
InSync ==
    /\ ServerExpects # {} /\ up # <<>> => Head(up).kind \in ServerExpects
    /\ ClientExpects # {} /\ down # <<>> => Head(down).kind \in ClientExpects

\* The two ends take turns: they are never both waiting for the other to speak
\* (scp.go:4-7; no read of this session has a timeout).
NeverBothWaiting ==
    ~ /\ ServerExpects # {} /\ up = <<>> /\ ~eof /\ ~gone
      /\ ClientExpects # {} /\ down = <<>>

\* Where an entry of the client's tree belongs: below a target that is a
\* directory, and in the place of one that is not (scp_sink.go:28-33).
Landing(path) == IF frames[1].named THEN path ELSE Tail(path)

\* A file is stored where the client's tree has it, whichever directories were
\* refused before it; one the client was told is there is; and a downloaded
\* tree has its files where the server's has them.
FilesLandWhereSent ==
    IF command.sink
    THEN frames # <<>> => /\ stored \subseteq {Landing(path) : path \in offered}
                          /\ {Landing(path) : path \in told} \subseteq stored
    ELSE taken \subseteq tree.files

\* An exit status of success means that every file that was to be transferred
\* was: a path reported and skipped on the way is not forgotten (scp.go:68-71).
\* Of a directory it says nothing: a file of its name is let pass for one, as
\* scp_sink.go:190 lets ErrExist pass, and fails what is then sent into it.
\* Of a connection that was lost nobody reads the status.
SuccessIsTrue ==
    status = "success" /\ ~gone =>
       IF command.sink
       THEN \A path \in offered : Landing(path) \in stored
       ELSE taken = tree.files

\* Every session comes to an end, and to an exit status (server.go:384-396).
SessionEnds == <>(status # "none")
=============================================================================
