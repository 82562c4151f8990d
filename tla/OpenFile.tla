------------------------------ MODULE OpenFile ------------------------------
(***************************************************************************)
(* A file open for reading over HTTP: src/server/internal/httpfs/read.go.  *)
(*                                                                         *)
(* An SFTP client opens a file with a burst of pipelined reads, each run   *)
(* by its own goroutine.  The first becomes the probe: how the backend     *)
(* answers it decides whether the file is served a range at a time         *)
(* (rangeReader) or from one staged copy on disk (stagedReader).  The      *)
(* others wait on a gate channel.  Close may come while any is in flight.  *)
(*                                                                         *)
(* A reader object is named by the goroutine whose probe built it: it is a *)
(* stagedReader when that goroutine's copy[r] exists and a rangeReader     *)
(* otherwise.  A gate is named by the probe that will close it, which is   *)
(* unambiguous because a goroutine closes its gate before it reads again.  *)
(***************************************************************************)
EXTENDS Naturals

CONSTANTS
    Readers,   \* goroutines that may use the handle at once
    Sizers,    \* those that may ask its length: SCP's one, and none of SFTP's
    None,      \* a nil reader, gate or probe
    Offsets,   \* offsets a client reads at
    Sizes,     \* file lengths a Content-Range header may state
    Unknown    \* sizeUnknown: no response has stated a length

ASSUME NoneAssumption == None \notin Readers
ASSUME SizersAssumption == Sizers \subseteq Readers
ASSUME SizeAssumption ==
    /\ Offsets \subseteq Nat
    /\ 0 \in Offsets
    /\ Sizes \subseteq Nat
    /\ Unknown \notin Nat

VARIABLES
    chosen,    \* openFile.chosen: the reader every later read is handed to
    probing,   \* openFile.probing: whose first read is in flight
    closer,    \* the handle: "open", "releasing" its reader, or "closed"
    releasing, \* the reader Close took out of chosen and is closing
    cancelled, \* origin.ctx is done
    pc,        \* what each goroutine is doing
    op,        \* "read" or "size": what it was asked for
    at,        \* the offset it reads at
    gate,      \* the gate it waits on; None once that gate is closed
    mine,      \* the reader it was handed by next, or by Size's own look
    learnt,    \* rangeReader.size of the reader its probe built
    copy,      \* the staging file its probe made: "none", "open", "closed"
    result     \* how its last call ended

vars == <<chosen, probing, closer, releasing, cancelled, pc, op, at, gate,
          mine, learnt, copy, result>>

handle == <<chosen, probing, closer, releasing, cancelled>>
request == <<op, at>>

Outcomes == {"data", "eof", "failure"}

Phases == {"idle", "next", "wait", "fetch", "stage", "adopt", "reread", "settle",
           "broadcast", "read", "rangeFetch", "sizing", "measure"}

TypeOK ==
    /\ chosen \in Readers \cup {None}
    /\ probing \in Readers \cup {None}
    /\ closer \in {"open", "releasing", "closed"}
    /\ releasing \in Readers \cup {None}
    /\ cancelled \in BOOLEAN
    /\ pc \in [Readers -> Phases]
    /\ op \in [Readers -> {"read", "size"}]
    /\ at \in [Readers -> Offsets]
    /\ gate \in [Readers -> Readers \cup {None}]
    /\ mine \in [Readers -> Readers \cup {None}]
    /\ learnt \in [Readers -> Sizes \cup {Unknown}]
    /\ copy \in [Readers -> {"none", "open", "closed"}]
    /\ result \in [Readers -> Outcomes \cup {"none"}]

Init ==
    /\ chosen = None
    /\ probing = None
    /\ closer = "open"
    /\ releasing = None
    /\ cancelled = FALSE
    /\ pc = [r \in Readers |-> "idle"]
    /\ op = [r \in Readers |-> "read"]
    /\ at = [r \in Readers |-> 0]
    /\ gate = [r \in Readers |-> None]
    /\ mine = [r \in Readers |-> None]
    /\ learnt = [r \in Readers |-> Unknown]
    /\ copy = [r \in Readers |-> "none"]
    /\ result = [r \in Readers |-> "none"]

closed == closer # "open"

Staged(s) == copy[s] # "none"

\* The goroutines inside probe(), from winning next to clearing f.probing.
Probing(r) == pc[r] \in {"fetch", "stage", "adopt", "reread", "settle"}

\* The goroutines with a request to the backend in flight.
Asking == {r \in Readers : pc[r] \in {"fetch", "stage", "rangeFetch"}}

-----------------------------------------------------------------------------
(* ReadAt returns.  Size goes on to look at the reader that was chosen.    *)
Return(r, outcome) ==
    /\ result' = [result EXCEPT ![r] = outcome]
    /\ pc' = [pc EXCEPT ![r] =
                IF op[r] = "size" /\ outcome # "failure" THEN "sizing" ELSE "idle"]

Read(r, o) ==
    /\ pc[r] = "idle"
    /\ pc' = [pc EXCEPT ![r] = "next"]
    /\ op' = [op EXCEPT ![r] = "read"]
    /\ at' = [at EXCEPT ![r] = o]
    /\ UNCHANGED <<handle, gate, mine, learnt, copy, result>>

Size(r) ==
    /\ r \in Sizers
    /\ pc[r] = "idle"
    /\ pc' = [pc EXCEPT ![r] = "next"]
    /\ op' = [op EXCEPT ![r] = "size"]
    /\ at' = [at EXCEPT ![r] = 0]
    /\ UNCHANGED <<handle, gate, mine, learnt, copy, result>>

(* next(), decided under f.mu: refused, handed on, made to wait, or made   *)
(* the probe.  A probe starts with neither a copy nor a learnt length.     *)
NextRefuses(r) ==
    /\ pc[r] = "next"
    /\ closed
    /\ result' = [result EXCEPT ![r] = "failure"]
    /\ pc' = [pc EXCEPT ![r] = "idle"]
    /\ UNCHANGED <<handle, request, gate, mine, learnt, copy>>

NextForwards(r) ==
    /\ pc[r] = "next"
    /\ ~closed
    /\ chosen # None
    /\ mine' = [mine EXCEPT ![r] = chosen]
    /\ pc' = [pc EXCEPT ![r] = "read"]
    /\ UNCHANGED <<handle, request, gate, learnt, copy, result>>

NextWaits(r) ==
    /\ pc[r] = "next"
    /\ ~closed
    /\ chosen = None
    /\ probing # None
    /\ gate' = [gate EXCEPT ![r] = probing]
    /\ pc' = [pc EXCEPT ![r] = "wait"]
    /\ UNCHANGED <<handle, request, mine, learnt, copy, result>>

\* Mutant: a read becomes the probe whatever is already in flight.
NextProbesRegardless(r) ==
    /\ pc[r] = "next"
    /\ ~closed
    /\ chosen = None
    /\ probing' = r
    /\ pc' = [pc EXCEPT ![r] = "fetch"]
    /\ learnt' = [learnt EXCEPT ![r] = Unknown]
    /\ copy' = [copy EXCEPT ![r] = "none"]
    /\ UNCHANGED <<chosen, closer, releasing, cancelled, request, gate, mine, result>>

\* Mutant: a read becomes the probe although a reader was already chosen.
NextProbesAgain(r) ==
    /\ pc[r] = "next"
    /\ ~closed
    /\ probing = None
    /\ probing' = r
    /\ pc' = [pc EXCEPT ![r] = "fetch"]
    /\ UNCHANGED <<chosen, closer, releasing, cancelled, request, gate, mine,
                   learnt, copy, result>>

NextProbes(r) ==
    /\ pc[r] = "next"
    /\ ~closed
    /\ chosen = None
    /\ probing = None
    /\ probing' = r
    /\ pc' = [pc EXCEPT ![r] = "fetch"]
    /\ learnt' = [learnt EXCEPT ![r] = Unknown]
    /\ copy' = [copy EXCEPT ![r] = "none"]
    /\ UNCHANGED <<chosen, closer, releasing, cancelled, request, gate, mine, result>>

(* The select of ReadAt: the gate is closed, or the context is done.       *)
GateOpens(r) ==
    /\ pc[r] = "wait"
    /\ gate[r] = None
    /\ pc' = [pc EXCEPT ![r] = "next"]
    /\ UNCHANGED <<handle, request, gate, mine, learnt, copy, result>>

WaitCancelled(r) ==
    /\ pc[r] = "wait"
    /\ cancelled
    /\ gate' = [gate EXCEPT ![r] = None]
    /\ Return(r, "failure")
    /\ UNCHANGED <<handle, request, mine, learnt, copy>>

-----------------------------------------------------------------------------
(* classify(): the backend's answer to the probe.                          *)

\* Mutant: the request is sent without the context of its handle.
ProbeOutlivesItsContext(r) ==
    /\ pc[r] = "fetch"
    /\ ~cancelled
    /\ pc' = [pc EXCEPT ![r] = "settle"]
    /\ result' = [result EXCEPT ![r] = "failure"]
    /\ UNCHANGED <<handle, request, gate, mine, learnt, copy>>

\* No answer, an error status, or a partial body that broke off.
ProbeFails(r) ==
    /\ pc[r] = "fetch"
    /\ pc' = [pc EXCEPT ![r] = "settle"]
    /\ result' = [result EXCEPT ![r] = "failure"]
    /\ UNCHANGED <<handle, request, gate, mine, learnt, copy>>

\* 200 OK: the whole file, which goes to disk.
ProbeAnsweredWhole(r) ==
    /\ pc[r] = "fetch"
    /\ copy' = [copy EXCEPT ![r] = "open"]
    /\ pc' = [pc EXCEPT ![r] = "stage"]
    /\ UNCHANGED <<handle, request, gate, mine, learnt, result>>

\* 206 or 416: a range answered as a range, whose header may state a length.
ProbeAnsweredRange(r, total, outcome) ==
    /\ pc[r] = "fetch"
    /\ learnt' = [learnt EXCEPT ![r] = total]
    /\ result' = [result EXCEPT ![r] = outcome]
    /\ pc' = [pc EXCEPT ![r] = "adopt"]
    /\ UNCHANGED <<handle, request, gate, mine, copy>>

StageFails(r) ==
    /\ pc[r] = "stage"
    /\ copy' = [copy EXCEPT ![r] = "closed"]
    /\ result' = [result EXCEPT ![r] = "failure"]
    /\ pc' = [pc EXCEPT ![r] = "settle"]
    /\ UNCHANGED <<handle, request, gate, mine, learnt>>

StageCompletes(r) ==
    /\ pc[r] = "stage"
    /\ pc' = [pc EXCEPT ![r] = "adopt"]
    /\ UNCHANGED <<handle, request, gate, mine, learnt, copy, result>>

(* adopt(): a handle closed meanwhile takes on nothing, and the reader is  *)
(* closed here instead.                                                    *)
CloseReader(s) ==
    copy' = [copy EXCEPT ![s] = IF @ = "open" THEN "closed" ELSE @]

\* Mutant: a reader that finds the handle closed is dropped unclosed.
AdoptRefusedLeaving(r) ==
    /\ pc[r] = "adopt"
    /\ closed
    /\ result' = [result EXCEPT ![r] = "failure"]
    /\ pc' = [pc EXCEPT ![r] = "settle"]
    /\ UNCHANGED <<handle, request, gate, mine, learnt, copy>>

AdoptRefused(r) ==
    /\ pc[r] = "adopt"
    /\ closed
    /\ CloseReader(r)
    /\ result' = [result EXCEPT ![r] = "failure"]
    /\ pc' = [pc EXCEPT ![r] = "settle"]
    /\ UNCHANGED <<handle, request, gate, mine, learnt>>

Adopt(r) ==
    /\ pc[r] = "adopt"
    /\ ~closed
    /\ chosen' = r
    /\ pc' = [pc EXCEPT ![r] = IF Staged(r) THEN "reread" ELSE "settle"]
    /\ UNCHANGED <<probing, closer, releasing, cancelled, request, gate, mine,
                   learnt, copy, result>>

\* What reading a staging file yields: a disk may fail, and a closed
\* descriptor does.
StagedOutcomes(s) == IF copy[s] = "open" THEN Outcomes ELSE {"failure"}

Reread(r) ==
    /\ pc[r] = "reread"
    /\ \E outcome \in StagedOutcomes(r) : result' = [result EXCEPT ![r] = outcome]
    /\ pc' = [pc EXCEPT ![r] = "settle"]
    /\ UNCHANGED <<handle, request, gate, mine, learnt, copy>>

(* probe() ends: f.probing is cleared under the lock, and the gate closed  *)
(* after it.  Another read may become the probe in between.                *)
\* Mutant: the probe ends without clearing f.probing.
SettleKeepingProbing(r) ==
    /\ pc[r] = "settle"
    /\ pc' = [pc EXCEPT ![r] = "broadcast"]
    /\ UNCHANGED <<handle, request, gate, mine, learnt, copy, result>>

Settle(r) ==
    /\ pc[r] = "settle"
    /\ probing' = None
    /\ pc' = [pc EXCEPT ![r] = "broadcast"]
    /\ UNCHANGED <<chosen, closer, releasing, cancelled, request, gate, mine,
                   learnt, copy, result>>

\* Mutant: the gate is dropped without being closed.
BroadcastToNobody(r) ==
    /\ pc[r] = "broadcast"
    /\ Return(r, result[r])
    /\ UNCHANGED <<handle, request, gate, mine, learnt, copy>>

Broadcast(r) ==
    /\ pc[r] = "broadcast"
    /\ gate' = [w \in Readers |-> IF gate[w] = r THEN None ELSE gate[w]]
    /\ Return(r, result[r])
    /\ UNCHANGED <<handle, request, mine, learnt, copy>>

-----------------------------------------------------------------------------
(* Reads through the chosen reader.                                        *)
ReadStaged(r) ==
    /\ pc[r] = "read"
    /\ Staged(mine[r])
    /\ \E outcome \in StagedOutcomes(mine[r]) : Return(r, outcome)
    /\ UNCHANGED <<handle, request, gate, mine, learnt, copy>>

PastTheEnd(r) ==
    /\ learnt[mine[r]] # Unknown
    /\ at[r] >= learnt[mine[r]]

RangeReadPastTheEnd(r) ==
    /\ pc[r] = "read"
    /\ ~Staged(mine[r])
    /\ PastTheEnd(r)
    /\ Return(r, "eof")
    /\ UNCHANGED <<handle, request, gate, mine, learnt, copy>>

RangeReadAsks(r) ==
    /\ pc[r] = "read"
    /\ ~Staged(mine[r])
    /\ ~PastTheEnd(r)
    /\ pc' = [pc EXCEPT ![r] = "rangeFetch"]
    /\ UNCHANGED <<handle, request, gate, mine, learnt, copy, result>>

\* Mutant: Store in place of CompareAndSwap.
LearnLast(s, total) ==
    learnt' = [learnt EXCEPT ![s] = IF total = Unknown THEN @ ELSE total]

\* Mutant: the position of the last byte is taken for the length.
LearnLastByte(s, total) ==
    learnt' = [learnt EXCEPT ![s] = IF @ = Unknown /\ total # Unknown THEN total - 1 ELSE @]

\* learn(): the first response to state a length wins (CompareAndSwap).
Learn(s, total) ==
    learnt' = [learnt EXCEPT ![s] = IF @ = Unknown THEN total ELSE @]

RangeReadAnswered(r, total, outcome) ==
    /\ pc[r] = "rangeFetch"
    /\ Learn(mine[r], total)
    /\ Return(r, outcome)
    /\ UNCHANGED <<handle, request, gate, mine, copy>>

\* No answer, an error status, or the whole file for a range.
RangeReadFails(r) ==
    /\ pc[r] = "rangeFetch"
    /\ Return(r, "failure")
    /\ UNCHANGED <<handle, request, gate, mine, learnt, copy>>

(* The second half of Size: the reader looked at under the lock, and then  *)
(* asked for its length outside it.                                        *)
SizeLooks(r) ==
    /\ pc[r] = "sizing"
    /\ IF chosen = None
          THEN /\ result' = [result EXCEPT ![r] = "failure"]
               /\ pc' = [pc EXCEPT ![r] = "idle"]
               /\ UNCHANGED mine
          ELSE /\ mine' = [mine EXCEPT ![r] = chosen]
               /\ pc' = [pc EXCEPT ![r] = "measure"]
               /\ UNCHANGED result
    /\ UNCHANGED <<handle, request, gate, learnt, copy>>

Measurable(s) == IF Staged(s) THEN copy[s] = "open" ELSE learnt[s] # Unknown

Measure(r) ==
    /\ pc[r] = "measure"
    /\ result' = [result EXCEPT ![r] =
                    IF Measurable(mine[r]) THEN "data" ELSE "failure"]
    /\ pc' = [pc EXCEPT ![r] = "idle"]
    /\ UNCHANGED <<handle, request, gate, mine, learnt, copy>>

-----------------------------------------------------------------------------
(* Close takes the reader out under the lock, then closes it, and then the *)
(* handle's operation is finished, which cancels its context.              *)
Close ==
    /\ closer = "open"
    /\ releasing' = chosen
    /\ chosen' = None
    /\ closer' = "releasing"
    /\ UNCHANGED <<probing, cancelled, pc, request, gate, mine, learnt, copy, result>>

CloseReleases ==
    /\ closer = "releasing"
    /\ IF releasing = None THEN UNCHANGED copy ELSE CloseReader(releasing)
    /\ releasing' = None
    /\ closer' = "closed"
    /\ cancelled' = TRUE
    /\ UNCHANGED <<chosen, probing, pc, request, gate, mine, learnt, result>>

\* The process is told to stop.  A client that disconnects cancels nothing:
\* its handles are closed, but only once the reads in flight have returned.
Cancel ==
    /\ ~cancelled
    /\ cancelled' = TRUE
    /\ UNCHANGED <<chosen, probing, closer, releasing, pc, request, gate, mine,
                   learnt, copy, result>>

-----------------------------------------------------------------------------
\* What only this side has to do: it needs nothing of the backend.
Step(r) ==
    \/ NextRefuses(r) \/ NextForwards(r) \/ NextWaits(r) \/ NextProbes(r)
    \/ GateOpens(r) \/ WaitCancelled(r)
    \/ AdoptRefused(r) \/ Adopt(r) \/ Reread(r) \/ Settle(r) \/ Broadcast(r)
    \/ ReadStaged(r) \/ RangeReadPastTheEnd(r) \/ RangeReadAsks(r)
    \/ SizeLooks(r) \/ Measure(r)

\* A request ends without an answer that can be used.
Fail(r) == ProbeFails(r) \/ StageFails(r) \/ RangeReadFails(r)

\* The backend answers, or fails to.
Answer(r) ==
    \/ Fail(r)
    \/ ProbeAnsweredWhole(r)
    \/ StageCompletes(r)
    \/ \E total \in Sizes \cup {Unknown}, outcome \in {"data", "eof"} :
          ProbeAnsweredRange(r, total, outcome)
    \/ \E total \in Sizes \cup {Unknown}, outcome \in Outcomes :
          RangeReadAnswered(r, total, outcome)

Ask(r) ==
    \/ \E o \in Offsets : Read(r, o)
    \/ Size(r)

Next ==
    \/ \E r \in Readers : Ask(r) \/ Step(r) \/ Answer(r)
    \/ Close \/ CloseReleases \/ Cancel

Spec == Init /\ [][Next]_vars

(* Goroutines are scheduled.  Nothing makes a backend answer: the client   *)
(* has no timeout, but a request whose context is done does fail.          *)
FairSpec ==
    /\ Spec
    /\ \A r \in Readers : WF_vars(Step(r))
    /\ \A r \in Readers : WF_vars(cancelled /\ Fail(r))

-----------------------------------------------------------------------------
(* openFile asks "exactly once": however many reads are pipelined, one     *)
(* goroutine at a time is the probe, and it is the one f.probing names.    *)
OneProbe == \A r \in Readers : Probing(r) <=> probing = r

(* The file is never downloaded twice to end up keeping one copy: at no    *)
(* moment do two staging files exist for one handle, whichever of the      *)
(* probes, the chosen reader and a Close in progress hold them.            *)
AtMostOneCopy ==
    \A r, s \in Readers : copy[r] = "open" /\ copy[s] = "open" => r = s

(* adopt's promise: a staged copy cannot outlive the handle that made it.  *)
(* Once Close has returned, the only copy still open is one a probe in     *)
(* flight holds, and that probe will find the handle closed.               *)
NoCopyOutlivesTheHandle ==
    closer = "closed" =>
        \A r \in Readers : copy[r] = "open" => pc[r] \in {"stage", "adopt"}

(* A read never waits behind a probe that is gone: the gate it waits on    *)
(* belongs to a goroutine that has still to close it.                      *)
NobodyWaitsForNobody ==
    \A r \in Readers : gate[r] # None =>
        pc[r] = "wait" /\ (Probing(gate[r]) \/ pc[gate[r]] = "broadcast")

(* Why those hold: a probe that has not adopted yet works while no reader  *)
(* was ever chosen, a copy has a holder from the moment it is made, and a  *)
(* goroutine that was handed a reader has the chosen one until the handle  *)
(* is closed.  With the invariants above it is inductive.                  *)
CopyHasAHolder ==
    /\ chosen # None => closer = "open"
    /\ releasing # None => closer = "releasing"
    /\ \A r \in Readers :
          /\ pc[r] \in {"fetch", "stage", "adopt"} => chosen = None /\ releasing = None
          /\ pc[r] = "fetch" => copy[r] = "none"
          /\ pc[r] = "stage" => copy[r] = "open"
          /\ copy[r] = "open" =>
                pc[r] \in {"stage", "adopt"} \/ chosen = r \/ releasing = r
          /\ pc[r] \in {"read", "rangeFetch", "measure"} =>
                mine[r] # None /\ (closer = "open" => mine[r] = chosen)

(* A file keeps the reader its first read chose until it is closed: reads  *)
(* served from a staged copy never turn into range requests or back.       *)
ChosenIsFinal ==
    [][chosen # None => chosen' = chosen \/ (closed' /\ chosen' = None)]_vars

(* Once a staged copy serves the file the backend is never asked again,    *)
(* by a late prober or by a read that was waiting.                         *)
NoRequestOnceStaged ==
    [][chosen # None /\ Staged(chosen) => Asking' \subseteq Asking]_vars

(* The length a rangeReader answers reads past the end from is the first   *)
(* one it was told: a later response cannot shorten the file under reads   *)
(* already in flight.                                                      *)
LengthIsSettledOnce ==
    [][\A s \in Readers :
          (s = chosen /\ learnt[s] # Unknown) => learnt'[s] = learnt[s]]_vars

\* The backend ends every first read it is sent, with an answer or without.
BackendAnswers ==
    \A r \in Readers : pc[r] \in {"fetch", "stage"} ~> pc[r] \notin {"fetch", "stage"}

(* With a backend that answers, no read is left behind at the gate: not    *)
(* when the probe it waited for failed, and not when the handle closed.    *)
WaitersAreLetThrough ==
    BackendAnswers => \A r \in Readers : pc[r] = "wait" ~> pc[r] # "wait"

(* Closing a handle finishes its operation, which cancels its context: the *)
(* reads pipelined behind the close return, the waiters as well as those   *)
(* that asked, even when the backend never answers.                        *)
CloseEndsItsReads ==
    \A r \in Readers : closer = "closed" ~> pc[r] = "idle"
=============================================================================
