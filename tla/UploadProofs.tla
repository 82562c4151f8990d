---------------------------- MODULE UploadProofs ----------------------------
(***************************************************************************)
(* Proofs about Upload, for any number of uploads, any chunks and any      *)
(* limit.  Four arguments, each with an invariant of its own:              *)
(*   SlotInv    an upload that is not over has not released its slot;      *)
(*   LeftInv    an upload that is over has no file;                        *)
(*   WholeInv   what an unmarked writer was sent, it has;                  *)
(*   OnlyInv    and nothing that its client finished sending lands later,  *)
(*              nor anything past the size limit.                          *)
(***************************************************************************)
EXTENDS Upload, FiniteSetTheorems, TLAPS

-----------------------------------------------------------------------------
LEMMA ReleaseTypes ==
    ASSUME TypeOK, NEW u \in Uploads, ReleaseOnce(u)
    PROVE  slots' \in Nat /\ released' \in [Uploads -> BOOLEAN]
<1>1. CASE released[u]
  BY <1>1 DEF TypeOK, ReleaseOnce, limiter
<1>2. CASE ~released[u]
  <2>1. Release(u)
    BY <1>2 DEF ReleaseOnce
  <2>2. slots' \in Nat
    BY <2>1 DEF TypeOK, Release
  <2>3. released' \in [Uploads -> BOOLEAN]
    BY <2>1 DEF TypeOK, Release
  <2> QED
    BY <2>2, <2>3
<1> QED
  BY <1>1, <1>2

\* Abort keeps a writer's variables in their types, whichever kind it is of.
LEMMA AbortTypes ==
    ASSUME TypeOK, NEW u \in Uploads, Abort(u)
    PROVE  /\ err' \in [Uploads -> BOOLEAN]
           /\ file' \in [Uploads -> {"none", "open", "closed"}]
           /\ temp' \in [Uploads -> BOOLEAN]
<1>1. err' \in [Uploads -> BOOLEAN]
  BY DEF TypeOK, Abort
<1>2. CASE u \in Local /\ err[u]
  BY <1>1, <1>2 DEF TypeOK, Abort
<1>3. CASE ~(u \in Local /\ err[u])
  <2>1. Discard(u)
    BY <1>3 DEF Abort
  <2> QED
    BY <1>1, <2>1 DEF TypeOK, Discard
<1> QED
  BY <1>2, <1>3

(* The variables of Upload stay within their types; above all, the slots   *)
(* in use are never fewer than none.                                       *)
THEOREM TypeCorrect == Spec => []TypeOK
<1> USE UploadAssumption, ChunkAssumption, LimitAssumption
<1>1. Init => TypeOK
  <2> SUFFICES ASSUME Init PROVE TypeOK
    OBVIOUS
  <2> QED
    BY DEF Init, TypeOK, Phases
<1>2. TypeOK /\ [Next]_vars => TypeOK'
  <2> SUFFICES ASSUME TypeOK, [Next]_vars PROVE TypeOK'
    OBVIOUS
  <2> USE DEF TypeOK, Phases, limiter, writer, data, outcome, Goto, Tell
  <2>1. ASSUME NEW u \in Uploads, Client(u) PROVE TypeOK'
    <3>1. CASE Acquire(u) \/ AcquireRefused(u)
      BY <3>1 DEF Acquire, AcquireRefused
    <3>2. ASSUME NEW c \in Chunks, WriteRejected(u, c) PROVE TypeOK'
      BY <3>2 DEF WriteRejected
    <3>3. ASSUME NEW c \in Chunks, WriteStarts(u, c) PROVE TypeOK'
      BY <3>3 DEF WriteStarts
    <3>4. CASE CloseArrives(u) \/ SinkCloses(u)
      BY <3>4 DEF CloseArrives, SinkCloses
    <3>5. CASE SinkAborts(u)
      BY <3>5, AbortTypes DEF SinkAborts
    <3> QED
      BY <2>1, <3>1, <3>2, <3>3, <3>4, <3>5 DEF Client
  <2>2. ASSUME NEW u \in Uploads, Step(u) PROVE TypeOK'
    <3>1. CASE CreateFails(u)
      BY <3>1 DEF CreateFails, Release
    <3>2. CASE Create(u)
      BY <3>2 DEF Create
    <3>3. CASE CloseStarts(u)
      BY <3>3 DEF CloseStarts
    <3>4. CASE CloseRefused(u)
      BY <3>4 DEF CloseRefused, Discard
    <3>5. CASE CloseProceeds(u)
      BY <3>5 DEF CloseProceeds
    <3>6. CASE Commit(u)
      BY <3>6 DEF Commit, Publish, Discard
    <3>7. CASE CommitUnanswered(u)
      BY <3>7 DEF CommitUnanswered, Publish, Discard
    <3>8. CASE CommitFails(u)
      BY <3>8 DEF CommitFails, Discard
    <3>9. CASE CloseReturns(u)
      BY <3>9, ReleaseTypes DEF CloseReturns
    <3>10. CASE AbortReturns(u)
      BY <3>10, ReleaseTypes DEF AbortReturns
    <3>11. CASE TransferError(u)
      BY <3>11, AbortTypes DEF TransferError
    <3>12. CASE SinkLost(u)
      BY <3>12, AbortTypes DEF SinkLost
    <3>13. ASSUME NEW c \in Chunks, WriteLands(u, c) PROVE TypeOK'
      BY <3>13 DEF WriteLands
    <3>14. ASSUME NEW c \in Chunks, WriteFails(u, c) PROVE TypeOK'
      BY <3>14 DEF WriteFails
    <3> QED
      BY <2>2, <3>1, <3>2, <3>3, <3>4, <3>5, <3>6, <3>7, <3>8, <3>9, <3>10, <3>11, <3>12, <3>13, <3>14 DEF Step
  <2>3. CASE Drop
    BY <2>3 DEF Drop
  <2>4. CASE UNCHANGED vars
    BY <2>4 DEF vars
  <2> QED
    BY <2>1, <2>2, <2>3, <2>4 DEF Next
<1> QED
  BY <1>1, <1>2, PTL DEF Spec

-----------------------------------------------------------------------------
(* Slots.  An upload that is not closing yet has not released; so what it  *)
(* releases is its own slot, and the first release is the only one.        *)
SlotInv ==
    /\ TypeOK
    /\ \A u \in Uploads :
          phase[u] \in {"idle", "refused", "creating", "open", "closeSent", "aborted"}
             => ~released[u]
    /\ SlotsAreHeld

LEMMA HoldersAreFinite == IsFiniteSet(Holders) /\ Cardinality(Holders) \in Nat
<1>1. Holders \in SUBSET Uploads
  BY DEF Holders
<1>2. IsFiniteSet(Holders)
  BY <1>1, UploadAssumption, FS_Subset
<1> QED
  BY <1>2, FS_CardinalityType

\* A step of u alone: it keeps its slot or its lack of one,
LEMMA SlotKept ==
    ASSUME SlotsAreHeld, NEW u \in Uploads,
           \A v \in Uploads : v # u => (v \in Holders' <=> v \in Holders),
           u \in Holders' <=> u \in Holders,
           slots' = slots
    PROVE  SlotsAreHeld'
<1>1. Holders' = Holders
  BY DEF Holders
<1> QED
  BY <1>1 DEF SlotsAreHeld, Limited

\* takes one,
LEMMA SlotTaken ==
    ASSUME TypeOK, SlotsAreHeld, NEW u \in Uploads,
           \A v \in Uploads : v # u => (v \in Holders' <=> v \in Holders),
           u \notin Holders, u \in Holders',
           Limited => slots < MaxConcurrentUploads /\ slots' = slots + 1
    PROVE  SlotsAreHeld'
<1>1. Holders' = Holders \cup {u}
  BY DEF Holders
<1>2. Cardinality(Holders') = Cardinality(Holders) + 1
  BY <1>1, HoldersAreFinite, FS_AddElement
<1> QED
  BY <1>2, LimitAssumption DEF SlotsAreHeld, Limited, TypeOK

\* or gives one back.
LEMMA SlotGiven ==
    ASSUME TypeOK, SlotsAreHeld, NEW u \in Uploads,
           \A v \in Uploads : v # u => (v \in Holders' <=> v \in Holders),
           u \in Holders, u \notin Holders',
           Limited => slots' = slots - 1
    PROVE  SlotsAreHeld'
<1>1. Holders' = Holders \ {u}
  BY DEF Holders
<1>2. Cardinality(Holders') = Cardinality(Holders) - 1
  BY <1>1, HoldersAreFinite, FS_RemoveElement
<1> QED
  BY <1>2, LimitAssumption DEF SlotsAreHeld, Limited, TypeOK

LEMMA SlotStep == SlotInv /\ TypeOK' /\ [Next]_vars => SlotInv'
<1> SUFFICES ASSUME SlotInv, TypeOK', [Next]_vars PROVE SlotInv'
  OBVIOUS
<1> USE DEF SlotInv, Goto
<1>1. ASSUME NEW u \in Uploads, Client(u) PROVE SlotInv'
  <2>1. CASE Acquire(u)
    <3>1. u \notin Holders /\ u \in Holders'
      BY <2>1 DEF Acquire, Holders, TypeOK
    <3>2. \A v \in Uploads : v # u => (v \in Holders' <=> v \in Holders)
      BY <2>1 DEF Acquire, Holders, TypeOK
    <3>3. SlotsAreHeld'
      BY <2>1, <3>1, <3>2, SlotTaken DEF Acquire
    <3> QED
      BY <2>1, <3>3 DEF Acquire, TypeOK
  <2>2. CASE AcquireRefused(u) \/ CloseArrives(u) \/ SinkCloses(u)
    <3>1. \A v \in Uploads : v \in Holders' <=> v \in Holders
      BY <2>2 DEF AcquireRefused, CloseArrives, SinkCloses, Holders, TypeOK, limiter
    <3>2. SlotsAreHeld'
      BY <2>2, <3>1, SlotKept DEF AcquireRefused, CloseArrives, SinkCloses, limiter
    <3> QED
      BY <2>2, <3>2 DEF AcquireRefused, CloseArrives, SinkCloses, TypeOK, limiter
  <2>3. ASSUME NEW c \in Chunks, WriteRejected(u, c) \/ WriteStarts(u, c)
        PROVE  SlotInv'
    BY <2>3 DEF WriteRejected, WriteStarts, SlotsAreHeld, Holders, Limited, limiter
  <2>4. CASE SinkAborts(u)
    <3>1. \A v \in Uploads : v \in Holders' <=> v \in Holders
      BY <2>4 DEF SinkAborts, Holders, TypeOK, limiter
    <3>2. SlotsAreHeld'
      BY <2>4, <3>1, SlotKept DEF SinkAborts, limiter
    <3> QED
      BY <2>4, <3>2 DEF SinkAborts, TypeOK, limiter
  <2> QED
    BY <1>1, <2>1, <2>2, <2>3, <2>4 DEF Client
<1>2. ASSUME NEW u \in Uploads, Step(u) PROVE SlotInv'
  <2>1. CASE CreateFails(u)
    <3>1. u \in Holders /\ u \notin Holders'
      BY <2>1 DEF CreateFails, Holders, TypeOK
    <3>2. \A v \in Uploads : v # u => (v \in Holders' <=> v \in Holders)
      BY <2>1 DEF CreateFails, Release, Holders, TypeOK
    <3>3. SlotsAreHeld'
      BY <2>1, <3>1, <3>2, SlotGiven DEF CreateFails, Release
    <3> QED
      BY <2>1, <3>3 DEF CreateFails, Release, TypeOK
  <2>2. CASE \/ Create(u) \/ CloseStarts(u) \/ CloseRefused(u) \/ CloseProceeds(u)
             \/ Commit(u) \/ CommitUnanswered(u) \/ CommitFails(u)
             \/ TransferError(u) \/ SinkLost(u)
    <3> USE DEF Create, CloseStarts, CloseRefused, CloseProceeds, Commit,
                CommitUnanswered, CommitFails, TransferError, SinkLost, limiter
    <3>1. /\ phase[u] \in {"creating", "closeSent", "closing", "committing", "open"}
          /\ \E p \in {"open", "closing", "closed", "committing", "aborted"} :
                /\ phase' = [phase EXCEPT ![u] = p]
                /\ p \in {"open", "aborted"} => phase[u] \in {"creating", "open"}
                /\ phase[u] \in {"creating", "open"} => p \in {"open", "aborted"}
          /\ UNCHANGED <<slots, released>>
      BY <2>2
    <3>2. \A v \in Uploads : v \in Holders' <=> v \in Holders
      BY <3>1 DEF Holders, TypeOK
    <3>3. SlotsAreHeld'
      BY <3>1, <3>2, SlotKept
    <3> QED
      BY <3>1, <3>3 DEF TypeOK
  <2>3. CASE CloseReturns(u) \/ AbortReturns(u)
    <3> USE DEF CloseReturns, AbortReturns
    <3>1. /\ phase[u] \in {"closed", "aborted"}
          /\ ReleaseOnce(u)
          /\ \E p \in {"done", "closing"} :
                /\ phase' = [phase EXCEPT ![u] = p]
                /\ p = "closing" => phase[u] = "aborted"
      BY <2>3
    <3>2. released'[u] /\ \A v \in Uploads : v # u => released'[v] = released[v]
      BY <3>1 DEF ReleaseOnce, Release, TypeOK, limiter
    <3>3. \A v \in Uploads : v # u => (v \in Holders' <=> v \in Holders)
      BY <3>1, <3>2 DEF Holders, TypeOK
    <3>4. u \notin Holders'
      BY <3>1, <3>2 DEF Holders, TypeOK
    <3>5. SlotsAreHeld'
      <4>1. CASE released[u]
        <5>1. u \notin Holders
          BY <3>1, <4>1 DEF Holders
        <5> QED
          BY <3>1, <3>3, <3>4, <4>1, <5>1, SlotKept DEF ReleaseOnce, limiter
      <4>2. CASE ~released[u]
        <5>1. u \in Holders
          BY <3>1, <4>2 DEF Holders
        <5> QED
          BY <3>1, <3>3, <3>4, <4>2, <5>1, SlotGiven DEF ReleaseOnce, Release
      <4> QED
        BY <4>1, <4>2
    <3> QED
      BY <3>1, <3>2, <3>5 DEF TypeOK
  <2>4. ASSUME NEW c \in Chunks, WriteLands(u, c) \/ WriteFails(u, c)
        PROVE  SlotInv'
    BY <2>4 DEF WriteLands, WriteFails, SlotsAreHeld, Holders, Limited, limiter
  <2> QED
    BY <1>2, <2>1, <2>2, <2>3, <2>4 DEF Step
<1>3. CASE Drop
  BY <1>3 DEF Drop, SlotsAreHeld, Holders, Limited, limiter
<1>4. CASE UNCHANGED vars
  BY <1>4 DEF vars, SlotsAreHeld, Holders, Limited
<1> QED
  BY <1>1, <1>2, <1>3, <1>4 DEF Next

(* The slots in use are exactly those of the uploads under way, and never  *)
(* more than the limit, whichever way each upload ends.                    *)
THEOREM SlotsAreCounted == Spec => []SlotsAreHeld
<1>1. Init /\ TypeOK => SlotInv
  <2> SUFFICES ASSUME Init, TypeOK PROVE SlotInv
    OBVIOUS
  <2>1. Holders = {}
    BY DEF Init, Holders
  <2>2. SlotsAreHeld
    BY <2>1, FS_EmptySet, LimitAssumption DEF Init, SlotsAreHeld
  <2> QED
    BY <2>2 DEF Init, SlotInv
<1>2. SlotInv => SlotsAreHeld
  BY DEF SlotInv
<1> QED
  BY <1>1, <1>2, SlotStep, TypeCorrect, PTL DEF Spec

-----------------------------------------------------------------------------
(* What is left behind.  An upload that is past its Close or its Abort has *)
(* no file any more.  The one that may is aborted twice by its writer, a   *)
(* failed local one, and needs the CLOSE that pkg/sftp still gives it.     *)
Clean(u) == file[u] # "open" /\ ~temp[u]
LeftInv ==
    /\ TypeOK
    /\ \A u \in Uploads :
          /\ phase[u] \in {"idle", "refused", "creating", "closed", "done"} => Clean(u)
          /\ phase[u] = "aborted" /\ u \notin Local => Clean(u)

LEMMA LeftStep ==
    ASSUME Scp \cap Local = {}
    PROVE  LeftInv /\ TypeOK' /\ [Next]_vars => LeftInv'
<1> SUFFICES ASSUME LeftInv, TypeOK', [Next]_vars PROVE LeftInv'
  OBVIOUS
<1> USE DEF LeftInv, Clean, TypeOK, writer, data, outcome, limiter, Goto, Tell
<1>1. ASSUME NEW u \in Uploads, Client(u) PROVE LeftInv'
  BY <1>1 DEF Client, Acquire, AcquireRefused, WriteRejected, WriteStarts,
              CloseArrives, SinkCloses, SinkAborts, Abort, Discard
<1>2. ASSUME NEW u \in Uploads, Step(u) PROVE LeftInv'
  <2>1. CASE CreateFails(u) \/ Create(u) \/ CloseStarts(u) \/ CloseProceeds(u)
    BY <2>1 DEF CreateFails, Create, CloseStarts, CloseProceeds
  <2>2. CASE CloseRefused(u) \/ CloseReturns(u)
    BY <2>2 DEF CloseRefused, CloseReturns, Discard
  <2>3. CASE Commit(u) \/ CommitUnanswered(u) \/ CommitFails(u)
    BY <2>3 DEF Commit, CommitUnanswered, CommitFails, Discard
  <2>4. CASE TransferError(u) \/ SinkLost(u)
    BY <2>4 DEF TransferError, SinkLost, Abort, Discard
  <2>5. CASE AbortReturns(u)
    BY <1>2, <2>5 DEF AbortReturns
  <2>6. ASSUME NEW c \in Chunks, WriteLands(u, c) \/ WriteFails(u, c) PROVE LeftInv'
    BY <2>6 DEF WriteLands, WriteFails
  <2> QED
    BY <1>2, <2>1, <2>2, <2>3, <2>4, <2>5, <2>6 DEF Step
<1>3. CASE Drop \/ UNCHANGED vars
  BY <1>3 DEF Drop, vars
<1> QED
  BY <1>1, <1>2, <1>3 DEF Next

(* An upload that is over has left no descriptor open and no temporary     *)
(* behind, unless the SCP sink received it into a local directory: it      *)
(* aborts a writer and does not close it.                                  *)
(* (scp_sink.go: receiveFile; localfs/file.go: Abort)                      *)
THEOREM UploadsCleanUp ==
    ASSUME Scp \cap Local = {}
    PROVE  Spec => []NothingIsLeftBehind
<1>1. Init /\ TypeOK => LeftInv
  BY DEF Init, LeftInv, Clean
<1>2. LeftInv => NothingIsLeftBehind
  BY DEF LeftInv, Clean, NothingIsLeftBehind
<1> QED
  BY <1>1, <1>2, LeftStep, TypeCorrect, PTL DEF Spec

-----------------------------------------------------------------------------
(* Content.  A failed write marks the writer before the client hears of    *)
(* it, and an unmarked writer has everything it was sent, except what the  *)
(* limit turned away: stored or being stored while it is open, stored once *)
(* it closes.  A writer marked by an abort never gets past closing.        *)
WholeInvOf(u) ==
    /\ u \notin Scp => ~failure[u]
    /\ phase[u] = "open" /\ ~err[u] /\ ~failure[u] =>
          sent[u] \ Oversize \subseteq landed[u] \cup inflight[u]
    /\ phase[u] \in {"idle", "creating"} => sent[u] = {}
    /\ phase[u] = "aborted" => err[u]
    /\ phase[u] \in {"closeSent", "committing"} => promised[u] # Nothing
    /\ phase[u] = "closing" /\ ~err[u] => promised[u] # Nothing
    /\ phase[u] \in {"closeSent", "closing"} /\ ~err[u] =>
          promised[u] \ Oversize \subseteq landed[u]
    /\ phase[u] = "committing" => promised[u] \ Oversize \subseteq landed[u]
    /\ content[u] # Nothing =>
          /\ phase[u] \in {"closed", "done"}
          /\ promised[u] # Nothing
          /\ promised[u] \ Oversize \subseteq content[u]

WholeInv == TypeOK /\ \A u \in Uploads : WholeInvOf(u)

\* Uploads share no more than the limiter and the name of the file.
LEMMA Elsewhere ==
    ASSUME TypeOK, NEW u \in Uploads, Client(u) \/ Step(u),
           NEW v \in Uploads, v # u
    PROVE  /\ phase'[v] = phase[v] /\ err'[v] = err[v] /\ failure'[v] = failure[v]
           /\ sent'[v] = sent[v] /\ inflight'[v] = inflight[v]
           /\ landed'[v] = landed[v] /\ content'[v] = content[v]
           /\ promised'[v] = promised[v] /\ reply'[v] = reply[v]
           /\ current' \in {current, u}
<1> DEFINE Same ==
      /\ phase'[v] = phase[v] /\ err'[v] = err[v] /\ failure'[v] = failure[v]
      /\ sent'[v] = sent[v] /\ inflight'[v] = inflight[v]
      /\ landed'[v] = landed[v] /\ content'[v] = content[v]
      /\ promised'[v] = promised[v] /\ reply'[v] = reply[v]
      /\ current' \in {current, u}
<1> SUFFICES Same
  OBVIOUS
<1> USE DEF TypeOK, writer, data, outcome, Goto, Tell
<1>1. CASE Client(u)
  BY <1>1 DEF Client, Acquire, AcquireRefused, WriteRejected, WriteStarts,
              CloseArrives, SinkCloses, SinkAborts, Abort
<1>2. CASE CreateFails(u) \/ Create(u) \/ CloseStarts(u)
  BY <1>2 DEF CreateFails, Create, CloseStarts
<1>3. CASE CloseRefused(u) \/ CloseProceeds(u) \/ CloseReturns(u)
  BY <1>3 DEF CloseRefused, CloseProceeds, CloseReturns
<1>4. CASE Commit(u) \/ CommitUnanswered(u) \/ CommitFails(u)
  BY <1>4 DEF Commit, CommitUnanswered, CommitFails, Publish
<1>5. CASE TransferError(u) \/ AbortReturns(u) \/ SinkLost(u)
  BY <1>5 DEF TransferError, AbortReturns, SinkLost, Abort
<1>6. ASSUME NEW c \in Chunks, WriteLands(u, c) \/ WriteFails(u, c)
      PROVE  Same
  BY <1>6 DEF WriteLands, WriteFails
<1> HIDE DEF Same
<1> QED
  BY <1>1, <1>2, <1>3, <1>4, <1>5, <1>6 DEF Step

LEMMA WholeElsewhere ==
    ASSUME WholeInv, TypeOK', NEW u \in Uploads, Client(u) \/ Step(u),
           NEW v \in Uploads, v # u
    PROVE  WholeInvOf(v)'
BY Elsewhere DEF WholeInv, WholeInvOf

LEMMA WholeHere ==
    ASSUME WholeInv, TypeOK', NEW u \in Uploads, Client(u) \/ Step(u)
    PROVE  WholeInvOf(u)'
<1> USE ChunkAssumption DEF TypeOK, writer, data, outcome, Goto
<1>0. TypeOK /\ WholeInvOf(u)
  BY DEF WholeInv
<1>1. CASE Acquire(u) \/ AcquireRefused(u)
  BY <1>0, <1>1 DEF Acquire, AcquireRefused, WholeInvOf
<1>2. ASSUME NEW c \in Chunks, WriteRejected(u, c) PROVE WholeInvOf(u)'
  BY <1>0, <1>2 DEF WriteRejected, MaySend, Rejected, WholeInvOf
<1>3. ASSUME NEW c \in Chunks, WriteStarts(u, c) PROVE WholeInvOf(u)'
  BY <1>0, <1>3 DEF WriteStarts, MaySend, Rejected, WholeInvOf
<1>4. CASE CloseArrives(u)
  BY <1>0, <1>4 DEF CloseArrives, WholeInvOf
<1>5. CASE SinkCloses(u)
  BY <1>0, <1>5 DEF SinkCloses, Received, WholeInvOf
<1>6. CASE CreateFails(u)
  BY <1>0, <1>6 DEF CreateFails, WholeInvOf
<1>7. CASE Create(u)
  BY <1>0, <1>7 DEF Create, WholeInvOf
<1>8. CASE CloseStarts(u)
  BY <1>0, <1>8 DEF CloseStarts, WholeInvOf
<1>9. CASE CloseRefused(u)
  BY <1>0, <1>9 DEF CloseRefused, WholeInvOf
<1>10. CASE CloseProceeds(u)
  BY <1>0, <1>10 DEF CloseProceeds, WholeInvOf
<1>11. CASE Commit(u) \/ CommitUnanswered(u)
  BY <1>0, <1>11 DEF Commit, CommitUnanswered, Publish, WholeInvOf
<1>12. CASE CommitFails(u)
  BY <1>0, <1>12 DEF CommitFails, WholeInvOf
<1>13. CASE CloseReturns(u)
  BY <1>0, <1>13 DEF CloseReturns, WholeInvOf
<1>14. CASE TransferError(u) \/ SinkLost(u)
  BY <1>0, <1>14 DEF TransferError, SinkLost, Abort, WholeInvOf
<1>15. CASE SinkAborts(u)
  BY <1>0, <1>15 DEF SinkAborts, Abort, WholeInvOf
<1>16. CASE AbortReturns(u)
  BY <1>0, <1>16 DEF AbortReturns, WholeInvOf
<1>17. ASSUME NEW c \in Chunks, WriteLands(u, c) PROVE WholeInvOf(u)'
  BY <1>0, <1>17 DEF WriteLands, WholeInvOf
<1>18. ASSUME NEW c \in Chunks, WriteFails(u, c) PROVE WholeInvOf(u)'
  BY <1>0, <1>18 DEF WriteFails, WholeInvOf
<1> QED
  BY <1>1, <1>2, <1>3, <1>4, <1>5, <1>6, <1>7, <1>8, <1>9, <1>10, <1>11, <1>12,
     <1>13, <1>14, <1>15, <1>16, <1>17, <1>18 DEF Client, Step

LEMMA WholeInvariant == Spec => []WholeInv
<1>1. Init /\ TypeOK => WholeInv
  BY DEF Init, WholeInv, WholeInvOf
<1>2. WholeInv /\ TypeOK' /\ [Next]_vars => WholeInv'
  <2> SUFFICES ASSUME WholeInv, TypeOK', [Next]_vars PROVE WholeInv'
    OBVIOUS
  <2>1. ASSUME NEW u \in Uploads, Client(u) \/ Step(u) PROVE WholeInv'
    BY <2>1, WholeHere, WholeElsewhere DEF WholeInv
  <2>2. CASE Drop \/ UNCHANGED vars
    BY <2>2 DEF Drop, vars, WholeInv, WholeInvOf, writer, data, outcome
  <2> QED
    BY <2>1, <2>2 DEF Next
<1> QED
  BY <1>1, <1>2, TypeCorrect, PTL DEF Spec

(* An upload its client abandoned is never published.                      *)
THEOREM AbandonedStaysUnpublished == Spec => []AbandonedIsNotPublished
<1>1. WholeInv => AbandonedIsNotPublished
  BY DEF WholeInv, WholeInvOf, AbandonedIsNotPublished
<1> QED
  BY <1>1, WholeInvariant, PTL

(* What is published holds all its client sent within the limit, even      *)
(* with writes of several uploads in flight and failing in any order.      *)
THEOREM PublishedWhole == Spec => []PublishedIsWhole
<1>1. WholeInv => PublishedIsWhole
  BY DEF WholeInv, WholeInvOf, PublishedIsWhole
<1> QED
  BY <1>1, WholeInvariant, PTL

-----------------------------------------------------------------------------
(* Refinement.  What a client promised it has sent, and none of that is in *)
(* flight any more: what lands afterwards is what it wrote behind CLOSE.   *)
(* Nothing past the size limit is ever stored.                             *)
OnlyInvOf(u) ==
    /\ landed[u] \cap Oversize = {}
    /\ inflight[u] \cap Oversize = {}
    /\ promised[u] # Nothing =>
          /\ phase[u] \in {"closeSent", "closing", "committing", "closed", "done"}
          /\ promised[u] \subseteq sent[u]
          /\ inflight[u] \cap promised[u] = {}
    /\ current = u => content[u] # Nothing

OnlyInv == WholeInv /\ \A u \in Uploads : OnlyInvOf(u)

LEMMA OnlyHere ==
    ASSUME OnlyInv, TypeOK', NEW u \in Uploads, Client(u) \/ Step(u)
    PROVE  OnlyInvOf(u)'
<1> USE ChunkAssumption DEF TypeOK, writer, data, outcome, Goto
<1>0. TypeOK /\ WholeInvOf(u) /\ OnlyInvOf(u)
  BY DEF OnlyInv, WholeInv
<1>1. CASE Acquire(u) \/ AcquireRefused(u) \/ CreateFails(u) \/ Create(u)
  BY <1>0, <1>1 DEF Acquire, AcquireRefused, CreateFails, Create, OnlyInvOf
<1>2. ASSUME NEW c \in Chunks, WriteRejected(u, c) PROVE OnlyInvOf(u)'
  BY <1>0, <1>2 DEF WriteRejected, MaySend, OnlyInvOf
<1>3. ASSUME NEW c \in Chunks, WriteStarts(u, c) PROVE OnlyInvOf(u)'
  BY <1>0, <1>3 DEF WriteStarts, MaySend, Rejected, OnlyInvOf
<1>4. CASE CloseArrives(u) \/ SinkCloses(u)
  BY <1>0, <1>4 DEF CloseArrives, SinkCloses, Received, OnlyInvOf
<1>5. CASE CloseStarts(u) \/ CloseRefused(u) \/ CloseProceeds(u)
  BY <1>0, <1>5 DEF CloseStarts, CloseRefused, CloseProceeds, OnlyInvOf
<1>6. CASE Commit(u) \/ CommitUnanswered(u)
  BY <1>0, <1>6 DEF Commit, CommitUnanswered, Publish, OnlyInvOf
<1>7. CASE CommitFails(u) \/ CloseReturns(u)
  BY <1>0, <1>7 DEF CommitFails, CloseReturns, OnlyInvOf
<1>8. CASE TransferError(u) \/ SinkLost(u) \/ SinkAborts(u)
  BY <1>0, <1>8 DEF TransferError, SinkLost, SinkAborts, Received, Abort, OnlyInvOf
<1>9. CASE AbortReturns(u)
  BY <1>0, <1>9 DEF AbortReturns, WholeInvOf, OnlyInvOf
<1>10. ASSUME NEW c \in Chunks, WriteLands(u, c) \/ WriteFails(u, c)
       PROVE  OnlyInvOf(u)'
  BY <1>0, <1>10 DEF WriteLands, WriteFails, OnlyInvOf
<1> QED
  BY <1>1, <1>2, <1>3, <1>4, <1>5, <1>6, <1>7, <1>8, <1>9, <1>10 DEF Client, Step

LEMMA OnlyInvariant == Spec => []OnlyInv
<1>1. Init /\ WholeInv => OnlyInv
  BY UploadAssumption DEF Init, OnlyInv, OnlyInvOf
<1>2. OnlyInv /\ WholeInv' /\ [Next]_vars => OnlyInv'
  <2> SUFFICES ASSUME OnlyInv, WholeInv', [Next]_vars PROVE OnlyInv'
    OBVIOUS
  <2>0. TypeOK /\ TypeOK' /\ \A u \in Uploads : OnlyInvOf(u)
    BY DEF OnlyInv, WholeInv
  <2>1. ASSUME NEW u \in Uploads, Client(u) \/ Step(u) PROVE OnlyInv'
    <3>1. OnlyInvOf(u)'
      BY <2>0, <2>1, OnlyHere
    <3>2. ASSUME NEW v \in Uploads, v # u PROVE OnlyInvOf(v)'
      BY <2>0, <2>1, <3>2, Elsewhere DEF OnlyInvOf
    <3> QED
      BY <3>1, <3>2 DEF OnlyInv
  <2>2. CASE Drop \/ UNCHANGED vars
    BY <2>2, <2>0 DEF Drop, vars, OnlyInv, OnlyInvOf, writer, data, outcome
  <2> QED
    BY <2>1, <2>2 DEF Next
<1> QED
  BY <1>1, <1>2, WholeInvariant, PTL DEF Spec

\* The abstract state of every upload but u is what it was.
LEMMA PutElsewhere ==
    ASSUME TypeOK, TypeOK', NEW u \in Uploads, Client(u) \/ Step(u)
    PROVE  /\ \A v \in Uploads : v # u => PutState(v)' = PutState(v)
           /\ [v \in Uploads |-> PutState(v)]' =
                 [[v \in Uploads |-> PutState(v)] EXCEPT ![u] = PutState(u)']
<1>1. \A v \in Uploads : v # u => PutState(v)' = PutState(v)
  BY Elsewhere DEF PutState, Settling
<1> QED
  BY <1>1

\* A step that settles nothing: the file, the offer and the answer are kept.
LEMMA PutStutters ==
    ASSUME TypeOK, TypeOK', NEW u \in Uploads, Client(u) \/ Step(u),
           PutState(u)' = PutState(u),
           PutStore' = PutStore, promised' = promised, reply' = reply
    PROVE  UNCHANGED Put!vars
BY PutElsewhere DEF Put!vars, Offered

\* What a file holds changes with its content or its promise.
LEMMA StoreKept ==
    ASSUME OnlyInv, TypeOK', NEW u \in Uploads, Client(u) \/ Step(u),
           current' = current,
           content[u] # Nothing => Vouched(u)' = Vouched(u)
    PROVE  PutStore' = PutStore
<1>1. ASSUME NEW v \in Uploads, v = current PROVE Vouched(v)' = Vouched(v)
  <2>1. TypeOK /\ OnlyInvOf(v)
    BY DEF OnlyInv, WholeInv
  <2>2. CASE v = u
    BY <1>1, <2>1, <2>2 DEF OnlyInvOf
  <2>3. CASE v # u
    BY <2>1, <2>3, Elsewhere DEF Vouched
  <2> QED
    BY <2>2, <2>3
<1>2. current \in Uploads \cup {None}
  BY DEF OnlyInv, WholeInv, TypeOK
<1> QED
  BY <1>1, <1>2 DEF PutStore

LEMMA PutStep ==
    ASSUME OnlyInv, TypeOK', NEW u \in Uploads, Client(u) \/ Step(u)
    PROVE  [Put!Next]_(Put!vars)
<1> DEFINE states == [v \in Uploads |-> PutState(v)]
           offers == [v \in Uploads |-> Offered(v)]
<1>0. TypeOK /\ WholeInvOf(u) /\ OnlyInvOf(u)
  BY DEF OnlyInv, WholeInv
<1>1. states' = [states EXCEPT ![u] = PutState(u)']
  BY <1>0, PutElsewhere
<1>2. states[u] = PutState(u) /\ offers[u] = Offered(u)
  OBVIOUS
<1>3. \A S \in SUBSET Chunks : S # Nothing
  BY ChunkAssumption
<1>a. promised' = promised => UNCHANGED offers
  BY DEF Offered
<1>b. current' = current /\ content' = content /\ promised' = promised
         => UNCHANGED PutStore
  BY DEF PutStore, Vouched
<1> USE DEF Goto, Tell
<1> HIDE DEF states, offers
<1>4. ASSUME UNCHANGED <<promised, content, current, reply>>,
             PutState(u)' = PutState(u)
      PROVE  UNCHANGED Put!vars
  BY <1>0, <1>4, <1>b, PutStutters
<1>5. CASE Acquire(u) \/ Create(u) \/ CloseStarts(u) \/ CloseProceeds(u)
  BY <1>0, <1>4, <1>5 DEF Acquire, Create, CloseStarts, CloseProceeds, outcome,
                          TypeOK, OnlyInvOf, PutState, Settling
<1>6. CASE CloseReturns(u) \/ AbortReturns(u) \/ TransferError(u) \/ SinkLost(u)
  BY <1>0, <1>4, <1>6 DEF CloseReturns, AbortReturns, TransferError, SinkLost,
                          outcome, TypeOK, OnlyInvOf, PutState, Settling
<1>7. ASSUME NEW c \in Chunks, WriteRejected(u, c) \/ WriteStarts(u, c) \/ WriteFails(u, c)
      PROVE  UNCHANGED Put!vars
  BY <1>4, <1>7 DEF WriteRejected, WriteStarts, WriteFails, outcome, PutState, Settling
<1>8. ASSUME NEW c \in Chunks, WriteLands(u, c) PROVE UNCHANGED Put!vars
  <2>1. /\ content'[u] = content[u] \/ content'[u] = content[u] \cup {c}
        /\ c \in inflight[u]
        /\ UNCHANGED <<promised, current, reply, phase>>
    BY <1>0, <1>8 DEF WriteLands, TypeOK
  <2>2. content[u] # Nothing => Vouched(u)' = Vouched(u)
    BY <1>0, <2>1 DEF WholeInvOf, OnlyInvOf, Vouched
  <2>3. PutStore' = PutStore
    BY <2>1, <2>2, StoreKept
  <2>4. PutState(u)' = PutState(u)
    BY <2>1 DEF PutState, Settling
  <2> QED
    BY <1>0, <2>1, <2>3, <2>4, PutStutters
<1>9. CASE AcquireRefused(u) \/ CreateFails(u) \/ SinkAborts(u)
  <2>1. promised[u] = Nothing
    BY <1>0, <1>9 DEF AcquireRefused, CreateFails, SinkAborts, OnlyInvOf
  <2>2. /\ reply' = [reply EXCEPT ![u] = "failure"]
        /\ UNCHANGED <<promised, content, current>>
    BY <1>9 DEF AcquireRefused, CreateFails, SinkAborts
  <2>3. PutState(u) = "unfinished" /\ PutState(u)' = "unfinished"
    BY <2>1, <2>2 DEF PutState
  <2>4. UNCHANGED <<states, PutStore, offers>>
    BY <1>1, <1>2, <1>a, <1>b, <2>2, <2>3 DEF states
  <2>5. Put!Refuse(u)
    BY <1>2, <2>2, <2>3, <2>4 DEF Put!Refuse, states, offers
  <2> QED
    BY <2>5 DEF Put!Next
<1>10. CASE CloseRefused(u) \/ CommitFails(u)
  <2>1. /\ reply' = [reply EXCEPT ![u] = "failure"]
        /\ UNCHANGED <<promised, content, current>>
        /\ phase'[u] = "closed"
        /\ phase[u] \in {"closing", "committing"}
    BY <1>0, <1>10 DEF CloseRefused, CommitFails, TypeOK
  <2>2. UNCHANGED <<PutStore, offers>>
    BY <1>a, <1>b, <2>1
  <2>3. CASE promised[u] = Nothing
    <3>1. PutState(u) = "unfinished" /\ PutState(u)' = "unfinished"
      BY <2>1, <2>3 DEF PutState
    <3>2. UNCHANGED states
      BY <1>1, <1>2, <3>1 DEF states
    <3>3. Put!Refuse(u)
      BY <1>2, <2>1, <2>2, <3>1, <3>2 DEF Put!Refuse, states, offers
    <3> QED
      BY <3>3 DEF Put!Next
  <2>4. CASE promised[u] # Nothing
    <3>1. PutState(u) = "offered" /\ PutState(u)' = "settled"
      BY <2>1, <2>4 DEF PutState, Settling
    <3>2. Put!Decline(u)
      BY <1>1, <1>2, <2>1, <2>2, <3>1 DEF Put!Decline, states, offers
    <3> QED
      BY <3>2 DEF Put!Next
  <2> QED
    BY <2>3, <2>4
<1>11. CASE CloseArrives(u) \/ SinkCloses(u)
  <2>1. /\ phase[u] = "open"
        /\ phase'[u] \in {"closeSent", "closing"}
        /\ promised' = [promised EXCEPT ![u] = sent[u]]
        /\ UNCHANGED <<content, current, reply>>
    BY <1>0, <1>11 DEF CloseArrives, SinkCloses, TypeOK
  <2>2. promised[u] = Nothing /\ promised'[u] # Nothing /\ content[u] = Nothing
    BY <1>0, <1>3, <2>1 DEF WholeInvOf, OnlyInvOf, TypeOK
  <2>3. PutState(u) = "unfinished" /\ PutState(u)' = "offered"
    BY <2>1, <2>2 DEF PutState, Settling
  <2>4. UNCHANGED PutStore
    BY <2>1, <2>2, StoreKept
  <2>5. offers' = [offers EXCEPT ![u] = sent[u] \ Oversize]
    BY <1>0, <2>1, <2>2 DEF offers, Offered, TypeOK
  <2>6. Put!Offer(u, sent[u] \ Oversize)
    BY <1>1, <1>2, <2>1, <2>3, <2>4, <2>5 DEF Put!Offer, states, offers
  <2> QED
    BY <1>0, <2>6 DEF Put!Next, TypeOK
<1>12. CASE Commit(u) \/ CommitUnanswered(u)
  <2>1. PICK told \in {"ok", "failure"} :
          /\ reply' = [reply EXCEPT ![u] = told]
          /\ phase[u] = "committing"
          /\ phase'[u] = "closed"
          /\ content' = [content EXCEPT ![u] = landed[u]]
          /\ current' = u
          /\ UNCHANGED promised
    BY <1>0, <1>12 DEF Commit, CommitUnanswered, Publish, TypeOK
  <2>2. /\ promised[u] # Nothing
        /\ landed[u] \cap promised[u] = promised[u] \ Oversize
    BY <1>0, <2>1 DEF WholeInvOf, OnlyInvOf, TypeOK
  <2>3. PutState(u) = "offered" /\ PutState(u)' = "settled"
    BY <2>1, <2>2 DEF PutState, Settling
  <2>4. Vouched(u)' = Offered(u)
    BY <1>0, <2>1, <2>2 DEF Vouched, Offered, TypeOK
  <2>5. PutStore' = [by |-> u, data |-> Offered(u)]
    BY <2>1, <2>4, UploadAssumption DEF PutStore
  <2>6. UNCHANGED offers
    BY <1>a, <2>1
  <2>7. Put!Put(u, told)
    BY <1>1, <1>2, <2>1, <2>3, <2>5, <2>6 DEF Put!Put, states, offers
  <2> QED
    BY <2>7 DEF Put!Next
<1> QED
  BY <1>5, <1>6, <1>7, <1>8, <1>9, <1>10, <1>11, <1>12 DEF Client, Step

(* Every upload replaces the file whole or not at all, and never in two    *)
(* steps: what its client finished sending within the size limit, entire   *)
(* and untouched by what the client writes behind its own CLOSE.           *)
THEOREM UploadsAreAtomic == Spec => ImplementsAtomicPut
<1>1. Init => Put!Init
  <2> SUFFICES ASSUME Init PROVE Put!Init
    OBVIOUS
  <2>1. \A u \in Uploads : PutState(u) = "unfinished" /\ Offered(u) = Nothing
    BY DEF Init, PutState, Offered
  <2>2. PutStore = [by |-> None, data |-> Nothing]
    BY DEF Init, PutStore
  <2> QED
    BY <2>1, <2>2 DEF Init, Put!Init
<1>2. OnlyInv /\ TypeOK' /\ [Next]_vars => [Put!Next]_(Put!vars)
  <2> SUFFICES ASSUME OnlyInv, TypeOK', [Next]_vars PROVE [Put!Next]_(Put!vars)
    OBVIOUS
  <2>1. ASSUME NEW u \in Uploads, Client(u) \/ Step(u)
        PROVE  [Put!Next]_(Put!vars)
    BY <2>1, PutStep
  <2>2. CASE Drop \/ UNCHANGED vars
    BY <2>2 DEF Drop, vars, outcome, Put!vars, PutState, PutStore, Settling,
                Offered, Vouched
  <2> QED
    BY <2>1, <2>2 DEF Next
<1> QED
  BY <1>1, <1>2, OnlyInvariant, TypeCorrect, PTL DEF Spec, ImplementsAtomicPut, Put!Spec
=============================================================================
