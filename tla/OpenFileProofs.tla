--------------------------- MODULE OpenFileProofs ---------------------------
(***************************************************************************)
(* Proofs about OpenFile, for any set of goroutines, offsets and lengths.  *)
(* IInv is inductive: OneProbe makes the probe unique, and CopyHasAHolder  *)
(* says that until it adopts nothing else holds a reader, so at most one   *)
(* staging file is ever open.                                              *)
(***************************************************************************)
EXTENDS OpenFile, TLAPS

IInv ==
    /\ TypeOK
    /\ OneProbe
    /\ CopyHasAHolder
    /\ NobodyWaitsForNobody

-----------------------------------------------------------------------------
(* The variables of OpenFile stay within their types.                      *)
THEOREM TypeCorrect == Spec => []TypeOK
<1> USE NoneAssumption, SizeAssumption
<1>1. Init => TypeOK
  <2> SUFFICES ASSUME Init PROVE TypeOK
    OBVIOUS
  <2> QED
    BY DEF Init, TypeOK, Phases, Outcomes
<1>2. TypeOK /\ [Next]_vars => TypeOK'
  <2> SUFFICES ASSUME TypeOK, [Next]_vars PROVE TypeOK'
    OBVIOUS
  <2> USE DEF TypeOK, handle, request, Phases, Outcomes
  <2>1. ASSUME NEW r \in Readers, Ask(r) PROVE TypeOK'
    BY <2>1 DEF Ask, Read, Size
  <2>2. ASSUME NEW r \in Readers, Step(r) PROVE TypeOK'
    <3>1. CASE NextRefuses(r) \/ NextForwards(r) \/ NextWaits(r)
      BY <3>1 DEF NextRefuses, NextForwards, NextWaits
    <3>2. CASE NextProbes(r) \/ GateOpens(r) \/ WaitCancelled(r)
      BY <3>2 DEF NextProbes, GateOpens, WaitCancelled, Return
    <3>3. CASE AdoptRefused(r) \/ Adopt(r) \/ Reread(r)
      BY <3>3 DEF AdoptRefused, Adopt, Reread, CloseReader, StagedOutcomes, Staged
    <3>4. CASE Settle(r) \/ Broadcast(r)
      BY <3>4 DEF Settle, Broadcast, Return
    <3>5. CASE ReadStaged(r) \/ RangeReadPastTheEnd(r) \/ RangeReadAsks(r)
      BY <3>5 DEF ReadStaged, RangeReadPastTheEnd, RangeReadAsks, Return, StagedOutcomes
    <3>6. CASE SizeLooks(r) \/ Measure(r)
      BY <3>6 DEF SizeLooks, Measure, Measurable
    <3> QED
      BY <2>2, <3>1, <3>2, <3>3, <3>4, <3>5, <3>6 DEF Step
  <2>3. ASSUME NEW r \in Readers, Answer(r) PROVE TypeOK'
    <3>1. CASE Fail(r)
      BY <3>1 DEF Fail, ProbeFails, StageFails, RangeReadFails, Return
    <3>2. CASE ProbeAnsweredWhole(r) \/ StageCompletes(r)
      BY <3>2 DEF ProbeAnsweredWhole, StageCompletes
    <3>3. ASSUME NEW total \in Sizes \cup {Unknown}, NEW outcome \in {"data", "eof"},
                 ProbeAnsweredRange(r, total, outcome)
          PROVE TypeOK'
      BY <3>3 DEF ProbeAnsweredRange
    <3>4. ASSUME NEW total \in Sizes \cup {Unknown}, NEW outcome \in Outcomes,
                 RangeReadAnswered(r, total, outcome)
          PROVE TypeOK'
      BY <3>4 DEF RangeReadAnswered, Return, Learn
    <3> QED
      BY <2>3, <3>1, <3>2, <3>3, <3>4 DEF Answer
  <2>4. CASE Close \/ Cancel
    BY <2>4 DEF Close, Cancel
  <2>5. CASE CloseReleases
    <3>1. copy' \in [Readers -> {"none", "open", "closed"}]
      BY <2>5 DEF CloseReleases, CloseReader
    <3> QED
      BY <2>5, <3>1 DEF CloseReleases
  <2>6. CASE UNCHANGED vars
    BY <2>6 DEF vars
  <2> QED
    BY <2>1, <2>2, <2>3, <2>4, <2>5, <2>6 DEF Next
<1> QED
  BY <1>1, <1>2, PTL DEF Spec

-----------------------------------------------------------------------------
LEMMA Initially == Init => IInv
<1> USE NoneAssumption, SizeAssumption
<1> SUFFICES ASSUME Init PROVE IInv
  OBVIOUS
<1>1. TypeOK
  BY DEF Init, TypeOK, Phases, Outcomes
<1>2. OneProbe
  BY DEF Init, OneProbe, Probing
<1>3. CopyHasAHolder
  BY DEF Init, CopyHasAHolder
<1>4. NobodyWaitsForNobody
  BY DEF Init, NobodyWaitsForNobody
<1> QED
  BY <1>1, <1>2, <1>3, <1>4 DEF IInv

(* Every step of a goroutine that leaves the probe and the gates as they   *)
(* are: it keeps its own place in or out of probe() and waits on no gate.  *)
LEMMA QuietStep ==
    ASSUME IInv, TypeOK',
           NEW r \in Readers,
           NEW phase, pc' = [pc EXCEPT ![r] = phase],
           Probing(r) <=> phase \in {"fetch", "stage", "adopt", "reread", "settle"},
           pc[r] # "broadcast",
           pc[r] # "wait",
           UNCHANGED <<probing, gate>>
    PROVE  OneProbe' /\ NobodyWaitsForNobody'
<1> USE DEF IInv, TypeOK
<1>1. \A s \in Readers : Probing(s)' <=> Probing(s)
  BY DEF Probing
<1>2. OneProbe'
  BY <1>1 DEF OneProbe
<1>3. NobodyWaitsForNobody'
  BY <1>1 DEF NobodyWaitsForNobody
<1> QED
  BY <1>2, <1>3

(* The probe and the gates through every step of a goroutine.              *)
LEMMA GatesStep ==
    ASSUME IInv, TypeOK', NEW r \in Readers, Ask(r) \/ Step(r) \/ Answer(r)
    PROVE  OneProbe' /\ NobodyWaitsForNobody'
<1> USE DEF handle, request
<1>1. CASE Ask(r)
  <2>1. pc' = [pc EXCEPT ![r] = "next"]
    BY <1>1 DEF Ask, Read, Size
  <2> QED
    BY <1>1, <2>1, QuietStep DEF Ask, Read, Size, Probing
<1>2. CASE NextRefuses(r) \/ NextForwards(r)
  BY <1>2, QuietStep DEF NextRefuses, NextForwards, Probing
<1>3. CASE NextWaits(r)
  <2> USE DEF IInv, TypeOK
  <2>1. \A s \in Readers : Probing(s)' <=> Probing(s)
    BY <1>3 DEF NextWaits, Probing
  <2>2. OneProbe'
    BY <1>3, <2>1 DEF NextWaits, OneProbe
  <2>3. Probing(probing)
    BY <1>3 DEF NextWaits, OneProbe
  <2>4. NobodyWaitsForNobody'
    BY <1>3, <2>1, <2>3 DEF NextWaits, NobodyWaitsForNobody
  <2> QED
    BY <2>2, <2>4
<1>4. CASE NextProbes(r)
  <2> USE DEF IInv, TypeOK
  <2>1. \A s \in Readers : Probing(s)' <=> s = r
    BY <1>4, NoneAssumption DEF NextProbes, Probing, OneProbe
  <2>2. OneProbe'
    BY <1>4, <2>1 DEF NextProbes, OneProbe
  <2>3. NobodyWaitsForNobody'
    BY <1>4, <2>1, NoneAssumption DEF NextProbes, NobodyWaitsForNobody, OneProbe, Probing
  <2> QED
    BY <2>2, <2>3
<1>5. CASE GateOpens(r) \/ WaitCancelled(r)
  <2> USE DEF IInv, TypeOK
  <2>1. \A s \in Readers : Probing(s)' <=> Probing(s)
    BY <1>5 DEF GateOpens, WaitCancelled, Return, Probing
  <2>2. OneProbe'
    BY <1>5, <2>1 DEF GateOpens, WaitCancelled, OneProbe
  <2>3. NobodyWaitsForNobody'
    BY <1>5, <2>1 DEF GateOpens, WaitCancelled, Return, NobodyWaitsForNobody
  <2> QED
    BY <2>2, <2>3
<1>6. CASE Fail(r)
  BY <1>6, QuietStep DEF Fail, ProbeFails, StageFails, RangeReadFails, Return, Probing
<1>7. CASE ProbeAnsweredWhole(r) \/ StageCompletes(r)
  BY <1>7, QuietStep DEF ProbeAnsweredWhole, StageCompletes, Probing
<1>8. ASSUME NEW total, NEW outcome, ProbeAnsweredRange(r, total, outcome)
      PROVE  OneProbe' /\ NobodyWaitsForNobody'
  BY <1>8, QuietStep DEF ProbeAnsweredRange, Probing
<1>9. CASE AdoptRefused(r) \/ Reread(r)
  BY <1>9, QuietStep DEF AdoptRefused, Reread, Probing
<1>10. CASE Adopt(r)
  BY <1>10, QuietStep DEF Adopt, Probing
<1>11. CASE Settle(r)
  <2> USE DEF IInv, TypeOK
  <2>1. \A s \in Readers : ~Probing(s)'
    BY <1>11 DEF Settle, Probing, OneProbe
  <2>2. \A s \in Readers : Probing(s) => s = r
    BY <1>11 DEF Settle, Probing, OneProbe
  <2>3. OneProbe'
    BY <1>11, <2>1, NoneAssumption DEF Settle, OneProbe
  <2>4. NobodyWaitsForNobody'
    BY <1>11, <2>2 DEF Settle, NobodyWaitsForNobody
  <2> QED
    BY <2>3, <2>4
<1>12. CASE Broadcast(r)
  <2> USE DEF IInv, TypeOK
  <2>1. \A s \in Readers : Probing(s)' <=> Probing(s)
    BY <1>12 DEF Broadcast, Return, Probing
  <2>2. OneProbe'
    BY <1>12, <2>1 DEF Broadcast, OneProbe
  <2>3. NobodyWaitsForNobody'
    BY <1>12, <2>1 DEF Broadcast, Return, NobodyWaitsForNobody
  <2> QED
    BY <2>2, <2>3
<1>13. CASE ReadStaged(r) \/ RangeReadPastTheEnd(r) \/ RangeReadAsks(r)
  BY <1>13, QuietStep DEF ReadStaged, RangeReadPastTheEnd, RangeReadAsks, Return, Probing
<1>14. ASSUME NEW total, NEW outcome, RangeReadAnswered(r, total, outcome)
       PROVE  OneProbe' /\ NobodyWaitsForNobody'
  BY <1>14, QuietStep DEF RangeReadAnswered, Return, Probing
<1>15. CASE SizeLooks(r) \/ Measure(r)
  BY <1>15, QuietStep DEF SizeLooks, Measure, Probing
<1> QED
  BY <1>1, <1>2, <1>3, <1>4, <1>5, <1>6, <1>7, <1>8, <1>9, <1>10, <1>11, <1>12,
     <1>13, <1>14, <1>15 DEF Step, Answer
(* Who holds a reader, through every step of a goroutine.  Only the probe  *)
(* makes, closes or adopts one, and it is alone in doing so.               *)
LEMMA HolderStep ==
    ASSUME IInv, TypeOK', NEW r \in Readers, Ask(r) \/ Step(r) \/ Answer(r)
    PROVE  CopyHasAHolder'
<1> USE NoneAssumption DEF IInv, TypeOK, handle, request
<1>1. CASE Ask(r)
  BY <1>1 DEF Ask, Read, Size, CopyHasAHolder
<1>2. CASE NextRefuses(r) \/ NextForwards(r) \/ NextWaits(r)
  BY <1>2 DEF NextRefuses, NextForwards, NextWaits, CopyHasAHolder
<1>3. CASE NextProbes(r)
  BY <1>3 DEF NextProbes, CopyHasAHolder, closed
<1>4. CASE GateOpens(r) \/ WaitCancelled(r)
  BY <1>4 DEF GateOpens, WaitCancelled, Return, CopyHasAHolder
<1>5. CASE ProbeFails(r) \/ RangeReadFails(r)
  BY <1>5 DEF ProbeFails, RangeReadFails, Return, CopyHasAHolder
<1>6. CASE StageFails(r)
  BY <1>6 DEF StageFails, CopyHasAHolder
<1>7. CASE ProbeAnsweredWhole(r)
  BY <1>7 DEF ProbeAnsweredWhole, CopyHasAHolder
<1>8. CASE StageCompletes(r)
  BY <1>8 DEF StageCompletes, CopyHasAHolder
<1>9. ASSUME NEW total, NEW outcome, ProbeAnsweredRange(r, total, outcome)
      PROVE  CopyHasAHolder'
  BY <1>9 DEF ProbeAnsweredRange, CopyHasAHolder
<1>10. CASE AdoptRefused(r)
  BY <1>10 DEF AdoptRefused, CloseReader, CopyHasAHolder
<1>11. CASE Adopt(r)
  <2>1. \A s \in Readers : pc[s] \in {"fetch", "stage", "adopt"} => s = r
    BY <1>11 DEF Adopt, OneProbe, Probing
  <2> QED
    BY <1>11, <2>1 DEF Adopt, CopyHasAHolder, closed
<1>12. CASE Reread(r) \/ Settle(r)
  BY <1>12 DEF Reread, Settle, CopyHasAHolder
<1>13. CASE Broadcast(r)
  BY <1>13 DEF Broadcast, Return, CopyHasAHolder
<1>14. CASE ReadStaged(r) \/ RangeReadPastTheEnd(r) \/ RangeReadAsks(r)
  BY <1>14 DEF ReadStaged, RangeReadPastTheEnd, RangeReadAsks, Return, CopyHasAHolder
<1>15. ASSUME NEW total, NEW outcome, RangeReadAnswered(r, total, outcome)
       PROVE  CopyHasAHolder'
  BY <1>15 DEF RangeReadAnswered, Return, Learn, CopyHasAHolder
<1>16. CASE SizeLooks(r) \/ Measure(r)
  BY <1>16 DEF SizeLooks, Measure, CopyHasAHolder
<1> QED
  BY <1>1, <1>2, <1>3, <1>4, <1>5, <1>6, <1>7, <1>8, <1>9, <1>10, <1>11, <1>12,
     <1>13, <1>14, <1>15, <1>16 DEF Step, Answer, Fail
LEMMA CloseStep ==
    ASSUME IInv, TypeOK', Close \/ CloseReleases \/ Cancel
    PROVE  IInv'
<1> USE NoneAssumption DEF IInv, TypeOK, handle, request
<1>1. \A s \in Readers : Probing(s)' <=> Probing(s)
  BY DEF Close, CloseReleases, Cancel, Probing
<1>2. OneProbe' /\ NobodyWaitsForNobody'
  BY <1>1 DEF Close, CloseReleases, Cancel, OneProbe, NobodyWaitsForNobody
<1>3. CASE Close
  BY <1>2, <1>3 DEF Close, CopyHasAHolder
<1>4. CASE CloseReleases
  <2>1. \A s \in Readers : copy'[s] = IF s = releasing /\ copy[s] = "open"
                                         THEN "closed" ELSE copy[s]
    BY <1>4 DEF CloseReleases, CloseReader
  <2>2. CopyHasAHolder'
    BY <1>4, <2>1 DEF CloseReleases, CopyHasAHolder
  <2> QED
    BY <1>2, <2>2
<1>5. CASE Cancel
  BY <1>2, <1>5 DEF Cancel, CopyHasAHolder
<1> QED
  BY <1>3, <1>4, <1>5

(* The strengthened invariant is inductive, so it holds in every behaviour. *)
THEOREM Invariance == Spec => []IInv
<1>1. IInv /\ TypeOK' /\ [Next]_vars => IInv'
  <2> SUFFICES ASSUME IInv, TypeOK', [Next]_vars PROVE IInv'
    OBVIOUS
  <2>1. ASSUME NEW r \in Readers, Ask(r) \/ Step(r) \/ Answer(r) PROVE IInv'
    BY <2>1, GatesStep, HolderStep DEF IInv
  <2>2. CASE Close \/ CloseReleases \/ Cancel
    BY <2>2, CloseStep
  <2>3. CASE UNCHANGED vars
    BY <2>3 DEF vars, IInv, TypeOK, OneProbe, Probing, CopyHasAHolder, NobodyWaitsForNobody
  <2> QED
    BY <2>1, <2>2, <2>3 DEF Next
<1> QED
  BY Initially, TypeCorrect, <1>1, PTL DEF Spec

(* However many reads are pipelined onto a fresh handle, one goroutine is  *)
(* the probe, and nobody waits behind a probe that is gone.                *)
THEOREM ProbeIsUnique == Spec => [](OneProbe /\ NobodyWaitsForNobody)
<1>1. IInv => OneProbe /\ NobodyWaitsForNobody
  BY DEF IInv
<1> QED
  BY Invariance, <1>1, PTL

(* One handle never keeps two staging files.                               *)
THEOREM OneCopy == Spec => []AtMostOneCopy
<1>1. IInv => AtMostOneCopy
  <2> SUFFICES ASSUME IInv, NEW r \in Readers, NEW s \in Readers,
                      copy[r] = "open", copy[s] = "open"
               PROVE  r = s
    BY DEF AtMostOneCopy
  <2>1. CASE pc[r] \in {"stage", "adopt"}
    <3>1. pc[s] \in {"stage", "adopt"}
      BY <2>1, NoneAssumption DEF IInv, CopyHasAHolder
    <3> QED
      BY <2>1, <3>1 DEF IInv, OneProbe, Probing
  <2>2. CASE chosen = r \/ releasing = r
    BY <2>2, NoneAssumption DEF IInv, CopyHasAHolder
  <2> QED
    BY <2>1, <2>2 DEF IInv, CopyHasAHolder
<1> QED
  BY Invariance, <1>1, PTL

(* After Close only a probe still in flight can hold a staging file.       *)
THEOREM CopiesEndWithTheHandle == Spec => []NoCopyOutlivesTheHandle
<1>1. IInv => NoCopyOutlivesTheHandle
  BY NoneAssumption DEF IInv, CopyHasAHolder, NoCopyOutlivesTheHandle
<1> QED
  BY Invariance, <1>1, PTL

(* The reader a file's first read chose serves it until it is closed.      *)
THEOREM ChoiceIsFinal == Spec => ChosenIsFinal
<1> DEFINE Stays == chosen # None => chosen' = chosen \/ (closed' /\ chosen' = None)
<1>1. IInv /\ [Next]_vars => [Stays]_vars
  <2> SUFFICES ASSUME IInv, Next PROVE Stays
    OBVIOUS
  <2>1. ASSUME NEW r \in Readers, Ask(r) \/ Step(r) \/ Answer(r) PROVE Stays
    <3>1. CASE Adopt(r)
      BY <3>1 DEF Adopt, IInv, CopyHasAHolder
    <3>2. CASE Ask(r) \/ Answer(r)
      BY <3>2 DEF Ask, Read, Size, Answer, Fail, ProbeFails, StageFails,
         RangeReadFails, ProbeAnsweredWhole, StageCompletes,
         ProbeAnsweredRange, RangeReadAnswered, handle
    <3>3. CASE Step(r) /\ ~Adopt(r)
      BY <3>3 DEF Step, NextRefuses, NextForwards, NextWaits, NextProbes, GateOpens,
         WaitCancelled, AdoptRefused, Reread, Settle, Broadcast, ReadStaged,
         RangeReadPastTheEnd, RangeReadAsks, SizeLooks, Measure, handle
    <3> QED
      BY <2>1, <3>1, <3>2, <3>3
  <2>2. CASE Close \/ CloseReleases \/ Cancel
    BY <2>2 DEF Close, CloseReleases, Cancel, closed
  <2> QED
    BY <2>1, <2>2 DEF Next
<1> QED
  BY Invariance, <1>1, PTL DEF Spec, ChosenIsFinal

\* A goroutine that was handed a reader has the chosen one, while there is one.
LEMMA HandedTheChosen ==
    ASSUME IInv, NEW r \in Readers, chosen # None,
           pc[r] \in {"read", "rangeFetch", "measure"}
    PROVE  mine[r] = chosen
BY DEF IInv, CopyHasAHolder

\* The steps that neither ask the backend nor learn from it.
LEMMA NothingAsked ==
    ASSUME IInv, NEW r \in Readers, chosen # None,
           Ask(r) \/ Fail(r) \/ StageCompletes(r) \/ (Step(r) /\ ~RangeReadAsks(r))
    PROVE  Asking' \subseteq Asking /\ learnt' = learnt
<1> USE DEF IInv, TypeOK, Asking, Return
<1>1. CASE Ask(r) \/ Fail(r) \/ StageCompletes(r)
  BY <1>1 DEF Ask, Read, Size, Fail, ProbeFails, StageFails, RangeReadFails, StageCompletes
<1>2. CASE Step(r) /\ ~RangeReadAsks(r)
  <2>1. ~NextProbes(r)
    BY DEF NextProbes
  <2>2. CASE NextRefuses(r) \/ NextForwards(r) \/ NextWaits(r)
    BY <2>2 DEF NextRefuses, NextForwards, NextWaits
  <2>3. CASE GateOpens(r) \/ WaitCancelled(r) \/ Broadcast(r)
    BY <2>3 DEF GateOpens, WaitCancelled, Broadcast
  <2>4. CASE AdoptRefused(r) \/ Adopt(r) \/ Reread(r) \/ Settle(r)
    BY <2>4 DEF AdoptRefused, Adopt, Reread, Settle
  <2>5. CASE ReadStaged(r) \/ RangeReadPastTheEnd(r) \/ SizeLooks(r) \/ Measure(r)
    BY <2>5 DEF ReadStaged, RangeReadPastTheEnd, SizeLooks, Measure
  <2> QED
    BY <1>2, <2>1, <2>2, <2>3, <2>4, <2>5 DEF Step
<1> QED
  BY <1>1, <1>2

(* A file that a staged copy serves causes no further request.             *)
THEOREM StagedAsksNothing == Spec => NoRequestOnceStaged
<1>1. IInv /\ [Next]_vars => [chosen # None /\ Staged(chosen) => Asking' \subseteq Asking]_vars
  <2> SUFFICES ASSUME IInv, Next, chosen # None, Staged(chosen)
               PROVE  Asking' \subseteq Asking
    OBVIOUS
  <2>1. ASSUME NEW r \in Readers, Ask(r) \/ Step(r) \/ Answer(r)
        PROVE  Asking' \subseteq Asking
    <3>1. ~RangeReadAsks(r)
      BY HandedTheChosen DEF RangeReadAsks
    <3>2. CASE ProbeAnsweredWhole(r)
      BY <3>2 DEF ProbeAnsweredWhole, Asking, IInv, TypeOK
    <3>3. ASSUME NEW total, NEW ended, ProbeAnsweredRange(r, total, ended)
          PROVE  Asking' \subseteq Asking
      BY <3>3 DEF ProbeAnsweredRange, Asking, IInv, TypeOK
    <3>4. ASSUME NEW total, NEW ended, RangeReadAnswered(r, total, ended)
          PROVE  Asking' \subseteq Asking
      BY <3>4 DEF RangeReadAnswered, Return, Asking, IInv, TypeOK
    <3> QED
      BY <2>1, <3>1, <3>2, <3>3, <3>4, NothingAsked DEF Answer
  <2>2. CASE Close \/ CloseReleases \/ Cancel
    BY <2>2 DEF Close, CloseReleases, Cancel, Asking
  <2> QED
    BY <2>1, <2>2 DEF Next
<1> QED
  BY Invariance, <1>1, PTL DEF Spec, NoRequestOnceStaged

(* The first length a served file was stated to have is its length.        *)
THEOREM FirstLengthStays == Spec => LengthIsSettledOnce
<1> DEFINE Settled == \A s \in Readers :
                          (s = chosen /\ learnt[s] # Unknown) => learnt'[s] = learnt[s]
<1>1. IInv /\ [Next]_vars => [Settled]_vars
  <2> SUFFICES ASSUME IInv, Next, NEW s \in Readers, s = chosen, learnt[s] # Unknown
               PROVE  learnt'[s] = learnt[s]
    OBVIOUS
  <2>0. chosen # None
    BY NoneAssumption
  <2>1. ASSUME NEW r \in Readers, Ask(r) \/ Step(r) \/ Answer(r)
        PROVE  learnt'[s] = learnt[s]
    <3>1. CASE RangeReadAsks(r) \/ ProbeAnsweredWhole(r)
      BY <3>1 DEF RangeReadAsks, ProbeAnsweredWhole
    <3>2. ASSUME NEW total, NEW ended, ProbeAnsweredRange(r, total, ended)
          PROVE  learnt'[s] = learnt[s]
      BY <2>0, <3>2 DEF ProbeAnsweredRange, IInv, CopyHasAHolder
    <3>3. ASSUME NEW total, NEW ended, RangeReadAnswered(r, total, ended)
          PROVE  learnt'[s] = learnt[s]
      BY <3>3 DEF RangeReadAnswered, Learn, IInv, TypeOK
    <3> QED
      BY <2>0, <2>1, <3>1, <3>2, <3>3, NothingAsked DEF Answer
  <2>2. CASE Close \/ CloseReleases \/ Cancel
    BY <2>2 DEF Close, CloseReleases, Cancel
  <2> QED
    BY <2>1, <2>2 DEF Next
<1> QED
  BY Invariance, <1>1, PTL DEF Spec, LengthIsSettledOnce
=============================================================================
