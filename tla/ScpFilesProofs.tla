--------------------------- MODULE ScpFilesProofs ---------------------------
(***************************************************************************)
(* What is transferred, for any names, any trees and any bounds: where files *)
(* land, and what an exit status of success says of them.  Besides the turns *)
(* it takes what the ends know of each other's place in the tree:          *)
(*   SinkFiles      files are stored where ones that were offered land;    *)
(*   SinkDirs       the frames of the server are those of the directory the *)
(*                  client is in, refused or not;                          *)
(*   SinkSuccess    until something is refused, every file offered is stored *)
(*                  or is the one in flight;                               *)
(*   SourceDirs     the client is in the directory the source is sending, and *)
(*                  what is to be sent next continues there;               *)
(*   SourceSuccess  until something is refused, every file of the tree was *)
(*                  taken or is below something that is still to be sent.  *)
(***************************************************************************)
EXTENDS ScpProofs

-----------------------------------------------------------------------------
(* Frames, and the directory of the client they are those of.              *)
Frames == [path : Seq(Names), named : BOOLEAN]

(* Where a path of the client's tree lands, below a target or in its place. *)
LandsAt(named, path) == IF named THEN path ELSE Tail(path)

(* The frames are those of a directory of the client's tree.               *)
Follows(stack, dir) ==
    /\ Len(stack) = Len(dir) + 1
    /\ stack[1].path = Target
    /\ \A i \in 2..Len(stack) :
          stack[i].named /\ stack[i].path = LandsAt(stack[1].named, SubSeq(dir, 1, i - 1))

(* A path lands as the first frame says.                                   *)
LEMMA LandingLands == \A path : Landing(path) = LandsAt(frames[1].named, path)
BY DEF Landing, LandsAt

(* An entry is in the directory it is an entry of.                         *)
LEMMA ParentOfAnEntry ==
    /\ \A dir \in Seq(Names), name \in Names :
         Parent(Append(dir, name)) = dir /\ Append(dir, name) # Target
    /\ \A path \in Seq(Names) : path # Target =>
         /\ Parent(path) \in Seq(Names) /\ path[Len(path)] \in Names
         /\ Append(Parent(path), path[Len(path)]) = path
         /\ Len(path) > 0 /\ Len(Parent(path)) = Len(path) - 1
<1>1. ASSUME NEW dir \in Seq(Names), NEW name \in Names
      PROVE  SubSeq(Append(dir, name), 1, Len(Append(dir, name)) - 1) = dir
             /\ Append(dir, name) # <<>>
  OBVIOUS
<1>2. ASSUME NEW path \in Seq(Names), path # <<>>
      PROVE  /\ Parent(path) \in Seq(Names) /\ path[Len(path)] \in Names
             /\ Append(Parent(path), path[Len(path)]) = path
             /\ Len(path) > 0 /\ Len(Parent(path)) = Len(path) - 1
  <2>1. Len(path) > 0 /\ path[Len(path)] \in Names /\ Len(path) \in Nat
    BY <1>2
  <2>2. /\ Parent(path) \in Seq(Names) /\ Len(Parent(path)) = Len(path) - 1
        /\ \A i \in 1..Len(path) - 1 : Parent(path)[i] = path[i]
    BY <1>2, AllButTheLast DEF Parent
  <2> DEFINE whole == Append(Parent(path), path[Len(path)])
  <2>3. /\ whole \in Seq(Names) /\ Len(whole) = Len(path)
        /\ \A i \in 1..Len(path) : whole[i] = path[i]
    BY <2>1, <2>2
  <2>4. whole = path
    BY <2>3
  <2> QED
    BY <2>1, <2>2, <2>4
<1> QED
  BY <1>1, <1>2 DEF Parent, Target

(* What is below a target lands below it, and what takes its place has its *)
(* path.                                                                   *)
LEMMA LandsBelow ==
    ASSUME NEW dir \in Seq(Names), NEW name \in Names
    PROVE  /\ LandsAt(TRUE, Append(dir, name)) = Append(dir, name)
           /\ dir # <<>> => LandsAt(FALSE, Append(dir, name)) = Append(Tail(dir), name)
           /\ dir = <<>> => LandsAt(FALSE, Append(dir, name)) = <<>>
BY DEF LandsAt

(* All of a sequence is that sequence.                                     *)
LEMMA WholeSeq == \A S : \A s \in Seq(S) : SubSeq(s, 1, Len(s)) = s
OBVIOUS

(* An entry lands where it belongs, whatever became of what came before.   *)
LEMMA NextLands ==
    ASSUME NEW stack \in Seq(Frames), NEW dir \in Seq(Names), Follows(stack, dir),
           NEW name \in Names
    PROVE  ResolveName(stack[Len(stack)], name) = LandsAt(stack[1].named, Append(dir, name))
<1>1. Len(stack) = Len(dir) + 1 /\ Len(dir) \in Nat /\ stack[1].path = <<>>
  BY DEF Follows, Target
<1>2. stack[1].named \in BOOLEAN
  <2>1. stack[1] \in Frames
    BY <1>1
  <2> QED
    BY <2>1 DEF Frames
<1>3. CASE dir = <<>>
  <2>1. Len(stack) = 1
    BY <1>1, <1>3
  <2>2. LandsAt(TRUE, Append(dir, name)) = Append(dir, name)
        /\ LandsAt(FALSE, Append(dir, name)) = <<>>
    BY <1>3, LandsBelow
  <2>3. Append(stack[1].path, name) = Append(dir, name)
    BY <1>1, <1>3
  <2> QED
    BY <1>1, <1>2, <2>1, <2>2, <2>3 DEF ResolveName
<1>4. CASE dir # <<>>
  <2>1. Len(stack) \in 2..Len(stack) /\ Len(stack) - 1 = Len(dir)
    BY <1>1, <1>4
  <2>2. /\ stack[Len(stack)].named
        /\ stack[Len(stack)].path = LandsAt(stack[1].named, SubSeq(dir, 1, Len(stack) - 1))
    BY <2>1 DEF Follows
  <2>3. SubSeq(dir, 1, Len(stack) - 1) = dir
    BY <2>1, WholeSeq
  <2>4. ResolveName(stack[Len(stack)], name) = Append(LandsAt(stack[1].named, dir), name)
    BY <2>2, <2>3 DEF ResolveName
  <2>5. CASE stack[1].named
    <3>1. LandsAt(stack[1].named, dir) = dir
          /\ LandsAt(stack[1].named, Append(dir, name)) = Append(dir, name)
      BY <2>5 DEF LandsAt
    <3> QED
      BY <2>4, <3>1
  <2>6. CASE ~stack[1].named
    <3>1. LandsAt(stack[1].named, dir) = Tail(dir)
          /\ LandsAt(stack[1].named, Append(dir, name)) = Append(Tail(dir), name)
      <4>1. Tail(Append(dir, name)) = Append(Tail(dir), name)
        BY <1>4
      <4> QED
        BY <2>6, <4>1 DEF LandsAt
    <3> QED
      BY <2>4, <3>1
  <2> QED
    BY <2>5, <2>6
<1> QED
  BY <1>3, <1>4

(* The frames follow the client into a directory,                          *)
LEMMA Entered ==
    ASSUME NEW stack \in Seq(Frames), NEW dir \in Seq(Names), Follows(stack, dir),
           NEW name \in Names
    PROVE  Follows(Append(stack, [path |-> ResolveName(stack[Len(stack)], name), named |-> TRUE]),
                   Append(dir, name))
<1> DEFINE frame == [path |-> ResolveName(stack[Len(stack)], name), named |-> TRUE]
           stack2 == Append(stack, frame)
           dir2 == Append(dir, name)
<1>1. frame.path = LandsAt(stack[1].named, dir2) /\ frame.named
  BY NextLands
<1>2. Len(stack) = Len(dir) + 1 /\ Len(dir) \in Nat /\ stack[1].path = <<>>
  BY DEF Follows, Target
<1>3. /\ dir2 \in Seq(Names) /\ Len(dir2) = Len(dir) + 1
      /\ SubSeq(dir2, 1, Len(dir2)) = dir2
      /\ \A n \in 0..Len(dir) : SubSeq(dir2, 1, n) = SubSeq(dir, 1, n)
  OBVIOUS
<1> HIDE DEF frame, dir2
<1>4. /\ Len(stack2) = Len(stack) + 1
      /\ \A i \in 1..Len(stack) : stack2[i] = stack[i]
      /\ stack2[Len(stack) + 1] = frame
  <2>1. \A S : \A s \in Seq(S) : \A x : /\ Len(Append(s, x)) = Len(s) + 1
                                         /\ \A i \in 1..Len(s) : Append(s, x)[i] = s[i]
                                         /\ Append(s, x)[Len(s) + 1] = x
    OBVIOUS
  <2> QED
    BY <2>1
<1> HIDE DEF stack2
<1>5. Len(stack2) = Len(dir2) + 1 /\ stack2[1] = stack[1]
  BY <1>2, <1>3, <1>4
<1>6. ASSUME NEW i \in 2..Len(stack2)
      PROVE  stack2[i].named /\ stack2[i].path = LandsAt(stack2[1].named, SubSeq(dir2, 1, i - 1))
  <2>1. CASE i \in 2..Len(stack)
    <3>1. stack2[i] = stack[i] /\ i - 1 \in 0..Len(dir)
      BY <1>2, <1>4, <2>1
    <3>2. stack[i].named /\ stack[i].path = LandsAt(stack[1].named, SubSeq(dir, 1, i - 1))
      BY <2>1 DEF Follows
    <3>3. SubSeq(dir2, 1, i - 1) = SubSeq(dir, 1, i - 1)
      BY <1>3, <3>1
    <3> QED
      BY <1>5, <3>1, <3>2, <3>3
  <2>2. CASE i = Len(stack) + 1
    <3>1. i - 1 = Len(dir2)
      BY <1>2, <1>3, <2>2
    <3> QED
      BY <1>1, <1>3, <1>4, <1>5, <2>2, <3>1
  <2> QED
    BY <1>2, <1>4, <2>1, <2>2
<1>7. Follows(stack2, dir2)
  BY <1>2, <1>5, <1>6 DEF Follows, Target
<1> QED
  BY <1>7 DEF stack2, frame, dir2

(* and out of it again.                                                    *)
LEMMA Left ==
    ASSUME NEW stack \in Seq(Frames), NEW dir \in Seq(Names), NEW name \in Names,
           Follows(stack, Append(dir, name))
    PROVE  Follows(SubSeq(stack, 1, Len(stack) - 1), dir)
<1> DEFINE stack2 == SubSeq(stack, 1, Len(stack) - 1)
           dir2 == Append(dir, name)
<1>1. /\ dir2 \in Seq(Names) /\ Len(dir2) = Len(dir) + 1 /\ Len(dir) \in Nat
      /\ \A n \in 0..Len(dir) : SubSeq(dir2, 1, n) = SubSeq(dir, 1, n)
  OBVIOUS
<1>2. Follows(stack, dir2)
  OBVIOUS
<1> HIDE DEF dir2
<1>3. Len(stack) = Len(dir2) + 1 /\ stack[1].path = Target
  BY <1>2 DEF Follows
<1>4. Len(stack) - 1 \in 0..Len(stack)
  BY <1>1, <1>3
<1>5. Len(stack2) = Len(stack) - 1 /\ \A i \in 1..Len(stack) - 1 : stack2[i] = stack[i]
  BY <1>4, FirstOfASeq
<1> HIDE DEF stack2
<1>6. Len(stack2) = Len(dir) + 1 /\ stack2[1] = stack[1]
  BY <1>1, <1>3, <1>5
<1>7. ASSUME NEW i \in 2..Len(stack2)
      PROVE  stack2[i].named /\ stack2[i].path = LandsAt(stack2[1].named, SubSeq(dir, 1, i - 1))
  <2>1. stack2[i] = stack[i] /\ i - 1 \in 0..Len(dir) /\ i \in 2..Len(stack)
    BY <1>1, <1>3, <1>5, <1>6
  <2>2. stack[i].named /\ stack[i].path = LandsAt(stack[1].named, SubSeq(dir2, 1, i - 1))
    BY <1>2, <2>1 DEF Follows
  <2> QED
    BY <1>1, <1>6, <2>1, <2>2
<1>8. Follows(stack2, dir)
  BY <1>3, <1>6, <1>7 DEF Follows
<1> QED
  BY <1>8 DEF stack2

-----------------------------------------------------------------------------
(* An upload: the steps of the server that concern files,                  *)
Landings == {Landing(path) : path \in offered}

SinkFiles ==
    command.sink =>
    /\ pc = "start" => frames = <<>>
    /\ frames = <<>> => offered = {} /\ stored = {} /\ told = {}
    /\ stored \subseteq Landings
    /\ \A path \in told : Landing(path) \in stored
    /\ pc = "contents" => file.path \in Landings
    /\ pc = "line" /\ up # <<>> =>
          (Head(up).kind = "C" => ResolveName(Frame, Head(up).name) \in Landings)

InFlight == cpc \in {"file", "sent"} /\ (pc = "contents" \/ up # <<>>)

SinkDirs ==
    command.sink /\ ~gone =>
    /\ cpc = "greeting" => cdir = Target
    /\ pc \in {"line", "contents"} =>
         /\ cpc \notin {"said", "directory"} => Follows(frames, cdir)
         /\ cpc = "times" /\ up # <<>> => Head(up).kind = "T"
         /\ cpc = "said" =>
              IF up # <<>> /\ Head(up).kind = "E"
              THEN \/ Follows(frames, cdir) /\ cdir = Target
                   \/ \E name \in Names : Follows(frames, Append(cdir, name))
              ELSE Follows(frames, cdir)
         /\ cpc = "directory" =>
              IF up = <<>> THEN Follows(frames, cfile.path)
              ELSE Follows(frames, cdir) /\ cfile.path = Append(cdir, Head(up).name)
         /\ cpc \in {"file", "sent"} => cfile.path \in offered
         /\ cpc \in {"file", "sent"} /\ pc = "contents" => file.path = Landing(cfile.path)
         /\ cpc = "file" /\ up # <<>> => cfile.path = Append(cdir, Head(up).name)
         /\ cpc = "sent" /\ down # <<>> =>
              (Head(down).kind = "ok" => Landing(cfile.path) \in stored)

SinkSuccess ==
    command.sink =>
    /\ status = "success" => ~refused
    /\ ~gone /\ ~refused /\ status # "failure" =>
         \A path \in offered : Landing(path) \in stored \/ (InFlight /\ path = cfile.path)

SinkPlaces == SinkFiles /\ SinkDirs /\ SinkSuccess

Inv == TypeInv /\ TurnInv

(* The target stays what it was found to be.                               *)
LEMMA TargetStays ==
    ASSUME TypeInv, command.sink, pc \in {"line", "contents"},
           \/ frames' = frames
           \/ \E name : Enter(name)
           \/ Len(frames) > 1 /\ frames' = SubSeq(frames, 1, Len(frames) - 1)
    PROVE  /\ frames \in Seq(Frames) /\ frames # <<>> /\ frames' # <<>>
           /\ \A path : Landing(path)' = Landing(path)
<1>1. frames \in Seq(Frames) /\ frames # <<>>
  BY DEF TypeInv, Typed, SinkTyped, InHand, Frames
<1>2. CASE frames' = frames
  BY <1>1, <1>2 DEF Landing
<1>3. CASE \E name : Enter(name)
  <2>1. PICK frame : frames' = Append(frames, frame)
    BY <1>3 DEF Enter
  <2>2. \A S : \A s \in Seq(S) : \A x : s # <<>> => Append(s, x) # <<>> /\ Append(s, x)[1] = s[1]
    OBVIOUS
  <2>3. frames' # <<>> /\ frames'[1] = frames[1]
    BY <1>1, <2>1, <2>2
  <2> QED
    BY <1>1, <2>3 DEF Landing
<1>4. CASE Len(frames) > 1 /\ frames' = SubSeq(frames, 1, Len(frames) - 1)
  <2>1. Len(frames) \in Nat
    BY <1>1
  <2>2. Len(frames') > 0 /\ frames'[1] = frames[1]
    BY <1>1, <1>4, <2>1, AllButTheLast
  <2>3. frames' # <<>>
    BY <2>2
  <2> QED
    BY <1>1, <2>2, <2>3 DEF Landing
<1> QED
  BY <1>2, <1>3, <1>4

(* What a step of the sink does to the target's files, and to the stream.  *)
LEMMA SinkStepLands ==
    ASSUME Inv, SinkStep
    PROVE  /\ command.sink /\ UNCHANGED <<command, gone, client, offered, told>>
           /\ \/ /\ pc = "start" /\ pc' = "line" /\ up' = <<>> /\ stored' = stored
                 /\ \E named \in BOOLEAN : frames' = <<[path |-> Target, named |-> named]>>
              \/ /\ pc' = "over" /\ UNCHANGED <<frames, stored>>
              \/ /\ pc \in {"line", "contents"} /\ pc' \in {"line", "contents"}
                 /\ \A path : Landing(path)' = Landing(path)
                 /\ frames # <<>> /\ frames' # <<>>
<1> USE DEF Receiving, client
<1>1. ASSUME NEW isDirectory \in BOOLEAN, ReceiveStarts(isDirectory)
      PROVE  /\ command.sink /\ UNCHANGED <<command, gone, client, offered, told>>
             /\ pc = "start" /\ pc' = "line" /\ up' = <<>> /\ stored' = stored
             /\ frames' = <<[path |-> Target, named |-> isDirectory]>>
  BY <1>1 DEF ReceiveStarts, Goto, Inv, TurnInv, SinkInv, SinkUp
<1>2. CASE ReceiveRefuses \/ ReceiveEnds \/ ReceiveNonsense \/ ReceiveBreaks
  BY <1>2 DEF ReceiveRefuses, ReceiveEnds, ReceiveNonsense, ReceiveBreaks, End, sink, stream
<1>3. CASE ReceiveTimes \/ FileRefused \/ FileAccepted \/ ReceivePiece \/ FileDone
  <2>1. /\ command.sink /\ pc \in {"line", "contents"} /\ pc' \in {"line", "contents"}
        /\ UNCHANGED <<command, gone, client, offered, told, frames>>
    BY <1>3 DEF ReceiveTimes, FileRefused, FileAccepted, ReceivePiece, FileDone, Goto, sink
  <2> QED
    BY <2>1, TargetStays DEF Inv
<1>4. CASE DirectoryRefused \/ DirectoryAccepted \/ DirectoryLeft
  <2>1. /\ command.sink /\ pc = "line" /\ pc' = pc
        /\ UNCHANGED <<command, gone, client, offered, told>>
        /\ \/ \E name : Enter(name)
           \/ Len(frames) > 1 /\ frames' = SubSeq(frames, 1, Len(frames) - 1)
    BY <1>4 DEF DirectoryRefused, DirectoryAccepted, DirectoryLeft
  <2> QED
    BY <2>1, TargetStays DEF Inv
<1> QED
  BY <1>1, <1>2, <1>3, <1>4 DEF SinkStep

(* No step of the sink stores a file where the client has offered none,    *)
(* nor forgets one it told the client of.                                  *)
LEMMA SinkFilesSinkStep ==
    ASSUME Inv, SinkFiles, SinkStep
    PROVE  SinkFiles'
<1> USE DEF SinkFiles, Landings
<1>0. command.sink /\ UNCHANGED <<command, offered, told>>
  BY SinkStepLands
<1>1. CASE pc = "start" /\ pc' = "line" /\ up' = <<>> /\ stored' = stored
  BY <1>0, <1>1
<1>2. CASE pc' = "over" /\ UNCHANGED <<frames, stored>>
  BY <1>0, <1>2 DEF Landing
<1>3. CASE /\ pc \in {"line", "contents"} /\ pc' \in {"line", "contents"}
           /\ \A path : Landing(path)' = Landing(path)
           /\ frames # <<>> /\ frames' # <<>>
  <2>1. Landings' = Landings
    BY <1>0, <1>3
  <2>2. stored' \subseteq Landings /\ stored \subseteq stored'
    <3>1. \/ stored' = stored
          \/ pc = "contents" /\ stored' = stored \cup {file.path}
      BY <1>0, <1>3 DEF SinkStep, Receiving, sink, ReceiveStarts, ReceiveRefuses,
          ReceiveEnds, ReceiveNonsense,
            ReceiveTimes, FileRefused, FileAccepted, ReceivePiece, ReceiveBreaks, FileDone,
            DirectoryRefused, DirectoryAccepted, DirectoryLeft
    <3> QED
      BY <1>0, <3>1
  <2>3. pc' = "contents" => file'.path \in Landings
    <3>1. CASE FileAccepted
      <4>1. /\ file'.path = ResolveName(Frame, Head(up).name)
            /\ pc = "line" /\ up # <<>> /\ Head(up).kind = "C"
        BY <3>1 DEF FileAccepted, Receiving, Heard
      <4> QED
        BY <1>0, <4>1
    <3>2. CASE ReceivePiece
      <4>1. pc = "contents" /\ file'.path = file.path
        BY <3>2 DEF ReceivePiece, Inv, TypeInv, Typed, ServerTyped, OpenFiles
      <4> QED
        BY <1>0, <4>1
    <3>3. CASE ~FileAccepted /\ ~ReceivePiece
      BY <1>3, <3>3 DEF SinkStep, Receiving, server, ReceiveStarts, ReceiveRefuses,
          ReceiveEnds, ReceiveNonsense,
            ReceiveTimes, FileRefused, ReceiveBreaks, FileDone, End, Goto,
            DirectoryRefused, DirectoryAccepted, DirectoryLeft
    <3> QED
      BY <3>1, <3>2, <3>3
  <2>4. pc' = "line" => up' = <<>>
    <3>1. CASE pc = "line"
      <4>1. pc' = "line" => \E kind : Heard(kind)
        BY <1>3, <3>1 DEF SinkStep, Receiving, ReceiveStarts, ReceiveRefuses,
            ReceiveEnds, ReceiveNonsense,
            ReceiveTimes, FileRefused, FileAccepted, ReceivePiece, ReceiveBreaks,
            FileDone, End, Goto,
            DirectoryRefused, DirectoryAccepted, DirectoryLeft
      <4> QED
        BY <1>0, <3>1, <4>1, ServerIsTold DEF Inv, TurnInv
    <3>2. CASE pc = "contents"
      <4>1. pc' = "line" => file.left = 0 /\ Heard("ok")
        BY <1>3, <3>2 DEF SinkStep, Receiving, ReceiveStarts, ReceiveRefuses,
            ReceiveEnds, ReceiveNonsense,
            ReceiveTimes, FileRefused, FileAccepted, ReceivePiece, ReceiveBreaks,
            FileDone, End, Goto,
            DirectoryRefused, DirectoryAccepted, DirectoryLeft
      <4> QED
        BY <1>0, <3>2, <4>1, ServerIsSent DEF Inv, TurnInv
    <3> QED
      BY <1>3, <3>1, <3>2
  <2>5. \A path \in told' : Landing(path)' \in stored'
    BY <1>0, <1>3, <2>2
  <2> QED
    BY <1>0, <1>3, <2>1, <2>2, <2>3, <2>4, <2>5
<1> QED
  BY <1>1, <1>2, <1>3, SinkStepLands

-----------------------------------------------------------------------------
(* directories and success,                                                *)
(* What the client has said of where it is, once it is heard.              *)
LEMMA EntryLands ==
    ASSUME Inv, command.sink, pc \in {"line", "contents"}, NEW dir \in Seq(Names),
           Follows(frames, dir), NEW name \in Names
    PROVE  /\ ResolveName(Frame, name) = Landing(Append(dir, name))
           /\ Enter(name) => Follows(frames', Append(dir, name))
<1>1. frames \in Seq(Frames)
  BY DEF Inv, TypeInv, Typed, SinkTyped, Frames
<1> QED
  BY <1>1, NextLands, Entered, LandingLands DEF Frame, Enter

(* A header that is heard has a name.                                      *)
LEMMA NameHeard ==
    ASSUME Inv, NEW kind \in {"C", "D"}, Heard(kind)
    PROVE  Head(up).name \in Names /\ Head(up).kind = kind /\ up # <<>>
BY Hearing, WordsThereAre DEF Inv, TypeInv, Typed, StreamTyped

(* The sink follows the client from directory to directory, also those it  *)
(* has refused.                                                            *)
LEMMA SinkDirsSinkStep ==
    ASSUME Inv, SinkFiles, SinkDirs, SinkStep
    PROVE  SinkDirs'
<1> SUFFICES ASSUME ~gone' PROVE SinkDirs'
  BY DEF SinkDirs
<1>0. /\ command.sink /\ ~gone
      /\ UNCHANGED <<command, gone, cpc, cdir, cfile, offered>>
      /\ cpc = "greeting" => cdir = Target
      /\ cdir \in Seq(Names) /\ cfile.path \in Seq(Names)
  <2>1. command.sink /\ ~gone /\ UNCHANGED <<command, gone, cpc, cdir, cfile, offered>>
    BY SinkStepLands DEF client
  <2> QED
    BY <2>1, FilesThereAre DEF SinkDirs, Inv, TypeInv, Typed, ClientTyped
<1> USE DEF Receiving
<1>a. Inv => TypeInv /\ SinkInv
  BY DEF Inv, TurnInv
<1>1. ASSUME NEW isDirectory \in BOOLEAN, ReceiveStarts(isDirectory)
      PROVE  SinkDirs'
  <2>1. cpc = "greeting" /\ pc' = "line" /\ frames' = <<[path |-> <<>>, named |-> isDirectory]>>
    BY <1>0, <1>1 DEF ReceiveStarts, Goto, Inv, TurnInv, SinkInv, SinkUp, SinkTurns,
        Said, Answered, Nobody,
                TypeInv, Typed, ServerTyped, Target
  <2>2. Len(frames') = 1 /\ frames'[1].path = <<>>
    BY <2>1
  <2>3. Follows(frames', <<>>)
    BY <2>2 DEF Follows, Target
  <2>4. Follows(frames, cdir)'
    BY <1>0, <2>1, <2>3 DEF Target
  <2> QED
    BY <1>0, <2>1, <2>4 DEF SinkDirs
<1>2. CASE ReceiveRefuses \/ ReceiveEnds \/ ReceiveNonsense \/ ReceiveBreaks
  <2>1. pc' = "over"
    BY <1>2 DEF ReceiveRefuses, ReceiveEnds, ReceiveNonsense, ReceiveBreaks, End
  <2> QED
    BY <1>0, <2>1 DEF SinkDirs
<1>3. CASE ReceiveTimes
  <2>1. /\ up' = <<>> /\ cpc \in {"times", "said"} /\ pc = "line" /\ pc' = pc
        /\ Head(up).kind = "T" /\ frames' = frames
    BY <1>0, <1>3, <1>a, ServerIsTold DEF ReceiveTimes, Heard, sink
  <2>2. Follows(frames', cdir')
    BY <1>0, <2>1 DEF SinkDirs
  <2> QED
    BY <1>0, <2>1, <2>2 DEF SinkDirs
<1>4. CASE FileRefused
  <2>1. /\ up' = <<>> /\ cpc = "file" /\ pc = "line" /\ pc' = pc
        /\ frames' = frames
    BY <1>0, <1>4, <1>a, ServerIsTold DEF FileRefused, sink
  <2> QED
    BY <1>0, <2>1 DEF SinkDirs
<1>5. CASE FileAccepted
  <2>1. /\ up' = <<>> /\ cpc = "file" /\ pc = "line" /\ pc' = "contents"
        /\ frames' = frames /\ Heard("C") /\ file'.path = ResolveName(Frame, Head(up).name)
    BY <1>0, <1>5, <1>a, ServerIsTold DEF FileAccepted, Goto, sink
  <2>2. Head(up).name \in Names /\ up # <<>>
    BY <2>1, NameHeard
  <2>3. Follows(frames, cdir) /\ cfile.path = Append(cdir, Head(up).name) /\ cfile.path \in offered
    BY <1>0, <2>1, <2>2 DEF SinkDirs
  <2>4. file'.path = Landing(cfile.path)
    BY <1>0, <2>1, <2>2, <2>3, EntryLands
  <2>5. Landing(cfile.path)' = Landing(cfile.path)
    BY <1>0, <2>1 DEF Landing
  <2>6. Follows(frames, cdir)'
    BY <1>0, <2>1, <2>3
  <2> QED
    BY <1>0, <2>1, <2>3, <2>4, <2>5, <2>6 DEF SinkDirs
<1>6. CASE ReceivePiece
  <2>1. /\ cpc = "sent" /\ pc = "contents" /\ pc' = pc /\ frames' = frames /\ down' = down
        /\ file'.path = file.path /\ stored' = stored
    BY <1>0, <1>6, <1>a, ServerIsSent DEF ReceivePiece, sink, TypeInv, Typed,
        ServerTyped, OpenFiles
  <2>2. Landing(cfile.path)' = Landing(cfile.path)
    BY <1>0, <2>1 DEF Landing
  <2>3. Follows(frames, cdir)'
    BY <1>0, <2>1 DEF SinkDirs
  <2> QED
    BY <1>0, <2>1, <2>2, <2>3 DEF SinkDirs
<1>7. CASE FileDone
  <2>1. /\ up' = <<>> /\ cpc = "sent" /\ pc = "contents" /\ pc' = "line" /\ down = <<>>
        /\ frames' = frames
        /\ \/ stored' = stored \cup {file.path}
           \/ Say(Word("warn"))
    BY <1>0, <1>7, <1>a, ServerIsSent DEF FileDone, Goto, Fail
  <2>2. Landing(cfile.path)' = Landing(cfile.path) /\ file.path = Landing(cfile.path)
    BY <1>0, <2>1 DEF Landing, SinkDirs
  <2>3. Head(down').kind = "ok" => Landing(cfile.path)' \in stored'
    <3>1. ASSUME Say(Word("warn")) PROVE Head(down').kind # "ok"
      <4>1. Word("warn") \in Words /\ Word("warn").kind = "warn"
        BY WordsThereAre
      <4>2. down' = <<Word("warn")>>
        BY <2>1, <3>1, <4>1, OneSaid
      <4>3. Head(down') = Word("warn")
        BY <4>2, Singleton
      <4> QED
        BY <4>1, <4>3
    <3> QED
      BY <2>1, <2>2, <3>1
  <2>4. Follows(frames, cdir)' /\ cfile.path \in offered
    BY <1>0, <2>1 DEF SinkDirs
  <2> QED
    BY <1>0, <2>1, <2>3, <2>4 DEF SinkDirs
<1>8. CASE DirectoryRefused \/ DirectoryAccepted
  <2>1. /\ up' = <<>> /\ cpc = "directory" /\ pc = "line" /\ pc' = pc
        /\ Heard("D") /\ Enter(Head(up).name)
    BY <1>0, <1>8, <1>a, ServerIsTold DEF DirectoryRefused, DirectoryAccepted
  <2>2. Head(up).name \in Names /\ up # <<>>
    BY <2>1, NameHeard
  <2>3. Follows(frames, cdir) /\ cfile.path = Append(cdir, Head(up).name)
    BY <1>0, <2>1, <2>2 DEF SinkDirs
  <2>4. Follows(frames', cfile'.path)
    BY <1>0, <2>1, <2>2, <2>3, EntryLands
  <2> QED
    BY <1>0, <2>1, <2>4 DEF SinkDirs
<1>9. CASE DirectoryLeft
  <2>1. /\ up' = <<>> /\ cpc \in {"times", "said"} /\ pc = "line" /\ pc' = pc
        /\ up # <<>> /\ Head(up).kind = "E"
        /\ Len(frames) > 1 /\ frames' = SubSeq(frames, 1, Len(frames) - 1)
    BY <1>0, <1>9, <1>a, ServerIsTold DEF DirectoryLeft, Heard
  <2>2. cpc = "said"
    BY <1>0, <2>1 DEF SinkDirs
  <2>3. \/ Follows(frames, cdir) /\ cdir = Target
        \/ \E name \in Names : Follows(frames, Append(cdir, name))
    BY <1>0, <2>1, <2>2 DEF SinkDirs
  <2>4. frames \in Seq(Frames)
    BY DEF Inv, TypeInv, Typed, SinkTyped, Frames
  <2>5. ~(Follows(frames, cdir) /\ cdir = Target)
    BY <2>1 DEF Follows, Target
  <2>6. Follows(frames', cdir)
    BY <1>0, <2>1, <2>3, <2>4, <2>5, Left
  <2>7. Follows(frames', cdir')
    BY <1>0, <2>6
  <2> QED
    BY <1>0, <2>1, <2>2, <2>7 DEF SinkDirs
<1> QED
  BY <1>1, <1>2, <1>3, <1>4, <1>5, <1>6, <1>7, <1>8, <1>9 DEF SinkStep

(* Until something is refused, the sink has every file it was offered but  *)
(* for the one in flight.                                                  *)
LEMMA SinkSuccessSinkStep ==
    ASSUME Inv, SinkFiles, SinkDirs, SinkSuccess, SinkStep
    PROVE  SinkSuccess'
<1> USE DEF Receiving
<1>0. /\ command.sink /\ UNCHANGED <<command, gone, cpc, cdir, cfile, offered>>
      /\ status = "none"
  <2>1. command.sink /\ UNCHANGED <<command, gone, cpc, cdir, cfile, offered>>
    BY SinkStepLands DEF client
  <2>2. pc # "over"
    BY DEF SinkStep, ReceiveStarts, ReceiveRefuses, ReceiveEnds, ReceiveNonsense,
           ReceiveTimes, FileRefused, FileAccepted, ReceivePiece, ReceiveBreaks, FileDone,
           DirectoryRefused, DirectoryAccepted, DirectoryLeft
  <2> QED
    BY <2>1, <2>2 DEF Inv, TurnInv, SinkInv, SinkUp
<1>a. TypeInv /\ SinkInv
  BY DEF Inv, TurnInv
<1>1. status' = "success" => ~refused'
  BY <1>0 DEF SinkStep, server, ReceiveStarts, ReceiveRefuses, ReceiveEnds, ReceiveNonsense,
              ReceiveTimes, FileRefused, FileAccepted, ReceivePiece, ReceiveBreaks,
              FileDone,
              DirectoryRefused, DirectoryAccepted, DirectoryLeft, End, Goto
<1> SUFFICES ASSUME ~gone', ~refused', status' # "failure"
             PROVE  \A path \in offered : Landing(path)' \in stored' \/ (InFlight' /\ path = cfile.path)
  BY <1>0, <1>1 DEF SinkSuccess
<1>2. /\ ~gone
      /\ ~refused => \A path \in offered : Landing(path) \in stored \/ (InFlight /\ path = cfile.path)
  BY <1>0 DEF SinkSuccess
<1>b. refused \in BOOLEAN /\ file \in OpenFiles
  BY DEF Inv, TypeInv, Typed, ServerTyped
<1> DEFINE Safe == \A path \in offered : Landing(path)' \in stored' \/ (InFlight' /\ path = cfile.path)
<1>3. ASSUME NEW isDirectory \in BOOLEAN, ReceiveStarts(isDirectory)
      PROVE  Safe
  <2>1. offered = {}
    BY <1>0, <1>3 DEF ReceiveStarts, SinkFiles
  <2> QED
    BY <2>1
<1>4. CASE ReceiveRefuses \/ ReceiveNonsense \/ ReceiveBreaks
  BY <1>4 DEF ReceiveRefuses, ReceiveNonsense, ReceiveBreaks, End
<1>5. CASE FileRefused \/ DirectoryRefused
  BY <1>5 DEF FileRefused, DirectoryRefused, Fail
<1>6. CASE ReceiveEnds
  <2>1. ~refused /\ stored' = stored /\ frames' = frames /\ up = <<>> /\ pc = "line"
    BY <1>6 DEF ReceiveEnds, HeardNothing, sink
  <2>2. ~InFlight
    BY <2>1 DEF InFlight
  <2> QED
    BY <1>0, <1>2, <2>1, <2>2 DEF Landing
<1>7. CASE ReceiveTimes \/ DirectoryAccepted \/ DirectoryLeft
  <2>1. /\ ~refused /\ stored' = stored /\ pc = "line" /\ pc' = pc
        /\ \E kind \in {"T", "D", "E"} : Heard(kind)
    BY <1>7, <1>b DEF ReceiveTimes, DirectoryAccepted, DirectoryLeft, Ack, sink
  <2>2. cpc \in {"times", "said", "directory"}
    BY <1>0, <1>2, <1>a, <2>1, ServerIsTold
  <2>3. \A path : Landing(path)' = Landing(path)
    BY <1>0, <2>1, SinkStepLands
  <2> QED
    BY <1>0, <1>2, <2>1, <2>2, <2>3 DEF InFlight
<1>8. CASE FileAccepted
  <2>1. /\ ~refused /\ stored' = stored /\ pc = "line" /\ pc' = "contents" /\ frames' = frames
        /\ Heard("C")
    BY <1>8, <1>b DEF FileAccepted, Ack, Goto, sink
  <2>2. cpc = "file"
    BY <1>0, <1>2, <1>a, <2>1, ServerIsTold
  <2> QED
    BY <1>0, <1>2, <2>1, <2>2 DEF InFlight, Landing
<1>9. CASE ReceivePiece
  <2>1. /\ ~refused /\ stored' = stored /\ pc = "contents" /\ pc' = pc /\ frames' = frames
        /\ Heard("data")
    BY <1>9, <1>b DEF ReceivePiece, sink
  <2>2. cpc = "sent"
    BY <1>0, <1>2, <1>a, <2>1, ServerIsSent
  <2> QED
    BY <1>0, <1>2, <2>1, <2>2 DEF InFlight, Landing
<1>10. CASE FileDone
  <2>1. /\ ~refused /\ stored' = stored \cup {file.path} /\ pc = "contents" /\ pc' = "line"
        /\ frames' = frames /\ Heard("ok")
    BY <1>10, <1>b DEF FileDone, Ack, Fail, Goto
  <2>2. cpc = "sent"
    BY <1>0, <1>2, <1>a, <2>1, ServerIsSent
  <2>3. file.path = Landing(cfile.path)
    BY <1>0, <1>2, <2>1, <2>2 DEF SinkDirs
  <2> QED
    BY <1>0, <1>2, <2>1, <2>3 DEF Landing
<1> QED
  BY <1>3, <1>4, <1>5, <1>6, <1>7, <1>8, <1>9, <1>10 DEF SinkStep

-----------------------------------------------------------------------------
(* and those of the client.                                                *)
(* What the client may be at when it speaks, and what it then says.        *)
LEMMA SaidNext ==
    ASSUME Inv, command.sink, cpc \in {"free", "timed"}, NEW word \in Words, Announces(word)
    PROVE  /\ ~gone /\ ~InFlight /\ pc = "line" /\ frames # <<>> /\ status = "none"
           /\ up' # <<>> /\ Head(up') = word /\ down' = <<>>
           /\ UNCHANGED <<command, gone, pc, status, refused, file, frames, stored, told>>
<1>1. ~gone /\ ~eof /\ pc = "line" /\ up = <<>> /\ down = <<>> /\ status = "none"
  BY ClientIsFree DEF Inv, TurnInv
<1>2. frames # <<>>
  BY <1>1 DEF Inv, TypeInv, InHand
<1>3. up' = <<word>>
  BY <1>1, OneSaid DEF Announces
<1> QED
  BY <1>1, <1>2, <1>3, Singleton DEF Announces, server, InFlight

(* A client that enters the directories it has announced, refused or not,  *)
(* leaves the sink where it is.                                            *)
LEMMA SinkPlacesSinkClient ==
    ASSUME ~SkipsRefused, Inv, SinkPlaces, SinkClient
    PROVE  SinkPlaces'
<1> USE DEF SinkPlaces
<1>a. TypeInv /\ SinkInv /\ cfile \in OpenFiles /\ cdir \in Seq(Names)
  BY DEF Inv, TurnInv, TypeInv, Typed, ClientTyped
\* It has heard something, and is free.
<1>1. ASSUME NEW state, NEW kind, Uploads(state, kind), UNCHANGED <<up, cdir, cfile>>,
             state \in {"greeting", "times", "said", "sent"} \/ (state = "file" /\ kind = "warn"),
             cpc' \in {"free", "timed"},
             \/ told' = told
             \/ state = "sent" /\ kind = "ok" /\ told' = told \cup {cfile.path}
      PROVE  SinkPlaces'
  <2>1. /\ command.sink /\ cpc = state /\ CHeard(kind)
        /\ UNCHANGED <<command, eof, gone, pc, status, refused, file, frames, stored, offered>>
    BY <1>1 DEF Uploads, server
  <2>2. /\ ~gone /\ up = <<>> /\ down = <<Word(kind)>> /\ down' = <<>> /\ status = "none"
        /\ pc = "line" /\ down # <<>> /\ Head(down).kind = kind
    BY <1>1, <1>a, <2>1, ClientIsTold DEF CHeard
  <2>3. Follows(frames, cdir)
    BY <1>1, <2>1, <2>2 DEF SinkDirs
  <2>4. told' # told => Landing(cfile.path) \in stored
    BY <1>1, <2>1, <2>2 DEF SinkDirs
  <2>5. \A path : Landing(path)' = Landing(path)
    BY <2>1 DEF Landing
  <2>6. SinkFiles'
    <3>1. \A path \in told' : Landing(path) \in stored
      BY <1>1, <2>1, <2>4 DEF SinkFiles
    <3>2. frames # <<>>
      BY <2>1, <2>2 DEF Inv, TypeInv, InHand
    <3>3. Landings' = Landings
      BY <2>1, <2>5 DEF Landings
    <3> QED
      BY <1>1, <2>1, <2>2, <2>5, <3>1, <3>2, <3>3 DEF SinkFiles
  <2>7. Follows(frames', cdir')
    BY <1>1, <2>1, <2>3
  <2>8. SinkDirs'
    BY <1>1, <2>1, <2>2, <2>7 DEF SinkDirs
  <2>9. ~InFlight
    BY <2>2 DEF InFlight
  <2>10. SinkSuccess'
    BY <2>1, <2>2, <2>5, <2>9 DEF SinkSuccess
  <2> QED
    BY <2>6, <2>8, <2>10
<1>2. CASE ClientStarts
  <2>1. PICK state \in {"greeting", "said", "times"} : Uploads(state, "ok")
    BY <1>2 DEF ClientStarts
  <2> QED
    BY <1>1, <1>2, <2>1 DEF ClientStarts, CGoto
<1>3. CASE ClientSkipsFile
  BY <1>1, <1>3 DEF ClientSkipsFile, CGoto
<1>4. ASSUME NEW kind \in {"ok", "warn"}, ClientIsAnswered(kind)
      PROVE  SinkPlaces'
  BY <1>1, <1>4 DEF ClientIsAnswered, CGoto
<1>5. ASSUME NEW kind \in {"ok", "warn"}, ClientEnters(kind)
      PROVE  SinkPlaces'
  <2>1. /\ command.sink /\ cpc = "directory" /\ CHeard(kind) /\ cpc' = "free"
        /\ cdir' = cfile.path
        /\ UNCHANGED <<command, eof, gone, pc, status, refused, file, frames, stored, offered,
                       told, up, cfile>>
    BY <1>5 DEF ClientEnters, Uploads, server
  <2>2. /\ ~gone /\ up = <<>> /\ status = "none" /\ pc = "line"
    BY <1>a, <2>1, ClientIsTold
  <2>3. Follows(frames, cfile.path)
    BY <2>1, <2>2 DEF SinkDirs
  <2>4. \A path : Landing(path)' = Landing(path)
    BY <2>1 DEF Landing
  <2>5. SinkFiles'
    <3>1. Landings' = Landings
      BY <2>1, <2>4 DEF Landings
    <3> QED
      BY <2>1, <2>2, <2>4, <3>1 DEF SinkFiles
  <2>6. Follows(frames', cdir')
    BY <2>1, <2>3
  <2>7. SinkDirs'
    BY <2>1, <2>2, <2>6 DEF SinkDirs
  <2>8. SinkSuccess'
    BY <2>1, <2>2, <2>4 DEF SinkSuccess, InFlight
  <2> QED
    BY <2>5, <2>7, <2>8
\* It says something that is no file.
<1>6. ASSUME cpc \in {"free", "timed"}, NEW word \in Words, Announces(word), offered' = offered,
             word.kind # "C", cpc' \in {"times", "said", "directory"}
      PROVE  /\ SinkFiles' /\ SinkSuccess'
             /\ ~gone /\ pc = "line" /\ pc' = pc /\ up' # <<>> /\ Head(up') = word
             /\ command.sink /\ UNCHANGED <<command, gone, frames>>
             /\ Follows(frames, cdir)
  <2>1. command.sink
    BY <1>6 DEF Announces
  <2>2. /\ ~gone /\ ~InFlight /\ pc = "line" /\ frames # <<>> /\ status = "none"
        /\ up' # <<>> /\ Head(up') = word
        /\ UNCHANGED <<command, gone, pc, status, refused, file, frames, stored, told>>
    BY <1>6, <2>1, SaidNext
  <2>3. \A path : Landing(path)' = Landing(path)
    BY <2>2 DEF Landing
  <2>4. Landings' = Landings
    BY <1>6, <2>3 DEF Landings
  <2>5. SinkFiles'
    BY <1>6, <2>1, <2>2, <2>3, <2>4 DEF SinkFiles
  <2>6. SinkSuccess'
    BY <1>6, <2>1, <2>2, <2>3 DEF SinkSuccess
  <2>7. Follows(frames, cdir)
    BY <1>6, <2>1, <2>2 DEF SinkDirs
  <2> QED
    BY <2>1, <2>2, <2>5, <2>6, <2>7
<1>7. CASE ClientCloses
  <2>1. /\ cpc = "free" /\ cpc' = "said" /\ Announces(Word("E")) /\ cdir # Target
        /\ cdir' = Parent(cdir) /\ cfile' = cfile /\ offered' = offered
    BY <1>7 DEF ClientCloses
  <2>2. Word("E") \in Words /\ Word("E").kind = "E"
    BY WordsThereAre
  <2>3. /\ SinkFiles' /\ SinkSuccess'
        /\ ~gone /\ pc = "line" /\ pc' = pc /\ up' # <<>> /\ Head(up') = Word("E")
        /\ command.sink /\ UNCHANGED <<command, gone, frames>>
        /\ Follows(frames, cdir)
    BY <1>6, <2>1, <2>2
  <2>4. \E name \in Names : Follows(frames', Append(cdir', name))
    BY <1>a, <2>1, <2>3, ParentOfAnEntry
  <2> QED
    BY <2>1, <2>2, <2>3, <2>4 DEF SinkDirs
<1>8. CASE ClientSaysTimes
  <2>1. /\ cpc = "free" /\ cpc' = "times" /\ Announces(Word("T"))
        /\ UNCHANGED <<cdir, cfile, offered>>
    BY <1>8 DEF ClientSaysTimes, CGoto
  <2>2. Word("T") \in Words /\ Word("T").kind = "T"
    BY WordsThereAre
  <2>3. /\ SinkFiles' /\ SinkSuccess'
        /\ ~gone /\ pc = "line" /\ pc' = pc /\ up' # <<>> /\ Head(up') = Word("T")
        /\ command.sink /\ UNCHANGED <<command, gone, frames>>
        /\ Follows(frames, cdir)
    BY <1>6, <2>1, <2>2
  <2>4. Follows(frames', cdir')
    BY <2>1, <2>3
  <2> QED
    BY <2>1, <2>2, <2>3, <2>4 DEF SinkDirs
<1>9. ASSUME NEW kind \in {"E", "nonsense"}, ClientErrs(kind)
      PROVE  SinkPlaces'
  <2>1. /\ cpc = "free" /\ cpc' = "said" /\ Announces(Word(kind))
        /\ UNCHANGED <<cdir, cfile, offered>> /\ (kind = "E" => cdir = Target)
    BY <1>9 DEF ClientErrs, CGoto
  <2>2. Word(kind) \in Words /\ Word(kind).kind = kind
    BY WordsThereAre
  <2>3. /\ SinkFiles' /\ SinkSuccess'
        /\ ~gone /\ pc = "line" /\ pc' = pc /\ up' # <<>> /\ Head(up') = Word(kind)
        /\ command.sink /\ UNCHANGED <<command, gone, frames>>
        /\ Follows(frames, cdir)
    BY <1>6, <2>1, <2>2
  <2>4. Follows(frames', cdir')
    BY <2>1, <2>3
  <2> QED
    BY <2>1, <2>2, <2>3, <2>4 DEF SinkDirs
<1>10. ASSUME NEW name \in Names, ClientAnnouncesDirectory(name)
      PROVE  SinkPlaces'
  <2>1. /\ cpc \in {"free", "timed"} /\ cpc' = "directory" /\ Announces(Header("D", name, 0))
        /\ cfile'.path = Append(cdir, name) /\ UNCHANGED <<cdir, offered>>
    BY <1>10 DEF ClientAnnouncesDirectory, AnnouncesEntry
  <2>2. /\ Header("D", name, 0) \in Words /\ Header("D", name, 0).kind = "D"
        /\ Header("D", name, 0).name = name
    BY WordsThereAre, BoundsAssumption
  <2>3. /\ SinkFiles' /\ SinkSuccess'
        /\ ~gone /\ pc = "line" /\ pc' = pc /\ up' # <<>> /\ Head(up') = Header("D", name, 0)
        /\ command.sink /\ UNCHANGED <<command, gone, frames>>
        /\ Follows(frames, cdir)
    BY <1>6, <2>1, <2>2
  <2>4. Follows(frames', cdir')
    BY <2>1, <2>3
  <2> QED
    BY <2>1, <2>2, <2>3, <2>4 DEF SinkDirs
\* It announces a file, which is in flight from then on.
<1>11. ASSUME NEW name \in Names, NEW size \in 0..MaxSize, ClientAnnouncesFile(name, size)
      PROVE  SinkPlaces'
  <2>1. /\ command.sink /\ cpc \in {"free", "timed"} /\ cpc' = "file"
        /\ Announces(Header("C", name, size))
        /\ cfile'.path = Append(cdir, name) /\ UNCHANGED cdir
        /\ offered' = offered \cup {Append(cdir, name)}
    BY <1>11 DEF ClientAnnouncesFile, AnnouncesEntry, Announces
  <2>2. /\ Header("C", name, size) \in Words /\ Header("C", name, size).kind = "C"
        /\ Header("C", name, size).name = name
    BY WordsThereAre
  <2>3. /\ ~gone /\ ~InFlight /\ pc = "line" /\ frames # <<>> /\ status = "none"
        /\ up' # <<>> /\ Head(up') = Header("C", name, size) /\ down' = <<>>
        /\ UNCHANGED <<command, gone, pc, status, refused, file, frames, stored, told>>
    BY <2>1, <2>2, SaidNext
  <2>4. Follows(frames, cdir) /\ Follows(frames', cdir')
    BY <2>1, <2>3 DEF SinkDirs
  <2>5. ResolveName(Frame, name) = Landing(Append(cdir, name))
    BY <1>a, <2>1, <2>3, <2>4, EntryLands
  <2>6. /\ \A path : Landing(path)' = Landing(path)
        /\ ResolveName(Frame, name)' = ResolveName(Frame, name)
    BY <2>3 DEF Landing, ResolveName, Frame
  <2>7. Landings' = Landings \cup {Landing(Append(cdir, name))}
    BY <2>1, <2>6 DEF Landings
  <2>8. SinkFiles'
    BY <2>1, <2>2, <2>3, <2>5, <2>6, <2>7 DEF SinkFiles
  <2>9. SinkDirs'
    BY <2>1, <2>2, <2>3, <2>4 DEF SinkDirs
  <2>10. InFlight'
    BY <2>1, <2>3 DEF InFlight
  <2>11. SinkSuccess'
    BY <2>1, <2>3, <2>6, <2>10 DEF SinkSuccess
  <2> QED
    BY <2>8, <2>9, <2>11
<1>12. ASSUME NEW verdict \in {"ok", "warn"}, ClientSendsFile(verdict)
      PROVE  SinkPlaces'
  <2>1. /\ command.sink /\ cpc = "file" /\ CHeard("ok") /\ cpc' = "sent"
        /\ UNCHANGED <<command, eof, gone, pc, status, refused, file, frames, stored, offered,
                       told, cfile, cdir>>
    BY <1>12 DEF ClientSendsFile, Uploads, CGoto, server
  <2>2. /\ ~gone /\ down' = <<>> /\ status = "none" /\ pc = "contents"
    BY <1>a, <2>1, ClientIsTold
  <2>3. \A path : Landing(path)' = Landing(path)
    BY <2>1 DEF Landing
  <2>4. Landings' = Landings
    BY <2>1, <2>3 DEF Landings
  <2>5. SinkFiles'
    BY <2>1, <2>2, <2>3, <2>4 DEF SinkFiles
  <2>6. Follows(frames', cdir')
    BY <2>1, <2>2 DEF SinkDirs
  <2>7. SinkDirs'
    BY <2>1, <2>2, <2>3, <2>6 DEF SinkDirs
  <2>8. SinkSuccess'
    BY <2>1, <2>2, <2>3 DEF SinkSuccess, InFlight
  <2> QED
    BY <2>5, <2>7, <2>8
<1>13. CASE ClientFinishes
  <2>1. /\ command.sink /\ cpc = "free" /\ cpc' = "over"
        /\ UNCHANGED <<command, up, down, gone, pc, status, refused, file, frames, stored,
                       offered, told, cfile, cdir>>
    BY <1>13 DEF ClientFinishes, CGoto, server, sink
  <2>2. ~gone /\ pc = "line"
    BY <1>a, <2>1, ClientIsFree
  <2>3. \A path : Landing(path)' = Landing(path)
    BY <2>1 DEF Landing
  <2>4. Landings' = Landings
    BY <2>1, <2>3 DEF Landings
  <2>5. SinkFiles'
    BY <2>1, <2>2, <2>3, <2>4 DEF SinkFiles, Frame
  <2>6. Follows(frames', cdir')
    BY <2>1, <2>2 DEF SinkDirs
  <2>7. SinkDirs' /\ SinkSuccess'
    BY <2>1, <2>2, <2>3, <2>6 DEF SinkDirs, SinkSuccess, InFlight
  <2> QED
    BY <2>5, <2>7
<1> QED
  BY <1>2, <1>3, <1>4, <1>5, <1>7, <1>8, <1>9, <1>10, <1>11, <1>12, <1>13 DEF SinkClient

-----------------------------------------------------------------------------
(* A download: where the client is, and what is to come.                   *)
(* Where the client is when an item is next.                               *)
Context(item) == IF item.ends THEN item.path ELSE Parent(item.path)

SourceDirs ==
    ~command.sink /\ ~gone =>
    /\ \A i \in 1..Len(work) - 1 : Context(work[i + 1]) = Parent(work[i].path)
    /\ pc = "start" => cdir = Target
    /\ pc = "walk" /\ work # <<>> => cdir = Context(Item)
    /\ pc \in {"timed", "asked"} => ~Item.ends /\ Item.path # Target
    /\ pc = "timed" => cdir = Parent(Item.path)
    /\ pc = "asked" =>
          cdir = IF IsDirectory(Item.path) /\ Hears("ok") THEN Item.path ELSE Parent(Item.path)
    /\ cpc = "taking" /\ pc # "over" =>
          /\ cfile.path = Item.path /\ ~Item.ends /\ ~IsDirectory(Item.path)
          /\ cdir = Parent(Item.path)
    /\ pc = "closed" /\ cpc = "reading" =>
          IF Item.ends
          THEN cdir = IF Hears("ok") THEN Parent(Item.path) ELSE Item.path
          ELSE /\ cdir = Parent(Item.path)
               /\ up # <<>> /\ ~IsDirectory(Item.path)
               /\ Hears("ok") => Item.path \in taken

Covers(path, f) == Len(path) <= Len(f) /\ SubSeq(f, 1, Len(path)) = path
Comes(items, f) == \E i \in 1..Len(items) : ~items[i].ends /\ Covers(items[i].path, f)

SourceSuccess ==
    ~command.sink =>
    /\ taken \subseteq tree.files
    /\ status = "success" => work = <<>> /\ ~refused /\ pc = "over"
    /\ ~gone /\ ~refused /\ status # "failure" /\ pc # "start" =>
          \A f \in tree.files : f \in taken \/ Comes(work, f)

SourcePlaces == SourceDirs /\ SourceSuccess

Items == [path : tree.dirs \cup tree.files, ends : BOOLEAN]

(* What was said to the source while the connection was there.             *)
LEMMA HeardIt ==
    ASSUME Inv, ~command.sink, ~gone, pc \in {"start", "timed", "asked", "closed"},
           NEW kind, Heard(kind)
    PROVE  Hears(kind) /\ up # <<>> /\ up' = <<>> /\ down = <<>>
<1>1. up # <<>> /\ Len(up) = 1 /\ up[1].kind \in Answers
  BY DEF SourceUp, Heard, Inv, TurnInv, SourceInv
<1>2. up' = <<>> /\ up[1].kind = kind
  BY <1>1, LastHeard DEF Inv, TypeInv, Typed, StreamTyped
<1>3. \A k \in {"ok", "warn"} : Hears(k) => k = kind
  BY OneHeard, WordsThereAre DEF Hears
<1>4. \E k \in {"ok", "warn"} : Hears(k)
  BY <1>1 DEF Inv, TurnInv, SourceInv, SourceTurns, Awaits, Nobody
<1> QED
  BY <1>1, <1>2, <1>3, <1>4 DEF Hears

(* An empty stream says nothing.                                           *)
LEMMA NothingHeard == \A kind : up = <<>> => ~Hears(kind)
BY Singleton DEF Hears

(* The rest of a sequence.                                                 *)
LEMMA TailOfWork ==
    \A S : \A s \in Seq(S) : s # <<>> =>
        /\ Tail(s) \in Seq(S) /\ Len(Tail(s)) = Len(s) - 1 /\ Len(s) \in Nat /\ Len(s) > 0
        /\ Head(s) = s[1] /\ Head(s) \in S
        /\ \A i \in 1..Len(s) - 1 : Tail(s)[i] = s[i + 1]
        /\ Tail(s) # <<>> => Len(s) > 1 /\ Head(Tail(s)) = s[2]
OBVIOUS

(* What is next when an item is done with comes in the directory it was in. *)
LEMMA TailFollows ==
    ASSUME Inv, work # <<>>,
           \A i \in 1..Len(work) - 1 : Context(work[i + 1]) = Parent(work[i].path)
    PROVE  /\ \A i \in 1..Len(Tail(work)) - 1 :
                 Context(Tail(work)[i + 1]) = Parent(Tail(work)[i].path)
           /\ Tail(work) # <<>> => Context(Head(Tail(work))) = Parent(Item.path)
<1>1. work \in Seq(Items)
  BY DEF Inv, TypeInv, Typed, SourceTyped, Items
<1>2. /\ Len(Tail(work)) = Len(work) - 1 /\ Len(work) \in Nat /\ Len(work) > 0
      /\ Item = work[1]
      /\ \A i \in 1..Len(work) - 1 : Tail(work)[i] = work[i + 1]
      /\ Tail(work) # <<>> => Len(work) > 1 /\ Head(Tail(work)) = work[2]
  BY <1>1, TailOfWork DEF Item
<1>3. ASSUME NEW i \in 1..Len(Tail(work)) - 1
      PROVE  Context(Tail(work)[i + 1]) = Parent(Tail(work)[i].path)
  <2>1. Tail(work)[i] = work[i + 1] /\ Tail(work)[i + 1] = work[(i + 1) + 1]
        /\ i + 1 \in 1..Len(work) - 1
    BY <1>2
  <2> QED
    BY <2>1
<1>4. ASSUME Tail(work) # <<>> PROVE Context(Head(Tail(work))) = Parent(Item.path)
  <2>1. 1 \in 1..Len(work) - 1 /\ Head(Tail(work)) = work[1 + 1]
    BY <1>2, <1>4
  <2> QED
    BY <1>2, <2>1
<1> QED
  BY <1>3, <1>4

(* A file that is still to come when an item is done with was under that   *)
(* item or is still to come.                                               *)
LEMMA TailComes ==
    ASSUME Inv, work # <<>>, NEW f, Comes(work, f)
    PROVE  Comes(Tail(work), f) \/ (~Item.ends /\ Covers(Item.path, f))
<1>1. work \in Seq(Items)
  BY DEF Inv, TypeInv, Typed, SourceTyped, Items
<1>2. /\ Len(Tail(work)) = Len(work) - 1 /\ Len(work) \in Nat
      /\ Item = work[1]
      /\ \A i \in 1..Len(work) - 1 : Tail(work)[i] = work[i + 1]
  BY <1>1, TailOfWork DEF Item
<1>3. PICK i \in 1..Len(work) : ~work[i].ends /\ Covers(work[i].path, f)
  BY DEF Comes
<1>4. CASE i = 1
  BY <1>2, <1>3, <1>4
<1>5. CASE i # 1
  <2>1. i - 1 \in 1..Len(Tail(work)) /\ Tail(work)[i - 1] = work[(i - 1) + 1] /\ (i - 1) + 1 = i
    BY <1>2, <1>5
  <2> QED
    BY <1>3, <2>1 DEF Comes
<1> QED
  BY <1>4, <1>5

(* A directory's children are all listed.                                  *)
LEMMA AllChildren ==
    ASSUME SourceTyped, NEW path, NEW children \in SetToSeqs(Children(path))
    PROVE  /\ children \in Seq(Children(path))
           /\ \A c \in Children(path) : \E i \in 1..Len(children) : children[i] = c
<1> DEFINE n == Cardinality(Children(path))
<1>1. IsFiniteSet(Children(path)) /\ n \in Nat
  <2>1. IsFiniteSet(tree.dirs \cup tree.files)
    BY TreesAssumption DEF SourceTyped
  <2>2. Children(path) \subseteq tree.dirs \cup tree.files
    BY DEF Children
  <2> QED
    BY <2>1, <2>2, FS_Subset, FS_CardinalityType
<1>2. /\ children \in [1..n -> Children(path)]
      /\ \A i, j \in 1..n : i # j => children[i] # children[j]
  BY DEF SetToSeqs
<1>3. children \in Injection(1..n, Children(path))
  BY <1>2 DEF Injection, IsInjective
<1>4. Cardinality(1..n) = n
  BY <1>1, FS_Interval
<1>5. children \in Surjection(1..n, Children(path))
  BY <1>1, <1>3, <1>4, FS_Injection
<1>6. children \in Seq(Children(path)) /\ Len(children) = n
  BY <1>1, <1>2
<1> QED
  BY <1>5, <1>6 DEF Surjection

(* What is at a place of two sequences, one after the other, and of three. *)
LEMMA FrontThenRest ==
    ASSUME NEW S, NEW front \in Seq(S), NEW rest \in Seq(S)
    PROVE  /\ Len(front \o rest) = Len(front) + Len(rest)
           /\ \A i \in 1..Len(front) : (front \o rest)[i] = front[i]
           /\ \A j \in 1..Len(rest) : (front \o rest)[Len(front) + j] = rest[j]
<1>1. Len(front) \in Nat /\ Len(rest) \in Nat
  OBVIOUS
<1>2. /\ Len(front \o rest) = Len(front) + Len(rest)
      /\ \A i \in 1..Len(front) + Len(rest) : (front \o rest)[i] =
            IF i <= Len(front) THEN front[i] ELSE rest[i - Len(front)]
  BY ConcatProperties
<1>3. ASSUME NEW i \in 1..Len(front) PROVE (front \o rest)[i] = front[i]
  BY <1>1, <1>2
<1>4. ASSUME NEW j \in 1..Len(rest) PROVE (front \o rest)[Len(front) + j] = rest[j]
  <2>1. /\ Len(front) + j \in 1..Len(front) + Len(rest) /\ ~(Len(front) + j <= Len(front))
        /\ Len(front) + j - Len(front) = j
    BY <1>1
  <2> QED
    BY <1>2, <2>1
<1> QED
  BY <1>2, <1>3, <1>4

LEMMA ThreeParts ==
    ASSUME NEW S, NEW nodes \in Seq(S), NEW end \in S, NEW rest \in Seq(S)
    PROVE  LET items == nodes \o <<end>> \o rest
           IN  /\ Len(items) = Len(nodes) + 1 + Len(rest)
               /\ \A i \in 1..Len(nodes) : items[i] = nodes[i]
               /\ items[Len(nodes) + 1] = end
               /\ \A j \in 1..Len(rest) : items[Len(nodes) + 1 + j] = rest[j]
<1> DEFINE front == nodes \o <<end>>
<1>1. <<end>> \in Seq(S) /\ Len(<<end>>) = 1 /\ <<end>>[1] = end
  OBVIOUS
<1>2. Len(nodes) \in Nat /\ Len(rest) \in Nat
  OBVIOUS
<1>3. /\ front \in Seq(S) /\ Len(front) = Len(nodes) + 1
      /\ \A i \in 1..Len(nodes) : front[i] = nodes[i]
      /\ front[Len(nodes) + 1] = end
  <2>1. front \in Seq(S)
    BY <1>1, ConcatProperties
  <2>2. /\ Len(front) = Len(nodes) + Len(<<end>>)
        /\ \A i \in 1..Len(nodes) : front[i] = nodes[i]
        /\ \A j \in 1..Len(<<end>>) : front[Len(nodes) + j] = <<end>>[j]
    BY <1>1, FrontThenRest
  <2>3. 1 \in 1..Len(<<end>>)
    BY <1>1
  <2>4. front[Len(nodes) + 1] = end
    BY <1>1, <2>2, <2>3
  <2> QED
    BY <1>1, <2>1, <2>2, <2>4
<1> HIDE DEF front
<1>4. /\ Len(front \o rest) = Len(front) + Len(rest)
      /\ \A i \in 1..Len(front) : (front \o rest)[i] = front[i]
      /\ \A j \in 1..Len(rest) : (front \o rest)[Len(front) + j] = rest[j]
  <2>1. front \in Seq(S)
    BY <1>3
  <2> QED
    BY <2>1, FrontThenRest
<1>5. /\ Len(front \o rest) = Len(nodes) + 1 + Len(rest)
      /\ \A i \in 1..Len(nodes) : (front \o rest)[i] = nodes[i]
      /\ (front \o rest)[Len(nodes) + 1] = end
      /\ \A j \in 1..Len(rest) : (front \o rest)[Len(nodes) + 1 + j] = rest[j]
  <2>1. \A i \in 1..Len(nodes) : i \in 1..Len(front)
    BY <1>2, <1>3
  <2>2. Len(nodes) + 1 \in 1..Len(front)
    BY <1>2, <1>3
  <2> QED
    BY <1>3, <1>4, <2>1, <2>2
<1> QED
  BY <1>5 DEF front

(* Its children, its end, and what was to come after it.                   *)
LEMMA Unfolded ==
    ASSUME SourceTyped, work # <<>>, NEW children \in SetToSeqs(Children(Item.path)),
           NEW items,
           items = [i \in 1..Len(children) |-> Node(children[i])]
                      \o <<EndOf(Item.path)>> \o Tail(work)
    PROVE  /\ Len(children) \in Nat
           /\ Len(items) = Len(children) + 1 + Len(Tail(work))
           /\ \A i \in 1..Len(children) : items[i] = Node(children[i])
           /\ items[Len(children) + 1] = EndOf(Item.path)
           /\ \A j \in 1..Len(Tail(work)) : items[Len(children) + 1 + j] = Tail(work)[j]
<1> DEFINE nodes == [i \in 1..Len(children) |-> Node(children[i])]
<1>1. children \in Seq(Children(Item.path)) /\ Children(Item.path) \subseteq tree.dirs \cup tree.files
  BY AllChildren DEF Children
<1>2. /\ nodes \in Seq(Items) /\ Len(nodes) = Len(children) /\ Len(children) \in Nat
      /\ \A i \in 1..Len(children) : nodes[i] = Node(children[i])
  BY <1>1 DEF Node, Items
<1>3. EndOf(Item.path) \in Items
  BY ItemTyped DEF EndOf, Items
<1>4. Tail(work) \in Seq(Items)
  BY DEF SourceTyped, Items
<1> HIDE DEF nodes
<1>5. LET parts == nodes \o <<EndOf(Item.path)>> \o Tail(work)
      IN  /\ Len(parts) = Len(nodes) + 1 + Len(Tail(work))
          /\ \A i \in 1..Len(nodes) : parts[i] = nodes[i]
          /\ parts[Len(nodes) + 1] = EndOf(Item.path)
          /\ \A j \in 1..Len(Tail(work)) : parts[Len(nodes) + 1 + j] = Tail(work)[j]
  BY <1>2, <1>3, <1>4, ThreeParts
<1>6. items = nodes \o <<EndOf(Item.path)>> \o Tail(work)
  BY DEF nodes
<1> QED
  BY <1>2, <1>5, <1>6

(* A directory whose children take its place is left as it would have      *)
(* been,                                                                   *)
LEMMA UnfoldedFollows ==
    ASSUME Inv, work # <<>>, NEW children \in SetToSeqs(Children(Item.path)),
           NEW items,
           items = [i \in 1..Len(children) |-> Node(children[i])]
                      \o <<EndOf(Item.path)>> \o Tail(work),
           \A i \in 1..Len(work) - 1 : Context(work[i + 1]) = Parent(work[i].path)
    PROVE  /\ \A i \in 1..Len(items) - 1 : Context(items[i + 1]) = Parent(items[i].path)
           /\ items # <<>> => Context(items[1]) = Item.path
<1> DEFINE n == Len(children)
<1>1. /\ n \in Nat /\ Len(items) = n + 1 + Len(Tail(work))
      /\ \A i \in 1..n : items[i] = Node(children[i])
      /\ items[n + 1] = EndOf(Item.path)
      /\ \A j \in 1..Len(Tail(work)) : items[n + 1 + j] = Tail(work)[j]
  BY Unfolded DEF Inv, TypeInv, Typed
<1>2. Len(Tail(work)) \in Nat
  BY DEF Inv, TypeInv, Typed, SourceTyped
<1>3. /\ \A i \in 1..Len(Tail(work)) - 1 :
                 Context(Tail(work)[i + 1]) = Parent(Tail(work)[i].path)
      /\ Tail(work) # <<>> => Context(Head(Tail(work))) = Parent(Item.path)
  BY TailFollows
<1>4. \A i \in 1..n : Parent(children[i]) = Item.path
  <2>1. children \in Seq(Children(Item.path))
    BY AllChildren DEF Inv, TypeInv, Typed
  <2>2. \A i \in 1..n : children[i] \in Children(Item.path)
    BY <2>1
  <2> QED
    BY <2>2 DEF Children
<1> HIDE DEF n
<1>0. n \in Nat /\ Len(items) = n + 1 + Len(Tail(work))
  BY <1>1
<1>5. ASSUME NEW i \in 1..n + 1 PROVE Context(items[i]) = Item.path
  <2>1. CASE i \in 1..n
    BY <1>1, <1>4, <2>1 DEF Context, Node
  <2>2. CASE i = n + 1
    BY <1>1, <2>2 DEF Context, EndOf
  <2>3. i \in 1..n \/ i = n + 1
    BY <1>0
  <2> QED
    BY <2>1, <2>2, <2>3
<1>6. ASSUME NEW i \in 1..Len(items) - 1
      PROVE  Context(items[i + 1]) = Parent(items[i].path)
  <2>1. CASE i <= n
    <3>1. i \in 1..n /\ i + 1 \in 1..n + 1
      BY <1>1, <2>1
    <3>2. items[i].path = children[i]
      BY <1>1, <3>1 DEF Node
    <3> QED
      BY <1>4, <1>5, <3>1, <3>2
  <2>2. CASE i = n + 1
    <3>1. 1 \in 1..Len(Tail(work)) /\ i + 1 = n + 1 + 1
      BY <1>1, <1>2, <2>2
    <3>2. items[i + 1] = Tail(work)[1]
      BY <1>1, <3>1
    <3>3. Tail(work) # <<>> /\ Head(Tail(work)) = Tail(work)[1]
      <4>1. Tail(work) \in Seq(Items)
        BY DEF Inv, TypeInv, Typed, SourceTyped, Items
      <4>2. \A S : \A s \in Seq(S) : 1 \in 1..Len(s) => s # <<>> /\ Head(s) = s[1]
        OBVIOUS
      <4> QED
        BY <3>1, <4>1, <4>2
    <3>4. items[i].path = Item.path
      BY <1>1, <2>2 DEF EndOf
    <3> QED
      BY <1>3, <3>2, <3>3, <3>4
  <2>3. CASE i > n + 1
    <3> DEFINE j == i - (n + 1)
    <3>1. j \in 1..Len(Tail(work)) - 1 /\ i = n + 1 + j /\ i + 1 = n + 1 + (j + 1)
          /\ j \in 1..Len(Tail(work)) /\ j + 1 \in 1..Len(Tail(work))
      BY <1>0, <1>2, <2>3
    <3>2. items[i] = Tail(work)[j] /\ items[i + 1] = Tail(work)[j + 1]
      BY <1>1, <3>1
    <3> QED
      BY <1>3, <3>1, <3>2
  <2>4. i <= n \/ i = n + 1 \/ i > n + 1
    BY <1>0, <1>2
  <2> QED
    BY <2>1, <2>2, <2>3, <2>4
<1>7. Context(items[1]) = Item.path
  <2>1. 1 \in 1..n + 1
    BY <1>0
  <2> QED
    BY <1>5, <2>1
<1> QED
  BY <1>6, <1>7

(* What is under a directory is under, or is, one of its children.         *)
LEMMA CoveredByAChild ==
    ASSUME SourceTyped, NEW path \in tree.dirs, NEW f \in tree.files, Covers(path, f)
    PROVE  \E c \in Children(path) : Covers(c, f)
<1>1. /\ path \in Seq(Names) /\ f \in Seq(Names) /\ path # f
      /\ Len(tree.top) <= Len(path) /\ tree.top \in Seq(Names)
      /\ \A n \in Len(tree.top)..Len(f) - 1 : SubSeq(f, 1, n) \in tree.dirs
  BY TreesAssumption DEF SourceTyped
<1>2. Len(path) \in Nat /\ Len(f) \in Nat /\ Len(tree.top) \in Nat
  BY <1>1
<1>3. Len(path) < Len(f)
  <2>1. Len(path) = Len(f) => path = f
    BY <1>1, WholeSeq DEF Covers
  <2> QED
    BY <1>1, <1>2, <2>1 DEF Covers
<1> DEFINE c == SubSeq(f, 1, Len(path) + 1)
<1>4. Len(path) + 1 \in 0..Len(f)
  BY <1>2, <1>3
<1>5. c \in Seq(Names) /\ Len(c) = Len(path) + 1 /\ \A i \in 1..Len(path) + 1 : c[i] = f[i]
  BY <1>1, <1>4, FirstOfASeq
<1>6. c \in tree.dirs \cup tree.files
  <2>1. CASE Len(path) + 1 = Len(f)
    BY <1>1, <2>1, WholeSeq
  <2>2. CASE Len(path) + 1 < Len(f)
    <3>1. Len(path) + 1 \in Len(tree.top)..Len(f) - 1
      BY <1>1, <1>2, <2>2
    <3> QED
      BY <1>1, <3>1
  <2> QED
    BY <1>2, <1>3, <2>1, <2>2
<1> HIDE DEF c
<1>7. Parent(c) = path
  <2>1. Len(c) - 1 = Len(path) /\ Len(path) \in 0..Len(c) /\ c # <<>>
    BY <1>2, <1>5
  <2>2. /\ SubSeq(c, 1, Len(path)) \in Seq(Names) /\ Len(SubSeq(c, 1, Len(path))) = Len(path)
        /\ \A i \in 1..Len(path) : SubSeq(c, 1, Len(path))[i] = c[i]
    BY <1>5, <2>1, FirstOfASeq
  <2>3. \A i \in 1..Len(path) : f[i] = path[i]
    <3>1. Len(path) \in 0..Len(f) /\ SubSeq(f, 1, Len(path)) = path
      BY <1>2, <1>3 DEF Covers
    <3>2. \A i \in 1..Len(path) : SubSeq(f, 1, Len(path))[i] = f[i]
      BY <1>1, <3>1, FirstOfASeq
    <3> QED
      BY <3>1, <3>2
  <2>4. \A i \in 1..Len(path) : SubSeq(c, 1, Len(path))[i] = path[i]
    BY <1>2, <1>5, <2>2, <2>3
  <2>5. SubSeq(c, 1, Len(path)) = path
    BY <1>1, <2>2, <2>4
  <2> QED
    BY <2>1, <2>5 DEF Parent
<1>8. c # <<>> /\ Covers(c, f)
  BY <1>2, <1>3, <1>5 DEF Covers, c
<1> QED
  BY <1>6, <1>7, <1>8 DEF Children

(* and no file under it is lost.                                           *)
LEMMA UnfoldedComes ==
    ASSUME Inv, work # <<>>, IsDirectory(Item.path),
           NEW children \in SetToSeqs(Children(Item.path)),
           NEW items,
           items = [i \in 1..Len(children) |-> Node(children[i])]
                      \o <<EndOf(Item.path)>> \o Tail(work),
           NEW f \in tree.files, Comes(work, f)
    PROVE  Comes(items, f)
<1> DEFINE n == Len(children)
<1>1. /\ n \in Nat /\ Len(items) = n + 1 + Len(Tail(work))
      /\ \A i \in 1..n : items[i] = Node(children[i])
      /\ \A j \in 1..Len(Tail(work)) : items[n + 1 + j] = Tail(work)[j]
  BY Unfolded DEF Inv, TypeInv, Typed
<1>2. Len(Tail(work)) \in Nat
  BY DEF Inv, TypeInv, Typed, SourceTyped
<1>3. CASE Comes(Tail(work), f)
  <2>1. PICK j \in 1..Len(Tail(work)) : ~Tail(work)[j].ends /\ Covers(Tail(work)[j].path, f)
    BY <1>3 DEF Comes
  <2>2. n + 1 + j \in 1..Len(items) /\ items[n + 1 + j] = Tail(work)[j]
    BY <1>1, <1>2, <2>1
  <2> QED
    BY <2>1, <2>2 DEF Comes
<1>4. CASE Covers(Item.path, f)
  <2>1. PICK c \in Children(Item.path) : Covers(c, f)
    BY <1>4, CoveredByAChild DEF Inv, TypeInv, Typed, IsDirectory
  <2>2. PICK i \in 1..n : children[i] = c
    BY AllChildren DEF Inv, TypeInv, Typed
  <2>3. i \in 1..Len(items) /\ items[i] = Node(c)
    BY <1>1, <1>2, <2>2
  <2>4. ~items[i].ends /\ items[i].path = c
    BY <2>3 DEF Node
  <2> QED
    BY <2>1, <2>3, <2>4 DEF Comes
<1> QED
  BY <1>3, <1>4, TailComes

(* A file is under no file but itself.                                     *)
LEMMA FilesCoverThemselves ==
    ASSUME SourceTyped, NEW path \in tree.files, NEW f \in tree.files, Covers(path, f)
    PROVE  path = f
<1>1. /\ path \in Seq(Names) /\ f \in Seq(Names)
      /\ Len(tree.top) <= Len(path) /\ tree.top \in Seq(Names)
      /\ \A n \in Len(tree.top)..Len(f) - 1 : SubSeq(f, 1, n) \in tree.dirs
      /\ path \notin tree.dirs
  BY TreesAssumption DEF SourceTyped
<1>2. Len(path) \in Nat /\ Len(f) \in Nat /\ Len(tree.top) \in Nat
  BY <1>1
<1>3. Len(path) \notin Len(tree.top)..Len(f) - 1
  BY <1>1 DEF Covers
<1>4. Len(path) = Len(f)
  BY <1>1, <1>2, <1>3 DEF Covers
<1> QED
  BY <1>1, <1>4, WholeSeq DEF Covers

-----------------------------------------------------------------------------
(* The steps of both ends.                                                 *)
(* What is sent next is an entry of the tree.                              *)
LEMMA NextItem ==
    ASSUME Inv, work # <<>>
    PROVE  /\ Item.path \in tree.dirs \cup tree.files /\ Item.path \in Seq(Names)
           /\ Sendable(Item.path) => Item.path # Target
           /\ ~IsDirectory(Item.path) => Item.path \in tree.files
           /\ Item.path # Target => Append(Parent(Item.path), Name(Item.path)) = Item.path
           /\ Item = work[1]
<1>1. /\ Item.path \in tree.dirs \cup tree.files /\ Item.path \in Seq(Names)
      /\ Sendable(Item.path) => Item.path # Target
      /\ Item = work[1]
  BY ItemTyped DEF Inv, TypeInv, Typed, Target, Item, SourceTyped
<1> QED
  BY <1>1, ParentOfAnEntry DEF IsDirectory, Name

(* What the two ends know of each other does not change but with the item, *)
(* the answer on its way, or where the client is.                          *)
LEMMA SourceDirsSourceStep ==
    ASSUME Inv, SourceDirs, SourceStep
    PROVE  SourceDirs'
<1> USE DEF Sending
<1> SUFFICES ASSUME ~gone' PROVE SourceDirs'
  BY DEF SourceDirs
<1>0. /\ ~command.sink /\ UNCHANGED <<command, gone, cpc, cdir, cfile, tree, taken>> /\ ~gone
  <2>1. ~command.sink /\ UNCHANGED <<command, gone, cpc, cdir, cfile, tree, taken>>
    BY DEF client, SourceStep, SendStarts, SendEnds, SendSkips, SendTimes, SendHeader,
        SendChildren,
         SendEndOfDirectory, SendFile, SendPiece, SendShort, SendVerdict, SendNext,
         SendBreaks
  <2> QED
    BY <2>1
<1>a. TypeInv /\ SourceInv /\ work \in Seq(Items)
  BY DEF Inv, TurnInv, TypeInv, Typed, SourceTyped, Items
<1>b. \A i \in 1..Len(work) - 1 : Context(work[i + 1]) = Parent(work[i].path)
  BY <1>0 DEF SourceDirs
<1>c. cpc = "taking" => pc \notin {"start", "walk", "timed"}
  BY <1>0, <1>a DEF SourceInv, SourceTurns
\* The session is over.
<1>1. CASE SendEnds \/ SendShort \/ SendBreaks
  <2>1. pc' = "over" /\ UNCHANGED work
    BY <1>1 DEF SendEnds, SendShort, SendBreaks, End
  <2> QED
    BY <1>0, <1>b, <2>1 DEF SourceDirs
<1>2. CASE SendStarts
  <2>1. Hears("ok") /\ cdir = Target /\ pc = "start" /\ cpc # "taking"
    BY <1>0, <1>2, <1>c, HeardIt DEF SendStarts, SourceDirs
  <2>2. CASE work' = <<Node(tree.top)>> /\ pc' = "walk"
    <3>1. tree.top \in Seq(Names) /\ Len(tree.top) <= 1
      BY TreesAssumption DEF Inv, TypeInv, Typed, SourceTyped
    <3>2. Parent(tree.top) = <<>>
      BY <3>1 DEF Parent
    <3>3. Len(work') - 1 = 0 /\ Head(work') = Node(tree.top)
      BY <2>2, Singleton
    <3>4. Item' = Node(tree.top)
      BY <3>3 DEF Item
    <3>5. Context(Item)' = Target
      BY <3>2, <3>4 DEF Context, Node, Target
    <3> QED
      BY <1>0, <2>1, <2>2, <3>3, <3>5 DEF SourceDirs
  <2>3. CASE pc' = "over" /\ UNCHANGED work
    BY <1>0, <1>b, <2>3 DEF SourceDirs
  <2> QED
    BY <1>2, <2>2, <2>3 DEF SendStarts, Goto, End
<1>3. CASE SendSkips
  <2>1. pc = "walk" /\ pc' = pc /\ work # <<>> /\ ~Item.ends /\ work' = Tail(work) /\ cpc # "taking"
    BY <1>0, <1>3, <1>c DEF SendSkips
  <2>2. cdir = Parent(Item.path)
    BY <1>0, <2>1 DEF SourceDirs, Context
  <2>3. /\ \A i \in 1..Len(work') - 1 : Context(work'[i + 1]) = Parent(work'[i].path)
        /\ work' # <<>> => Context(Item') = Parent(Item.path)
    BY <1>b, <2>1, TailFollows DEF Item
  <2>4. Context(Item)' = Context(Item')
    BY DEF Context
  <2> QED
    BY <1>0, <2>1, <2>2, <2>3, <2>4 DEF SourceDirs
<1>4. CASE SendTimes
  <2>1. /\ pc = "walk" /\ pc' = "timed" /\ work # <<>> /\ ~Item.ends /\ UNCHANGED work /\ cpc # "taking"
        /\ Sendable(Item.path)
    BY <1>0, <1>4, <1>c DEF SendTimes, Goto
  <2>2. cdir = Parent(Item.path) /\ Item.path # Target
    BY <1>0, <2>1, NextItem DEF SourceDirs, Context
  <2>3. Item' = Item
    BY <2>1 DEF Item
  <2> QED
    BY <1>0, <1>b, <2>1, <2>2, <2>3 DEF SourceDirs
<1>5. CASE SendHeader
  <2>1. /\ pc \in {"walk", "timed"} /\ pc' = "asked" /\ work # <<>> /\ ~Item.ends /\ UNCHANGED work
        /\ cpc # "taking" /\ Sendable(Item.path)
    BY <1>0, <1>5, <1>c DEF SendHeader, Goto
  <2>2. up' = <<>>
    <3>1. CASE pc = "walk" /\ UNCHANGED up
      BY <1>0, <1>a, <3>1 DEF SourceInv, SourceUp
    <3>2. CASE pc = "timed" /\ Heard("ok")
      BY <1>0, <3>2, HeardIt
    <3> QED
      BY <1>5, <3>1, <3>2 DEF SendHeader
  <2>3. cdir = Parent(Item.path) /\ Item.path # Target
    BY <1>0, <2>1, NextItem DEF SourceDirs, Context
  <2>4. Item' = Item /\ ~Hears("ok")'
    BY <2>1, <2>2, Singleton DEF Item, Hears
  <2> QED
    BY <1>0, <1>b, <2>1, <2>3, <2>4 DEF SourceDirs
<1>6. CASE SendChildren
  <2>1. pc = "asked" /\ pc' = "walk" /\ IsDirectory(Item.path) /\ Hears("ok") /\ cpc # "taking"
    <3>1. pc = "asked" /\ pc' = "walk" /\ IsDirectory(Item.path) /\ Heard("ok")
      BY <1>6 DEF SendChildren, Goto
    <3>2. Hears("ok")
      BY <1>0, <3>1, HeardIt
    <3>3. cpc = "reading"
      BY <1>0, <1>a, <3>1, SourceIsTold
    <3> QED
      BY <3>1, <3>2, <3>3
  <2>2. cdir = Item.path /\ work # <<>>
    BY <1>0, <2>1 DEF SourceDirs, Inv, TypeInv, InHand
  <2>3. PICK children \in SetToSeqs(Children(Item.path)) :
           work' = [i \in 1..Len(children) |-> Node(children[i])]
                      \o <<EndOf(Item.path)>> \o Tail(work)
    BY <1>6 DEF SendChildren
  <2>4. /\ \A i \in 1..Len(work') - 1 : Context(work'[i + 1]) = Parent(work'[i].path)
        /\ work' # <<>> => Context(work'[1]) = Item.path
    BY <1>b, <2>2, <2>3, UnfoldedFollows
  <2>5. work' # <<>> => Context(Item)' = Item.path
    <3>1. work' \in Seq(Items)
      <4>1. work' \in Seq([path : tree.dirs \cup tree.files, ends : BOOLEAN])
        BY <1>a, <2>2, <2>3, ChildrenTyped DEF TypeInv, Typed
      <4> QED
        BY <1>0, <4>1 DEF Items
    <3>2. work' # <<>> => Item' = work'[1]
      BY <3>1, TailOfWork DEF Item
    <3>3. Context(Item)' = Context(Item')
      BY DEF Context
    <3> QED
      BY <2>4, <3>2, <3>3
  <2> QED
    BY <1>0, <2>1, <2>2, <2>4, <2>5 DEF SourceDirs
<1>7. CASE SendEndOfDirectory
  <2>1. pc = "walk" /\ pc' = "closed" /\ work # <<>> /\ Item.ends /\ UNCHANGED work /\ cpc # "taking"
    BY <1>0, <1>7, <1>c DEF SendEndOfDirectory, Goto
  <2>2. cdir = Item.path
    BY <1>0, <2>1 DEF SourceDirs, Context
  <2>3. up' = <<>>
    BY <1>0, <1>7, <1>a, <2>1 DEF SendEndOfDirectory, SourceInv, SourceUp
  <2>4. Item' = Item /\ ~Hears("ok")'
    BY <2>1, <2>3, Singleton DEF Item, Hears
  <2> QED
    BY <1>0, <1>b, <2>1, <2>2, <2>4 DEF SourceDirs
<1>8. CASE SendFile \/ SendPiece \/ SendVerdict
  <2>1. /\ pc' \in {"contents", "closed"} /\ UNCHANGED work
        /\ \/ pc = "asked" /\ ~IsDirectory(Item.path) /\ Heard("ok")
           \/ pc = "contents"
    BY <1>8 DEF SendFile, SendPiece, SendVerdict, Goto
  <2>2. cpc = "taking" /\ pc # "over"
    <3>1. CASE pc = "asked" /\ ~IsDirectory(Item.path) /\ Heard("ok")
      BY <1>0, <1>a, <3>1, SourceIsTold
    <3>2. CASE pc = "contents"
      BY <1>0, <1>a, <3>2 DEF SourceInv, SourceTurns
    <3> QED
      BY <2>1, <3>1, <3>2
  <2>3. Item' = Item /\ IsDirectory(Item.path)' = IsDirectory(Item.path)
    BY <1>0, <2>1 DEF Item, IsDirectory
  <2>4. /\ cfile.path = Item.path /\ ~Item.ends /\ ~IsDirectory(Item.path)
        /\ cdir = Parent(Item.path)
    BY <1>0, <2>2 DEF SourceDirs
  <2> QED
    BY <1>0, <1>b, <2>1, <2>2, <2>3, <2>4 DEF SourceDirs
<1>9. CASE SendNext
  <2>1. pc = "closed" /\ pc' = "walk" /\ work' = Tail(work) /\ Heard("ok")
    BY <1>9 DEF SendNext, Goto
  <2>2. work # <<>> /\ cpc = "reading" /\ Hears("ok")
    BY <1>0, <1>a, <2>1, SourceIsTold, HeardIt DEF TypeInv, InHand
  <2>3. cdir = Parent(Item.path)
    BY <1>0, <2>1, <2>2 DEF SourceDirs
  <2>4. /\ \A i \in 1..Len(work') - 1 : Context(work'[i + 1]) = Parent(work'[i].path)
        /\ work' # <<>> => Context(Item') = Parent(Item.path)
    BY <1>b, <2>1, <2>2, TailFollows DEF Item
  <2>5. Context(Item)' = Context(Item')
    BY DEF Context
  <2> QED
    BY <1>0, <2>1, <2>2, <2>3, <2>4, <2>5 DEF SourceDirs
<1> QED
  BY <1>1, <1>2, <1>3, <1>4, <1>5, <1>6, <1>7, <1>8, <1>9 DEF SourceStep

(* Until something is refused, every file of the tree was taken or is to   *)
(* come.                                                                   *)
LEMMA SourceSuccessSourceStep ==
    ASSUME Inv, SourceDirs, SourceSuccess, SourceStep
    PROVE  SourceSuccess'
<1> USE DEF Sending
<1>0. /\ ~command.sink /\ UNCHANGED <<command, gone, cpc, cdir, cfile, tree, taken>>
      /\ pc # "over" /\ status = "none"
  <2>1. /\ ~command.sink /\ UNCHANGED <<command, gone, cpc, cdir, cfile, tree, taken>>
        /\ pc # "over"
    BY DEF client, SourceStep, SendStarts, SendEnds, SendSkips, SendTimes, SendHeader,
        SendChildren,
         SendEndOfDirectory, SendFile, SendPiece, SendShort, SendVerdict, SendNext,
         SendBreaks
  <2> QED
    BY <2>1 DEF Inv, TurnInv, SourceInv, SourceUp
<1>a. TypeInv /\ SourceInv /\ SourceTyped
  BY DEF Inv, TurnInv, TypeInv, Typed
<1>1. taken' \subseteq tree'.files
  BY <1>0 DEF SourceSuccess
<1>2. status' = "success" => work' = <<>> /\ ~refused' /\ pc' = "over"
  BY <1>0 DEF SourceStep, SendStarts, SendEnds, SendSkips, SendTimes, SendHeader,
      SendChildren,
         SendEndOfDirectory, SendFile, SendPiece, SendShort, SendVerdict, SendNext,
         SendBreaks,
         End, Goto, Fail
<1> SUFFICES ASSUME ~gone', ~refused', status' # "failure", pc' # "start", NEW f \in tree.files
             PROVE  f \in taken \/ Comes(work', f)
  BY <1>0, <1>1, <1>2 DEF SourceSuccess
<1>3. CASE SendStarts
  <2>1. work' = <<Node(tree.top)>>
    BY <1>3 DEF SendStarts, Fail
  <2>2. Covers(tree.top, f)
    BY <1>a, TreesAssumption DEF SourceTyped, Covers
  <2>3. 1 \in 1..Len(work') /\ work'[1] = Node(tree.top)
    BY <2>1
  <2> QED
    BY <2>2, <2>3 DEF Comes, Node
<1>4. ~SendStarts => pc # "start" /\ (~refused => f \in taken \/ Comes(work, f)) /\ ~gone
  <2>1. ~SendStarts /\ pc = "start" => SendBreaks
    BY DEF SourceStep, SendEnds, SendSkips, SendTimes, SendHeader, SendChildren,
         SendEndOfDirectory, SendFile, SendPiece, SendShort, SendVerdict, SendNext
  <2>2. ~SendBreaks
    BY DEF SendBreaks, End
  <2> QED
    BY <1>0, <2>1, <2>2 DEF SourceSuccess
<1>5. CASE SendSkips \/ SendShort \/ SendBreaks
  BY <1>5 DEF SendSkips, SendShort, SendBreaks, Fail, End
<1>6. CASE \/ SendEnds \/ SendTimes \/ SendHeader \/ SendEndOfDirectory \/ SendFile
           \/ SendPiece \/ SendVerdict
  <2>1. UNCHANGED <<work, refused>> /\ ~SendStarts
    BY <1>6 DEF SendEnds, SendTimes, SendHeader, SendEndOfDirectory, SendFile,
         SendPiece, SendVerdict, SendStarts, Ack
  <2> QED
    BY <1>4, <2>1
<1>7. CASE SendChildren
  <2>1. /\ pc = "asked" /\ IsDirectory(Item.path) /\ refused' = refused
        /\ \E children \in SetToSeqs(Children(Item.path)) :
              work' = [i \in 1..Len(children) |-> Node(children[i])]
                        \o <<EndOf(Item.path)>> \o Tail(work)
    BY <1>7 DEF SendChildren
  <2>2. work # <<>> /\ ~SendStarts
    BY <1>0, <1>a, <2>1 DEF TypeInv, InHand, SendStarts
  <2>3. Comes(work, f) => Comes(work', f)
    BY <2>1, <2>2, UnfoldedComes
  <2> QED
    BY <1>4, <2>1, <2>2, <2>3
<1>8. CASE SendNext
  <2>1. pc = "closed" /\ work' = Tail(work) /\ Heard("ok") /\ refused' = refused
    BY <1>8 DEF SendNext
  <2>2. work # <<>> /\ cpc = "reading" /\ Hears("ok") /\ ~SendStarts
    BY <1>0, <1>a, <2>1, SourceIsTold, HeardIt DEF TypeInv, InHand, SendStarts
  <2>3. ~Item.ends => Item.path \in taken /\ Item.path \in tree.files
    BY <1>0, <2>1, <2>2, NextItem DEF SourceDirs
  <2>4. ~Item.ends /\ Covers(Item.path, f) => f \in taken
    BY <1>a, <2>3, FilesCoverThemselves
  <2>5. Comes(work, f) => Comes(work', f) \/ f \in taken
    BY <2>1, <2>2, <2>4, TailComes
  <2> QED
    BY <1>4, <2>1, <2>2, <2>5
<1> QED
  BY <1>3, <1>5, <1>6, <1>7, <1>8 DEF SourceStep

(* The client creates what it is sent in the directory the source is       *)
(* sending.                                                                *)
LEMMA SourcePlacesSourceClient ==
    ASSUME Inv, SourcePlaces, SourceClient
    PROVE  SourcePlaces'
<1> USE DEF Downloads, SourcePlaces
<1>0. /\ ~command.sink /\ UNCHANGED <<command, eof, gone, pc, status, refused, file, work, tree>>
      /\ cpc # "over" /\ ~gone /\ UNCHANGED <<Item, ItemHeader>>
      /\ \A path : IsDirectory(path)' = IsDirectory(path)
      /\ Word("ok") \in Words /\ Word("warn") \in Words
  <2>1. /\ ~command.sink /\ UNCHANGED <<command, eof, gone, pc, status, refused, file, work, tree>>
        /\ cpc # "over"
    BY DEF server, SourceClient, DownloadStarts, TakesTimes, TakesDirectory, TakesEnd,
        TakesFile,
           TakesPiece, TakesVerdict, Declines, HearsWarning
  <2>2. UNCHANGED <<Item, ItemHeader>> /\ \A path : IsDirectory(path)' = IsDirectory(path)
    BY <2>1 DEF ItemHeader, IsDirectory, Item, Name
  <2> QED
    BY <2>1, <2>2, WordsThereAre DEF Inv, TurnInv, SourceInv, SourceUp
<1>a. TypeInv /\ SourceInv
  BY DEF Inv, TurnInv
<1>b. \A i \in 1..Len(work) - 1 : Context(work[i + 1]) = Parent(work[i].path)
  BY <1>0 DEF SourceDirs
<1>c. pc \in {"timed", "asked"} => ~Item.ends /\ Item.path # Target
  BY <1>0 DEF SourceDirs
\* What it has of the tree only grows, by what is of the tree.
<1>1. SourceSuccess'
  <2>1. taken' = taken \/ (TakesVerdict /\ taken' = taken \cup {cfile.path})
    BY DEF SourceClient, DownloadStarts, TakesTimes, TakesDirectory, TakesEnd, TakesFile,
           TakesPiece, TakesVerdict, Declines, HearsWarning
  <2>2. TakesVerdict => cfile.path \in tree.files
    <3> SUFFICES ASSUME TakesVerdict PROVE cfile.path \in tree.files
      OBVIOUS
    <3>1. pc = "closed" /\ cpc = "taking"
      BY <1>0, <1>a, TakerHears DEF TakesVerdict
    <3>2. work # <<>> /\ cfile.path = Item.path /\ ~IsDirectory(Item.path)
      BY <1>0, <1>a, <3>1 DEF SourceDirs, TypeInv, InHand
    <3> QED
      BY <3>2, NextItem
  <2>3. taken \subseteq taken' /\ taken' \subseteq tree.files
    BY <1>0, <2>1, <2>2 DEF SourceSuccess
  <2> QED
    BY <1>0, <2>3 DEF SourceSuccess
<1>2. CASE DownloadStarts
  <2>1. pc = "start" /\ cpc' = "reading" /\ UNCHANGED cdir
    BY <1>0, <1>2, <1>a DEF DownloadStarts, SourceInv, SourceTurns
  <2>2. SourceDirs'
    BY <1>0, <1>b, <2>1 DEF SourceDirs
  <2> QED
    BY <1>1, <2>2
<1>3. CASE TakesTimes
  <2>1. pc = "timed" /\ UNCHANGED <<cpc, cdir>> /\ cpc = "reading"
    BY <1>0, <1>3, <1>a, ReaderHears DEF TakesTimes
  <2>2. SourceDirs'
    BY <1>0, <1>b, <2>1 DEF SourceDirs
  <2> QED
    BY <1>1, <2>2
<1>4. CASE TakesDirectory
  <2>1. /\ pc = "asked" /\ cpc = "reading" /\ UNCHANGED cpc /\ up = <<>> /\ down' = <<>>
        /\ Head(down) = ItemHeader /\ Head(down).kind = "D" /\ CSay(<<Word("ok")>>)
        /\ cdir' = Append(cdir, Head(down).name)
    BY <1>0, <1>4, <1>a, ReaderHears DEF TakesDirectory, CHeard
  <2>2. IsDirectory(Item.path) /\ Head(down).name = Name(Item.path)
    BY <2>1 DEF ItemHeader, Header
  <2>3. Hears("ok")' /\ ~Hears("ok")
    BY <1>0, <2>1, OneSaid, NothingHeard DEF Hears
  <2>4. cdir = Parent(Item.path) /\ Item.path # Target /\ work # <<>>
    BY <1>0, <1>a, <2>1, <2>3 DEF SourceDirs, TypeInv, InHand
  <2>5. cdir' = Item.path
    BY <2>1, <2>2, <2>4, NextItem
  <2>6. SourceDirs'
    BY <1>0, <1>b, <1>c, <2>1, <2>2, <2>3, <2>5 DEF SourceDirs
  <2> QED
    BY <1>1, <2>6
<1>5. CASE TakesEnd
  <2>1. /\ pc = "closed" /\ cpc = "reading" /\ UNCHANGED cpc /\ up = <<>> /\ down' = <<>>
        /\ CSay(<<Word("ok")>>) /\ cdir' = Parent(cdir)
    BY <1>0, <1>5, <1>a, ReaderHears DEF TakesEnd
  <2>2. Hears("ok")' /\ ~Hears("ok")
    BY <1>0, <2>1, OneSaid, NothingHeard DEF Hears
  <2>3. Item.ends /\ cdir = Item.path
    BY <1>0, <2>1, <2>2 DEF SourceDirs
  <2>4. SourceDirs'
    BY <1>0, <1>b, <2>1, <2>2, <2>3 DEF SourceDirs
  <2> QED
    BY <1>1, <2>4
<1>6. CASE TakesFile
  <2>1. /\ pc = "asked" /\ cpc = "reading" /\ cpc' = "taking" /\ up = <<>>
        /\ Head(down) = ItemHeader /\ Head(down).kind = "C" /\ UNCHANGED cdir
        /\ cfile'.path = Append(cdir, Head(down).name)
    BY <1>0, <1>6, <1>a, ReaderHears DEF TakesFile, CHeard
  <2>2. ~IsDirectory(Item.path) /\ Head(down).name = Name(Item.path)
    BY <2>1 DEF ItemHeader, Header
  <2>3. cdir = Parent(Item.path) /\ Item.path # Target /\ work # <<>> /\ ~Item.ends
    BY <1>0, <1>a, <2>1, <2>2 DEF SourceDirs, TypeInv, InHand
  <2>4. cfile'.path = Item.path
    BY <2>1, <2>2, <2>3, NextItem
  <2>5. SourceDirs'
    BY <1>0, <1>b, <1>c, <2>1, <2>2, <2>3, <2>4 DEF SourceDirs
  <2> QED
    BY <1>1, <2>5
<1>7. CASE TakesPiece
  <2>1. cpc = "taking" /\ UNCHANGED <<up, cpc, cdir>> /\ cfile'.path = cfile.path
    BY <1>7 DEF TakesPiece, TypeInv, Typed, ClientTyped, OpenFiles, Inv
  <2>2. pc \in {"contents", "closed", "over"}
    BY <1>0, <1>7, <1>a, TakerHears DEF TakesPiece
  <2>3. SourceDirs'
    BY <1>0, <1>b, <2>1, <2>2 DEF SourceDirs
  <2> QED
    BY <1>1, <2>3
<1>8. CASE TakesVerdict
  <2>1. /\ pc = "closed" /\ cpc = "taking" /\ cpc' = "reading" /\ up = <<>> /\ UNCHANGED cdir
        /\ CSay(<<Word("ok")>>) /\ taken' = taken \cup {cfile.path}
    BY <1>0, <1>8, <1>a, TakerHears DEF TakesVerdict
  <2>2. /\ cfile.path = Item.path /\ ~Item.ends /\ ~IsDirectory(Item.path)
        /\ cdir = Parent(Item.path)
    BY <1>0, <2>1 DEF SourceDirs
  <2>3. up' # <<>>
    BY <1>0, <2>1, OneSaid, Singleton
  <2>4. SourceDirs'
    BY <1>0, <1>b, <2>1, <2>2, <2>3 DEF SourceDirs
  <2> QED
    BY <1>1, <2>4
<1>9. CASE Declines
  <2>1. /\ up = <<>> /\ UNCHANGED cdir /\ CSay(<<Word("warn")>>) /\ cpc' = "reading"
        /\ \/ cpc = "reading" /\ pc = "asked"
           \/ cpc = "taking" /\ pc = "closed"
    BY <1>0, <1>9, <1>a, ReaderHears, TakerHears DEF Declines
  <2>2. up' = <<Word("warn")>>
    BY <1>0, <2>1, OneSaid
  <2>3. up' # <<>> /\ ~Hears("ok")'
    BY <2>2, OneHeard, Singleton, WordsThereAre DEF Hears
  <2>4. CASE cpc = "reading" /\ pc = "asked"
    <3>1. cdir = Parent(Item.path)
      BY <1>0, <2>1, <2>4, NothingHeard DEF SourceDirs
    <3>2. SourceDirs'
      BY <1>0, <1>b, <1>c, <2>1, <2>3, <2>4, <3>1 DEF SourceDirs
    <3> QED
      BY <1>1, <3>2
  <2>5. CASE cpc = "taking" /\ pc = "closed"
    <3>1. ~Item.ends /\ ~IsDirectory(Item.path) /\ cdir = Parent(Item.path)
      BY <1>0, <2>5 DEF SourceDirs
    <3>2. SourceDirs'
      BY <1>0, <1>b, <2>1, <2>3, <2>5, <3>1 DEF SourceDirs
    <3> QED
      BY <1>1, <3>2
  <2> QED
    BY <2>1, <2>4, <2>5
<1>10. CASE HearsWarning
  <2>1. UNCHANGED <<up, cpc, cdir, taken>> /\ up = <<>> /\ cpc = "reading"
    BY <1>0, <1>10, <1>a, ReaderHears DEF HearsWarning
  <2>2. ~Hears("ok") /\ ~Hears("ok")'
    BY <2>1, Singleton DEF Hears
  <2>3. SourceDirs'
    BY <1>0, <1>b, <1>c, <2>1, <2>2 DEF SourceDirs
  <2> QED
    BY <1>1, <2>3
<1> QED
  BY <1>2, <1>3, <1>4, <1>5, <1>6, <1>7, <1>8, <1>9, <1>10 DEF SourceClient

-----------------------------------------------------------------------------
(* Both directions, and the theorems.                                      *)
PlacesInv == SinkPlaces /\ SourcePlaces

(* All of it holds before anything was said.                               *)
LEMMA PlacesInit == Init => PlacesInv
<1> SUFFICES ASSUME Init PROVE PlacesInv
  OBVIOUS
<1> USE DEF Init, SessionInit, SinkInit, SourceInit
<1>1. SinkPlaces
  BY DEF SinkPlaces, SinkFiles, SinkDirs, SinkSuccess, Landings
<1>2. SourceDirs
  BY DEF SourceDirs
<1>3. SourceSuccess
  BY DEF SourceSuccess
<1> QED
  BY <1>1, <1>2, <1>3 DEF PlacesInv, SourcePlaces

(* A session that breaks off, or whose end the client has heard of, leaves *)
(* everything where it was.                                                *)
LEMMA PlacesWriteBreaks ==
    ASSUME Inv, PlacesInv, WriteBreaks, UNCHANGED <<sink, source>>
    PROVE  PlacesInv'
<1>1. /\ gone' /\ status' = "failure" /\ pc' = "over"
      /\ UNCHANGED <<command, refused, offered, stored, told, frames, tree, taken, work>>
  BY DEF WriteBreaks, End, stream, sink, source
<1>2. Landings' = Landings /\ \A path : Landing(path)' = Landing(path)
  BY <1>1 DEF Landings, Landing
<1>3. SinkPlaces'
  BY <1>1, <1>2 DEF PlacesInv, SinkPlaces, SinkFiles, SinkDirs, SinkSuccess
<1>4. SourcePlaces'
  BY <1>1 DEF PlacesInv, SourcePlaces, SourceDirs, SourceSuccess
<1> QED
  BY <1>3, <1>4 DEF PlacesInv

(* The client leaves a session that is over, and nothing is in flight any  *)
(* more.                                                                   *)
LEMMA PlacesClientLeaves ==
    ASSUME Inv, PlacesInv, ClientLeaves, UNCHANGED <<sink, source>>
    PROVE  PlacesInv'
<1>1. /\ status # "none" /\ cpc' = "over"
      /\ UNCHANGED <<command, gone, up, down, pc, status, refused, file, cdir, cfile,
                     offered, stored, told, frames, tree, taken, work>>
  BY DEF ClientLeaves, stream, server, sink, source
<1>2. pc = "over"
  BY <1>1 DEF Inv, TurnInv, SinkInv, SourceInv, SinkUp, SourceUp
<1>3. Landings' = Landings /\ \A path : Landing(path)' = Landing(path)
  BY <1>1 DEF Landings, Landing
<1>4. SinkSuccess'
  <2>1. command.sink /\ ~gone => up = <<>>
    BY <1>1, <1>2 DEF Inv, TurnInv, SinkInv, SinkTurns, Nobody
  <2>2. command.sink /\ ~gone => ~InFlight
    BY <1>2, <2>1 DEF InFlight
  <2> QED
    BY <1>1, <1>3, <2>2 DEF PlacesInv, SinkPlaces, SinkSuccess
<1>5. SinkFiles' /\ SinkDirs'
  BY <1>1, <1>2, <1>3 DEF PlacesInv, SinkPlaces, SinkFiles, SinkDirs
<1>6. SourcePlaces'
  <2>1. \A f : Comes(work, f)' = Comes(work, f)
    BY <1>1 DEF Comes, Covers
  <2>2. \A item : Context(item)' = Context(item)
    BY DEF Context
  <2>3. (\A i \in 1..Len(work) - 1 : Context(work[i + 1]) = Parent(work[i].path))'
            = (\A i \in 1..Len(work) - 1 : Context(work[i + 1]) = Parent(work[i].path))
    BY <1>1 DEF Context
  <2>4. SourceDirs'
    BY <1>1, <1>2, <2>3 DEF PlacesInv, SourcePlaces, SourceDirs
  <2>5. SourceSuccess'
    BY <1>1, <1>2, <2>1 DEF PlacesInv, SourcePlaces, SourceSuccess
  <2> QED
    BY <2>4, <2>5 DEF SourcePlaces
<1> QED
  BY <1>4, <1>5, <1>6 DEF PlacesInv, SinkPlaces

(* What was on its way when the connection was lost is the first of it, if *)
(* anything.                                                               *)
LEMMA PlacesDrop ==
    ASSUME Inv, PlacesInv, Drop, UNCHANGED <<sink, source>>
    PROVE  PlacesInv'
<1>1. /\ gone'
      /\ UNCHANGED <<command, pc, status, refused, file, offered, stored, told, frames,
                     tree, taken, work>>
      /\ \E n \in 0..Len(up) : up' = SubSeq(up, 1, n)
  BY DEF Drop, server, sink, source
<1>2. Landings' = Landings /\ \A path : Landing(path)' = Landing(path)
  BY <1>1 DEF Landings, Landing
<1>3. up' # <<>> => up # <<>> /\ Head(up') = Head(up)
  <2>1. up \in Seq(Words)
    BY DEF Inv, TypeInv, Typed, StreamTyped
  <2>2. \A S : \A s \in Seq(S) : \A n \in 0..Len(s) :
            SubSeq(s, 1, n) # <<>> => s # <<>> /\ Head(SubSeq(s, 1, n)) = Head(s)
    OBVIOUS
  <2> QED
    BY <1>1, <2>1, <2>2
<1>4. SinkFiles'
  <2>1. \A name : ResolveName(Frame, name)' = ResolveName(Frame, name)
    BY <1>1 DEF ResolveName, Frame
  <2> QED
    BY <1>1, <1>2, <1>3, <2>1 DEF PlacesInv, SinkPlaces, SinkFiles, ResolveName, Frame
<1>5. SinkDirs' /\ SinkSuccess'
  BY <1>1, <1>2 DEF PlacesInv, SinkPlaces, SinkDirs, SinkSuccess
<1>6. SourcePlaces'
  BY <1>1 DEF PlacesInv, SourcePlaces, SourceDirs, SourceSuccess
<1> QED
  BY <1>4, <1>5, <1>6 DEF PlacesInv, SinkPlaces

(* Nothing changes when nothing does.                                      *)
LEMMA PlacesStutter ==
    ASSUME Inv, PlacesInv, UNCHANGED vars
    PROVE  PlacesInv'
<1>1. UNCHANGED <<command, gone, up, down, pc, status, refused, file, cpc, cdir, cfile,
                  offered, stored, told, frames, tree, taken, work>>
  BY DEF vars, session, stream, server, client, sink, source
<1>2. SinkPlaces'
  <2>1. Landings' = Landings /\ \A path : Landing(path)' = Landing(path)
    BY <1>1 DEF Landings, Landing
  <2>2. InFlight' = InFlight
    BY <1>1 DEF InFlight
  <2>3. SinkFiles' /\ SinkSuccess'
    BY <1>1, <2>1, <2>2 DEF PlacesInv, SinkPlaces, SinkFiles, SinkSuccess, ResolveName,
        Frame
  <2>4. SinkDirs'
    BY <1>1, <2>1 DEF PlacesInv, SinkPlaces, SinkDirs
  <2> QED
    BY <2>3, <2>4 DEF SinkPlaces
<1>3. SourceDirs'
  BY <1>1 DEF PlacesInv, SourcePlaces, SourceDirs, Context, Item, IsDirectory, Hears
<1>4. SourceSuccess'
  BY <1>1 DEF PlacesInv, SourcePlaces, SourceSuccess, Comes, Covers
<1> QED
  BY <1>2, <1>3, <1>4 DEF PlacesInv, SourcePlaces

(* Every step keeps what the two ends know of each other's places.         *)
LEMMA PlacesStep ==
    ASSUME ~SkipsRefused, Inv, PlacesInv, [Next]_vars
    PROVE  PlacesInv'
<1>1. command'.sink => SourcePlaces'
  BY DEF SourcePlaces, SourceDirs, SourceSuccess
<1>2. ~command'.sink => SinkPlaces'
  BY DEF SinkPlaces, SinkFiles, SinkDirs, SinkSuccess
<1>3. CASE SinkStep
  <2>1. SinkPlaces'
    BY <1>3, SinkFilesSinkStep, SinkDirsSinkStep, SinkSuccessSinkStep DEF PlacesInv,
        SinkPlaces
  <2> QED
    BY <1>1, <1>3, <2>1, OneDirection DEF PlacesInv
<1>4. CASE SourceStep
  <2>1. SourcePlaces'
    BY <1>4, SourceDirsSourceStep, SourceSuccessSourceStep DEF PlacesInv, SourcePlaces
  <2> QED
    BY <1>2, <1>4, <2>1, OneDirection DEF PlacesInv
<1>5. CASE SinkClient
  BY <1>1, <1>5, SinkPlacesSinkClient, OneDirection DEF PlacesInv
<1>6. CASE SourceClient
  BY <1>2, <1>6, SourcePlacesSourceClient, OneDirection DEF PlacesInv
<1>7. CASE WriteBreaks /\ UNCHANGED <<sink, source>>
  BY <1>7, PlacesWriteBreaks
<1>8. CASE ClientLeaves /\ UNCHANGED <<sink, source>>
  BY <1>8, PlacesClientLeaves
<1>9. CASE Drop /\ UNCHANGED <<sink, source>>
  BY <1>9, PlacesDrop
<1>10. CASE UNCHANGED vars
  BY <1>10, PlacesStutter
<1> QED
  BY <1>3, <1>4, <1>5, <1>6, <1>7, <1>8, <1>9, <1>10 DEF Next, ServerStep, ClientStep

(* The invariant of the places, of sessions with a client that enters the  *)
(* directories it announces, as scp does: what it says of a refused one is *)
(* what scp_sink.go:174-177 relies on.                                     *)
LEMMA PlacesInvariant ==
    ASSUME ~SkipsRefused
    PROVE  Spec => [](Inv /\ PlacesInv)
<1>1. Init => Inv /\ PlacesInv
  BY TypeInvInit, TurnInvInit, PlacesInit DEF Inv
<1>2. Inv /\ PlacesInv /\ [Next]_vars => Inv' /\ PlacesInv'
  BY TypeInvStep, TurnInvStep, PlacesStep DEF Inv
<1> QED
  BY <1>1, <1>2, PTL DEF Spec

(* A file is stored where the client's tree has it, one the client was     *)
(* told is there is, and a download has its files where the server's tree  *)
(* has them: for any tree, any depth, any number of entries and whatever   *)
(* is refused on the way.                                                  *)
THEOREM FilesLand ==
    ASSUME ~SkipsRefused
    PROVE  Spec => []FilesLandWhereSent
<1>1. Inv /\ PlacesInv => FilesLandWhereSent
  <2> SUFFICES ASSUME Inv, PlacesInv PROVE FilesLandWhereSent
    OBVIOUS
  <2>1. ASSUME command.sink, frames # <<>>
        PROVE  /\ stored \subseteq {Landing(path) : path \in offered}
               /\ {Landing(path) : path \in told} \subseteq stored
    BY <2>1 DEF PlacesInv, SinkPlaces, SinkFiles, Landings
  <2>2. ASSUME ~command.sink PROVE taken \subseteq tree.files
    BY <2>2 DEF PlacesInv, SourcePlaces, SourceSuccess
  <2> QED
    BY <2>1, <2>2 DEF FilesLandWhereSent
<1> QED
  BY <1>1, PlacesInvariant, PTL

(* An exit status of success, on a connection that was not lost, means     *)
(* that every file offered is stored where it belongs, and that every file *)
(* of the tree was taken.  It says nothing of directories.                 *)
(* (scp.go: run, fail; scp_sink.go: receiveFile; scp_source.go: sendFile)  *)
THEOREM SuccessTells ==
    ASSUME ~SkipsRefused
    PROVE  Spec => []SuccessIsTrue
<1>1. Inv /\ PlacesInv => SuccessIsTrue
  <2> SUFFICES ASSUME Inv, PlacesInv, status = "success", ~gone PROVE SuccessIsTrue
    BY DEF SuccessIsTrue
  <2>1. ASSUME command.sink, NEW path \in offered PROVE Landing(path) \in stored
    <3>1. pc = "over"
      BY <2>1 DEF Inv, TurnInv, SinkInv, SinkUp
    <3>2. up = <<>>
      BY <2>1, <3>1 DEF Inv, TurnInv, SinkInv, SinkTurns, Nobody
    <3>3. ~InFlight
      BY <3>1, <3>2 DEF InFlight
    <3> QED
      BY <2>1, <3>3 DEF PlacesInv, SinkPlaces, SinkSuccess
  <2>2. ASSUME ~command.sink PROVE taken = tree.files
    <3>1. work = <<>> /\ ~refused /\ pc = "over" /\ taken \subseteq tree.files
      BY <2>2 DEF PlacesInv, SourcePlaces, SourceSuccess
    <3>2. \A f : ~Comes(work, f)
      BY <3>1 DEF Comes
    <3>3. \A f \in tree.files : f \in taken
      BY <2>2, <3>1, <3>2 DEF PlacesInv, SourcePlaces, SourceSuccess
    <3> QED
      BY <3>1, <3>3
  <2> QED
    BY <2>1, <2>2 DEF SuccessIsTrue
<1> QED
  BY <1>1, PlacesInvariant, PTL
=============================================================================
