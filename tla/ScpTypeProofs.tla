--------------------------- MODULE ScpTypeProofs ----------------------------
(***************************************************************************)
(* The types of a session, in the form proofs need: each word of the stream, *)
(* each path and each item is of a set, where Scp's TypeOK says so of what is *)
(* there.  Typed is inductive with InHand, which has that there is a frame *)
(* while lines are read and an item while one is sent.                     *)
(***************************************************************************)
EXTENDS Scp, FiniteSetTheorems, SequenceTheorems, TLAPS

-----------------------------------------------------------------------------
Words ==
    [kind : {"T", "E", "ok", "warn", "data", "nonsense"}]
      \cup [kind : {"C", "D"}, name : Names, size : 0..MaxSize]
OpenFiles == [path : Seq(Names), left : 0..MaxSize, failed : BOOLEAN]

StreamTyped == up \in Seq(Words) /\ down \in Seq(Words)

ServerTyped ==
    /\ command \in Commands
    /\ pc \in {"start", "line", "contents", "walk", "timed", "asked", "closed", "over"}
    /\ refused \in BOOLEAN /\ eof \in BOOLEAN /\ gone \in BOOLEAN
    /\ status \in {"none", "success", "failure"}
    /\ file \in OpenFiles

ClientTyped == cfile \in OpenFiles /\ cdir \in Seq(Names) /\ sent \in 0..MaxEntries

SinkTyped ==
    /\ frames \in Seq([path : Seq(Names), named : BOOLEAN])
    /\ dirs \subseteq Seq(Names) /\ stored \subseteq Seq(Names)
    /\ offered \subseteq Seq(Names) /\ told \subseteq Seq(Names)

SourceTyped ==
    /\ tree \in Trees
    /\ work \in Seq([path : tree.dirs \cup tree.files, ends : BOOLEAN])
    /\ taken \subseteq Seq(Names)

Typed == StreamTyped /\ ServerTyped /\ ClientTyped /\ SinkTyped /\ SourceTyped

\* What the server keeps while it is at it.
InHand ==
    /\ command.sink /\ pc \in {"line", "contents"} => frames # <<>>
    /\ ~command.sink /\ pc \in {"timed", "asked", "contents", "closed"} => work # <<>>

(* The words of the stream are of one of two forms, whichever end says     *)
(* them.                                                                   *)
LEMMA WordsThereAre ==
    /\ \A kind \in {"T", "E", "ok", "warn", "data", "nonsense"} :
          Word(kind) \in Words /\ Word(kind).kind = kind
    /\ \A kind \in {"C", "D"}, name \in Names, size \in 0..MaxSize :
          /\ Header(kind, name, size) \in Words
          /\ Header(kind, name, size).kind = kind
          /\ Header(kind, name, size).name = name
          /\ Header(kind, name, size).size = size
    /\ \A word \in Words :
          /\ word.kind \in {"T", "E", "ok", "warn", "data", "nonsense", "C", "D"}
          /\ word.kind \in {"C", "D"} => word.name \in Names /\ word.size \in 0..MaxSize
BY DEF Words, Word, Header

(* Hearing a word takes it off a stream of words, saying one puts it       *)
(* there.                                                                  *)
LEMMA Hearing ==
    ASSUME up \in Seq(Words), NEW kind, Heard(kind)
    PROVE  /\ up' \in Seq(Words) /\ up # <<>> /\ Head(up) \in Words /\ Head(up) = up[1]
           /\ Head(up).kind = kind
           /\ Len(up') = Len(up) - 1
           /\ \A i \in 1..Len(up') : up'[i] = up[i + 1]
BY DEF Heard

LEMMA CHearing ==
    ASSUME down \in Seq(Words), NEW kind, CHeard(kind)
    PROVE  /\ down' \in Seq(Words) /\ down # <<>> /\ Head(down) \in Words /\ Head(down) = down[1]
           /\ Head(down).kind = kind
           /\ Len(down') = Len(down) - 1
           /\ \A i \in 1..Len(down') : down'[i] = down[i + 1]
BY DEF CHeard

LEMMA Saying ==
    ASSUME down \in Seq(Words), NEW word \in Words, Say(word)
    PROVE  /\ down' \in Seq(Words) /\ Len(down') = Len(down) + 1
           /\ down' # <<>>
           /\ \A i \in 1..Len(down) : down'[i] = down[i]
           /\ down'[Len(down')] = word
BY DEF Say

LEMMA CSaying ==
    ASSUME up \in Seq(Words), NEW word \in Words, CSay(<<word>>)
    PROVE  /\ up' \in Seq(Words) /\ up' # <<>> /\ Len(up') = Len(up) + 1
           /\ up = <<>> => up' = <<word>>
<1>1. <<word>> \in Seq(Words) /\ Len(<<word>>) = 1
  OBVIOUS
<1>2. up' = up \o <<word>>
  BY DEF CSay
<1>3. up' \in Seq(Words) /\ Len(up') = Len(up) + 1
  BY <1>1, <1>2, ConcatProperties
<1>4. up = <<>> => up' = <<word>>
  BY <1>1, <1>2, ConcatEmptySeq
<1> QED
  BY <1>3, <1>4

LEMMA CSayingPieces ==
    ASSUME up \in Seq(Words), NEW n \in Nat, NEW word \in Words,
           CSay(Append(Pieces(n), word))
    PROVE  /\ up' \in Seq(Words) /\ Len(up') = Len(up) + (n + 1)
           /\ up = <<>> => /\ \A i \in 1..n : up'[i] = Word("data")
                           /\ up'[n + 1] = word
<1>1. Pieces(n) \in Seq(Words) /\ Len(Pieces(n)) = n /\ \A i \in 1..n : Pieces(n)[i] = Word("data")
  BY WordsThereAre DEF Pieces
<1>2. Append(Pieces(n), word) \in Seq(Words) /\ Len(Append(Pieces(n), word)) = n + 1
      /\ (\A i \in 1..n : Append(Pieces(n), word)[i] = Word("data"))
      /\ Append(Pieces(n), word)[n + 1] = word
  BY <1>1
<1> DEFINE words == Append(Pieces(n), word)
<1>3. /\ words \in Seq(Words) /\ Len(words) = n + 1
      /\ \A i \in 1..n : words[i] = Word("data")
      /\ words[n + 1] = word
      /\ up' = up \o words
  BY <1>2 DEF CSay
<1> HIDE DEF words
<1>4. up' \in Seq(Words) /\ Len(up') = Len(up) + (n + 1)
  <2>1. up \o words \in Seq(Words) /\ Len(up \o words) = Len(up) + Len(words)
    BY <1>3, ConcatProperties
  <2> QED
    BY <1>3, <2>1
<1>5. up = <<>> => up' = words
  BY <1>3, ConcatEmptySeq
<1> QED
  BY <1>3, <1>4, <1>5

(* The frame the next entry lands in is one, and so is what is made of it. *)
LEMMA FrameTyped ==
    ASSUME frames \in Seq([path : Seq(Names), named : BOOLEAN]), frames # <<>>
    PROVE  /\ Frame.path \in Seq(Names)
           /\ \A name \in Names : ResolveName(Frame, name) \in Seq(Names)
<1> DEFINE Frames == [path : Seq(Names), named : BOOLEAN]
<1>1. \A S : \A s \in Seq(S) : s # <<>> => s[Len(s)] \in S
  OBVIOUS
<1>2. Frame \in Frames
  BY <1>1 DEF Frame
<1> QED
  BY <1>2 DEF ResolveName

(* What the first n of a sequence are.                                     *)
LEMMA FirstOfASeq ==
    \A S : \A s \in Seq(S) : \A n \in 0..Len(s) :
        /\ SubSeq(s, 1, n) \in Seq(S) /\ Len(SubSeq(s, 1, n)) = n
        /\ \A i \in 1..n : SubSeq(s, 1, n)[i] = s[i]
OBVIOUS

LEMMA ElementsOfASeq ==
    \A S : \A s \in Seq(S) : \A i \in DOMAIN s : s[i] \in S
OBVIOUS

LEMMA AllButTheLast ==
    ASSUME NEW S, NEW s \in Seq(S), s # <<>>
    PROVE  /\ SubSeq(s, 1, Len(s) - 1) \in Seq(S)
           /\ Len(SubSeq(s, 1, Len(s) - 1)) = Len(s) - 1
           /\ \A i \in 1..Len(s) - 1 : SubSeq(s, 1, Len(s) - 1)[i] = s[i]
<1>1. Len(s) - 1 \in 0..Len(s)
  OBVIOUS
<1> QED
  BY <1>1, FirstOfASeq

(* Entering a directory adds a frame.                                      *)
LEMMA EnterTyped ==
    ASSUME frames \in Seq([path : Seq(Names), named : BOOLEAN]), NEW name,
           ResolveName(Frame, name) \in Seq(Names), Enter(name)
    PROVE  frames' \in Seq([path : Seq(Names), named : BOOLEAN])
<1> DEFINE Frames == [path : Seq(Names), named : BOOLEAN]
<1>1. [path |-> ResolveName(Frame, name), named |-> TRUE] \in Frames
  OBVIOUS
<1> HIDE DEF Frames
<1>2. \A s \in Seq(Frames), x \in Frames : Append(s, x) \in Seq(Frames)
  OBVIOUS
<1> QED
  BY <1>1, <1>2 DEF Enter, Frames

(* The files an end may have in hand.                                      *)
LEMMA FilesThereAre ==
    /\ \A path \in Seq(Names), n \in 0..MaxSize :
          LET f == [path |-> path, left |-> n, failed |-> FALSE]
          IN  f \in OpenFiles
    /\ \A f \in OpenFiles :
          /\ f.path \in Seq(Names) /\ f.left \in 0..MaxSize /\ f.failed \in BOOLEAN
          /\ f.left > 0 => [f EXCEPT !.left = @ - 1] \in OpenFiles
BY BoundsAssumption DEF OpenFiles

LEMMA PieceTyped ==
    ASSUME NEW f \in OpenFiles, NEW b \in BOOLEAN, f.left > 0
    PROVE  [f EXCEPT !.left = @ - 1, !.failed = b] \in OpenFiles
<1>1. f.left - 1 \in 0..MaxSize
  BY BoundsAssumption DEF OpenFiles
<1> QED
  BY <1>1 DEF OpenFiles

(* Paths, and what is made of them.                                        *)
LEMMA PathsThereAre ==
    /\ <<>> \in Seq(Names)
    /\ \A path \in Seq(Names) :
         /\ \A name \in Names : Append(path, name) \in Seq(Names)
         /\ path # <<>> => Parent(path) \in Seq(Names) /\ path[Len(path)] \in Names
BY DEF Parent

(* What a lost connection leaves of a stream is a stream.                  *)
LEMMA PrefixTyped ==
    \A n \in 0..Len(up) : up \in Seq(Words) => SubSeq(up, 1, n) \in Seq(Words)
OBVIOUS

(* What is sent next is of the tree, and so is what is under it.           *)
LEMMA ItemTyped ==
    ASSUME SourceTyped, work # <<>>
    PROVE  /\ Item.path \in tree.dirs \cup tree.files /\ Item.ends \in BOOLEAN
           /\ Item.path \in Seq(Names)
           /\ Sendable(Item.path) => Item.path # <<>> /\ Name(Item.path) \in Names
<1>1. Item \in [path : tree.dirs \cup tree.files, ends : BOOLEAN]
  BY HeadTailProperties DEF SourceTyped, Item
<1>2. Item.path \in Seq(Names)
  BY <1>1, TreesAssumption DEF SourceTyped
<1>3. Sendable(Item.path) => Item.path # <<>>
  BY <1>1, TreesAssumption DEF SourceTyped, Sendable, IsDirectory
<1>4. Item.path # <<>> => Name(Item.path) \in Names
  BY <1>2 DEF Name
<1> QED
  BY <1>1, <1>2, <1>3, <1>4

LEMMA ChildrenTyped ==
    ASSUME SourceTyped, work # <<>>,
           NEW children \in SetToSeqs(Children(Item.path))
    PROVE  [i \in 1..Len(children) |-> Node(children[i])]
             \o <<EndOf(Item.path)>> \o Tail(work)
             \in Seq([path : tree.dirs \cup tree.files, ends : BOOLEAN])
<1> DEFINE Items == [path : tree.dirs \cup tree.files, ends : BOOLEAN]
<1>1. /\ children \in Seq(Children(Item.path))
      /\ Children(Item.path) \subseteq tree.dirs \cup tree.files
  <2>1. IsFiniteSet(tree.dirs \cup tree.files)
    BY TreesAssumption DEF SourceTyped
  <2>2. Children(Item.path) \subseteq tree.dirs \cup tree.files
    BY DEF Children
  <2>3. Cardinality(Children(Item.path)) \in Nat
    BY <2>1, <2>2, FS_Subset, FS_CardinalityType
  <2>4. children \in [1..Cardinality(Children(Item.path)) -> Children(Item.path)]
    BY DEF SetToSeqs
  <2> QED
    BY <2>2, <2>3, <2>4
<1>2. [i \in 1..Len(children) |-> Node(children[i])] \in Seq(Items)
  BY <1>1 DEF Node
<1>3. <<EndOf(Item.path)>> \in Seq(Items)
  BY ItemTyped DEF EndOf
<1>4. Tail(work) \in Seq(Items)
  BY DEF SourceTyped
<1> HIDE DEF Items
<1>5. [i \in 1..Len(children) |-> Node(children[i])] \o <<EndOf(Item.path)>> \in Seq(Items)
  BY <1>2, <1>3, ConcatProperties
<1> QED
  BY <1>4, <1>5, ConcatProperties DEF Items

(* One lemma for each group of variables and each kind of step that        *)
(* changes it: first the stream,                                           *)
LEMMA StreamTypedSinkStep ==
    ASSUME Typed, InHand, SinkStep, UNCHANGED source
    PROVE  StreamTyped'
<1> USE DEF session, stream, client, server, Typed, StreamTyped, HeardNothing, Ack,
    Fail, End, Goto, Receiving
<1>1. ASSUME NEW isDirectory \in BOOLEAN, ReceiveStarts(isDirectory)
      PROVE  StreamTyped'
  BY <1>1, WordsThereAre, Saying DEF ReceiveStarts
<1>2. CASE ReceiveEnds
  BY <1>2, WordsThereAre, Hearing DEF ReceiveEnds
<1>3. CASE ReceiveNonsense
  BY <1>3, WordsThereAre, Hearing DEF ReceiveNonsense
<1>4. CASE ReceiveTimes
  BY <1>4, WordsThereAre, Hearing, Saying DEF ReceiveTimes
<1>5. CASE FileRefused
  BY <1>5, WordsThereAre, Hearing, Saying DEF FileRefused
<1>6. CASE FileAccepted
  BY <1>6, WordsThereAre, Hearing, Saying DEF FileAccepted
<1>7. CASE ReceivePiece
  BY <1>7, WordsThereAre, Hearing DEF ReceivePiece
<1>8. CASE ReceiveBreaks
  BY <1>8, WordsThereAre, Hearing DEF ReceiveBreaks
<1>9. CASE FileDone
  BY <1>9, WordsThereAre, Hearing, Saying DEF FileDone
<1>10. CASE DirectoryRefused
  BY <1>10, WordsThereAre, Hearing, Saying DEF DirectoryRefused
<1>11. CASE DirectoryAccepted
  BY <1>11, WordsThereAre, Hearing, Saying DEF DirectoryAccepted
<1>12. CASE DirectoryLeft
  BY <1>12, WordsThereAre, Hearing, Saying DEF DirectoryLeft
<1>13. CASE ReceiveRefuses
  BY <1>13 DEF ReceiveRefuses
<1> QED
  BY <1>1, <1>2, <1>3, <1>4, <1>5, <1>6, <1>7, <1>8, <1>9, <1>10, <1>11,
     <1>12, <1>13 DEF SinkStep

LEMMA StreamTypedSourceStep ==
    ASSUME Typed, InHand, SourceStep, UNCHANGED sink
    PROVE  StreamTyped'
<1> USE DEF session, stream, client, server, Typed, StreamTyped, HeardNothing, Ack,
    Fail, End, Goto, Sending, SourceTyped
<1>1. CASE SendStarts
  BY <1>1, WordsThereAre, Hearing, Saying DEF SendStarts
<1>2. CASE SendSkips
  BY <1>2, WordsThereAre, Saying DEF SendSkips
<1>3. CASE SendTimes
  BY <1>3, WordsThereAre, Saying DEF SendTimes
<1>4. CASE SendHeader
  <2>1. work # <<>> /\ Sendable(Item.path)
    BY <1>4 DEF SendHeader
  <2>2. up' \in Seq(Words)
    BY <1>4, Hearing DEF SendHeader
  <2>3. Item.path # <<>> /\ Name(Item.path) \in Names
    BY <2>1, ItemTyped
  <2>4. \E word \in Words : Say(word)
    <3>1. CASE IsDirectory(Item.path)
      BY <1>4, <2>3, <3>1, WordsThereAre, BoundsAssumption DEF SendHeader
    <3>2. CASE ~IsDirectory(Item.path)
      BY <1>4, <2>3, <3>2, WordsThereAre DEF SendHeader
    <3> QED
      BY <3>1, <3>2
  <2> QED
    BY <2>2, <2>4, Saying
<1>5. CASE SendChildren
  BY <1>5, WordsThereAre, Hearing DEF SendChildren
<1>6. CASE SendEndOfDirectory
  BY <1>6, WordsThereAre, Saying DEF SendEndOfDirectory
<1>7. CASE SendFile
  BY <1>7, WordsThereAre, Hearing DEF SendFile
<1>8. CASE SendPiece
  BY <1>8, WordsThereAre, Saying DEF SendPiece
<1>9. CASE SendVerdict
  BY <1>9, WordsThereAre, Saying DEF SendVerdict
<1>10. CASE SendNext
  BY <1>10, WordsThereAre, Hearing DEF SendNext
<1>11. CASE SendBreaks
  BY <1>11, WordsThereAre, Hearing DEF SendBreaks
<1>12. CASE SendEnds \/ SendShort
  BY <1>12 DEF SendEnds, SendShort
<1> QED
  BY <1>1, <1>2, <1>3, <1>4, <1>5, <1>6, <1>7, <1>8, <1>9, <1>10, <1>11,
     <1>12 DEF SourceStep

LEMMA StreamTypedSinkClient ==
    ASSUME Typed, InHand, SinkClient, UNCHANGED source
    PROVE  StreamTyped'
<1> USE DEF session, stream, client, server, Typed, StreamTyped, Uploads, Announces,
    ClientTyped
<1>1. CASE ClientStarts
  BY <1>1, CHearing DEF ClientStarts
<1>2. CASE ClientSkipsFile
  BY <1>2, CHearing DEF ClientSkipsFile
<1>3. CASE ClientCloses
  BY <1>3, WordsThereAre, CSaying DEF ClientCloses
<1>4. CASE ClientSaysTimes
  BY <1>4, WordsThereAre, CSaying DEF ClientSaysTimes
<1>5. ASSUME NEW name \in Names, NEW size \in 0..MaxSize, ClientAnnouncesFile(name, size)
      PROVE  StreamTyped'
  BY <1>5, WordsThereAre, CSaying DEF ClientAnnouncesFile
<1>6. ASSUME NEW verdict \in {"ok", "warn"}, ClientSendsFile(verdict)
      PROVE  StreamTyped'
  <2>1. cfile.left \in Nat
    <3>1. cfile.left \in 0..MaxSize
      BY FilesThereAre
    <3> QED
      BY <3>1, BoundsAssumption
  <2>2. down' \in Seq(Words)
    BY <1>6, CHearing DEF ClientSendsFile
  <2>3. CSay(Append(Pieces(cfile.left), Word(verdict))) /\ Word(verdict) \in Words
    BY <1>6, WordsThereAre DEF ClientSendsFile
  <2> QED
    BY <2>1, <2>2, <2>3, CSayingPieces
<1>7. ASSUME NEW kind \in {"ok", "warn"}, ClientIsAnswered(kind)
      PROVE  StreamTyped'
  BY <1>7, CHearing DEF ClientIsAnswered
<1>8. ASSUME NEW kind \in {"ok", "warn"}, ClientEnters(kind)
      PROVE  StreamTyped'
  BY <1>8, CHearing DEF ClientEnters
<1>9. ASSUME NEW name \in Names, ClientAnnouncesDirectory(name)
      PROVE  StreamTyped'
  BY <1>9, WordsThereAre, CSaying, BoundsAssumption DEF ClientAnnouncesDirectory
<1>10. ASSUME NEW kind \in {"E", "nonsense"}, ClientErrs(kind)
      PROVE  StreamTyped'
  BY <1>10, WordsThereAre, CSaying DEF ClientErrs
<1>11. CASE ClientFinishes
  BY <1>11 DEF ClientFinishes
<1> QED
  BY <1>1, <1>2, <1>3, <1>4, <1>5, <1>6, <1>7, <1>8, <1>9, <1>10, <1>11 DEF SinkClient

LEMMA StreamTypedSourceClient ==
    ASSUME Typed, InHand, SourceClient, UNCHANGED sink
    PROVE  StreamTyped'
<1> USE DEF session, stream, client, server, Typed, StreamTyped, Downloads
<1>1. CASE DownloadStarts
  BY <1>1, WordsThereAre, CSaying DEF DownloadStarts
<1>2. CASE TakesTimes
  BY <1>2, WordsThereAre, CHearing, CSaying DEF TakesTimes
<1>3. CASE TakesDirectory
  BY <1>3, WordsThereAre, CHearing, CSaying DEF TakesDirectory
<1>4. CASE TakesEnd
  BY <1>4, WordsThereAre, CHearing, CSaying DEF TakesEnd
<1>5. CASE TakesFile
  BY <1>5, WordsThereAre, CHearing, CSaying DEF TakesFile
<1>6. CASE TakesPiece
  BY <1>6, CHearing DEF TakesPiece
<1>7. CASE TakesVerdict
  BY <1>7, WordsThereAre, CHearing, CSaying DEF TakesVerdict
<1>8. CASE Declines
  BY <1>8, WordsThereAre, CHearing, CSaying DEF Declines
<1>9. CASE HearsWarning
  BY <1>9, CHearing DEF HearsWarning
<1> QED
  BY <1>1, <1>2, <1>3, <1>4, <1>5, <1>6, <1>7, <1>8, <1>9 DEF SourceClient

(* the locals of the server,                                               *)
LEMMA ServerTypedSinkStep ==
    ASSUME Typed, InHand, SinkStep, UNCHANGED source
    PROVE  ServerTyped'
<1> USE DEF session, stream, client, server, Typed, StreamTyped, ServerTyped, InHand,
    HeardNothing, Ack, Fail, End, Goto, Receiving, SinkTyped
<1>1. ASSUME NEW isDirectory \in BOOLEAN, ReceiveStarts(isDirectory)
      PROVE  ServerTyped'
  BY <1>1 DEF ReceiveStarts
<1>2. CASE FileAccepted
  <2>1. /\ Heard("C") /\ command.sink /\ pc = "line"
        /\ file' = [path |-> ResolveName(Frame, Head(up).name), left |-> Head(up).size,
                    failed |-> FALSE]
    BY <1>2 DEF FileAccepted
  <2>2. Head(up).name \in Names /\ Head(up).size \in 0..MaxSize
    BY <2>1, Hearing, WordsThereAre
  <2>3. ResolveName(Frame, Head(up).name) \in Seq(Names)
    BY <2>1, <2>2, FrameTyped
  <2>4. file' \in OpenFiles
    BY <2>1, <2>2, <2>3, FilesThereAre
  <2> QED
    BY <1>2, <2>4 DEF FileAccepted
<1>3. CASE ReceivePiece
  <2>1. file' \in OpenFiles
    <3>1. PICK failed \in {file.failed, TRUE} :
             file' = [file EXCEPT !.left = @ - 1, !.failed = failed]
      BY <1>3 DEF ReceivePiece
    <3>2. failed \in BOOLEAN /\ file.left > 0
      BY <1>3, FilesThereAre DEF ReceivePiece
    <3> QED
      BY <3>1, <3>2, PieceTyped
  <2> QED
    BY <1>3, <2>1 DEF ReceivePiece
<1>4. CASE ReceiveBreaks
  BY <1>4 DEF ReceiveBreaks
<1>5. CASE FileDone
  BY <1>5 DEF FileDone
<1>6. CASE ReceiveRefuses \/ ReceiveEnds \/ ReceiveNonsense
          \/ ReceiveTimes \/ FileRefused
  BY <1>6 DEF ReceiveRefuses, ReceiveEnds, ReceiveNonsense, ReceiveTimes,
            FileRefused
<1>7. CASE DirectoryRefused \/ DirectoryAccepted \/ DirectoryLeft
  BY <1>7 DEF DirectoryRefused, DirectoryAccepted, DirectoryLeft
<1> QED
  BY <1>1, <1>2, <1>3, <1>4, <1>5, <1>6, <1>7 DEF SinkStep

LEMMA ServerTypedSourceStep ==
    ASSUME Typed, InHand, SourceStep, UNCHANGED sink
    PROVE  ServerTyped'
<1> USE DEF session, stream, client, server, Typed, StreamTyped, ServerTyped, InHand,
    HeardNothing, Ack, Fail, End, Goto, Sending
<1>1. CASE SendHeader
  BY <1>1, FilesThereAre, ItemTyped DEF SendHeader
<1>2. CASE SendPiece
  BY <1>2, FilesThereAre DEF SendPiece
<1>3. CASE SendBreaks
  BY <1>3 DEF SendBreaks
<1>4. CASE SendStarts \/ SendEnds \/ SendSkips \/ SendTimes \/ SendChildren
  BY <1>4 DEF SendStarts, SendEnds, SendSkips, SendTimes, SendChildren
<1>5. CASE SendEndOfDirectory \/ SendFile \/ SendShort \/ SendVerdict
          \/ SendNext
  BY <1>5 DEF SendEndOfDirectory, SendFile, SendShort, SendVerdict, SendNext
<1> QED
  BY <1>1, <1>2, <1>3, <1>4, <1>5 DEF SourceStep

(* those of the client,                                                    *)
LEMMA ClientTypedSinkClient ==
    ASSUME Typed, InHand, SinkClient, UNCHANGED source
    PROVE  ClientTyped'
<1> USE DEF session, stream, client, server, sink, Typed, StreamTyped, ClientTyped,
    Target, CGoto, AnnouncesEntry, MayAnnounce, Uploads, Announces
<1>1. CASE ClientCloses
  BY <1>1, FilesThereAre, PathsThereAre, BoundsAssumption DEF ClientCloses
<1>2. ASSUME NEW name \in Names, NEW size \in 0..MaxSize, ClientAnnouncesFile(name, size)
      PROVE  ClientTyped'
  <2>1. Append(cdir, name) \in Seq(Names)
    BY PathsThereAre
  <2>2. cfile' \in OpenFiles /\ cdir' \in Seq(Names)
    BY <1>2, <2>1, FilesThereAre DEF ClientAnnouncesFile
  <2>3. sent' \in 0..MaxEntries
    BY <1>2, BoundsAssumption DEF ClientAnnouncesFile
  <2> QED
    BY <2>2, <2>3
<1>3. ASSUME NEW verdict \in {"ok", "warn"}, ClientSendsFile(verdict)
      PROVE  ClientTyped'
  BY <1>3 DEF ClientSendsFile
<1>4. ASSUME NEW kind \in {"ok", "warn"}, ClientIsAnswered(kind)
      PROVE  ClientTyped'
  BY <1>4 DEF ClientIsAnswered
<1>5. ASSUME NEW kind \in {"ok", "warn"}, ClientEnters(kind)
      PROVE  ClientTyped'
  BY <1>5, FilesThereAre, PathsThereAre, BoundsAssumption DEF ClientEnters
<1>6. ASSUME NEW name \in Names, ClientAnnouncesDirectory(name)
      PROVE  ClientTyped'
  <2>1. Append(cdir, name) \in Seq(Names) /\ 0 \in 0..MaxSize
    BY PathsThereAre, BoundsAssumption
  <2>2. cfile' \in OpenFiles /\ cdir' \in Seq(Names)
    BY <1>6, <2>1, FilesThereAre DEF ClientAnnouncesDirectory
  <2>3. sent' \in 0..MaxEntries
    BY <1>6, BoundsAssumption DEF ClientAnnouncesDirectory
  <2> QED
    BY <2>2, <2>3
<1>7. ASSUME NEW kind \in {"E", "nonsense"}, ClientErrs(kind)
      PROVE  ClientTyped'
  BY <1>7 DEF ClientErrs
<1>8. CASE ClientStarts \/ ClientSkipsFile \/ ClientSaysTimes
          \/ ClientFinishes
  BY <1>8 DEF ClientStarts, ClientSkipsFile, ClientSaysTimes, ClientFinishes
<1> QED
  BY <1>1, <1>2, <1>3, <1>4, <1>5, <1>6, <1>7, <1>8 DEF SinkClient

LEMMA ClientTypedSourceClient ==
    ASSUME Typed, InHand, SourceClient, UNCHANGED sink
    PROVE  ClientTyped'
<1> USE DEF session, stream, client, server, sink, Typed, StreamTyped, ClientTyped,
    Target, CGoto, AnnouncesEntry, MayAnnounce, Downloads
<1>1. CASE TakesDirectory
  <2>1. Head(down).name \in Names
    BY <1>1, CHearing, WordsThereAre DEF TakesDirectory
  <2>2. Append(cdir, Head(down).name) \in Seq(Names)
    BY <2>1, PathsThereAre
  <2>3. cdir' \in Seq(Names)
    BY <1>1, <2>2 DEF TakesDirectory
  <2> QED
    BY <1>1, <2>3 DEF TakesDirectory
<1>2. CASE TakesEnd
  BY <1>2, FilesThereAre, PathsThereAre, BoundsAssumption DEF TakesEnd
<1>3. CASE TakesFile
  <2>1. Head(down).name \in Names /\ Head(down).size \in 0..MaxSize
    BY <1>3, CHearing, WordsThereAre DEF TakesFile
  <2>2. Append(cdir, Head(down).name) \in Seq(Names)
    BY <2>1, PathsThereAre
  <2>3. cfile' \in OpenFiles
    BY <1>3, <2>1, <2>2, FilesThereAre DEF TakesFile
  <2> QED
    BY <1>3, <2>3 DEF TakesFile
<1>4. CASE TakesPiece
  BY <1>4, FilesThereAre, PathsThereAre, BoundsAssumption DEF TakesPiece
<1>5. CASE DownloadStarts \/ TakesTimes \/ TakesVerdict \/ Declines
          \/ HearsWarning
  BY <1>5 DEF DownloadStarts, TakesTimes, TakesVerdict, Declines, HearsWarning
<1> QED
  BY <1>1, <1>2, <1>3, <1>4, <1>5 DEF SourceClient

(* what the sink stores and the client offers,                             *)
LEMMA SinkTypedSinkStep ==
    ASSUME Typed, InHand, SinkStep, UNCHANGED source
    PROVE  SinkTyped'
<1> USE DEF sink, Typed, StreamTyped, ServerTyped, ClientTyped, SinkTyped, InHand,
    Target, Enter, Receiving
<1>1. ASSUME NEW isDirectory \in BOOLEAN, ReceiveStarts(isDirectory)
      PROVE  SinkTyped'
  <2>1. frames' \in Seq([path : Seq(Names), named : BOOLEAN])
    <3>1. frames' = <<[path |-> <<>>, named |-> isDirectory]>>
      BY <1>1 DEF ReceiveStarts
    <3>2. [path |-> <<>>, named |-> isDirectory] \in [path : Seq(Names), named : BOOLEAN]
      BY PathsThereAre
    <3>3. \A S : \A x \in S : <<x>> \in Seq(S)
      OBVIOUS
    <3> QED
      BY <3>1, <3>2, <3>3
  <2>2. dirs' \subseteq Seq(Names)
    BY <1>1, PathsThereAre DEF ReceiveStarts
  <2> QED
    BY <1>1, <2>1, <2>2 DEF ReceiveStarts
<1>2. CASE FileDone
  BY <1>2, FilesThereAre DEF FileDone
<1>3. CASE DirectoryRefused
  <2>1. Heard("D") /\ command.sink /\ pc = "line" /\ Enter(Head(up).name)
    BY <1>3 DEF DirectoryRefused
  <2>2. Head(up).name \in Names
    <3>1. Head(up) \in Words /\ Head(up).kind = "D"
      BY <2>1, Hearing
    <3> QED
      BY <3>1, WordsThereAre
  <2>3. ResolveName(Frame, Head(up).name) \in Seq(Names)
    BY <2>1, <2>2, FrameTyped
  <2>4. frames' \in Seq([path : Seq(Names), named : BOOLEAN])
    BY <2>1, <2>3, EnterTyped
  <2>5. dirs' \subseteq Seq(Names)
    BY <1>3 DEF DirectoryRefused
  <2> QED
    BY <1>3, <2>4, <2>5 DEF DirectoryRefused
<1>4. CASE DirectoryAccepted
  <2>1. Heard("D") /\ command.sink /\ pc = "line" /\ Enter(Head(up).name)
    BY <1>4 DEF DirectoryAccepted
  <2>2. Head(up).name \in Names
    <3>1. Head(up) \in Words /\ Head(up).kind = "D"
      BY <2>1, Hearing
    <3> QED
      BY <3>1, WordsThereAre
  <2>3. ResolveName(Frame, Head(up).name) \in Seq(Names)
    BY <2>1, <2>2, FrameTyped
  <2>4. frames' \in Seq([path : Seq(Names), named : BOOLEAN])
    BY <2>1, <2>3, EnterTyped
  <2>5. dirs' \subseteq Seq(Names)
    BY <1>4, <2>3 DEF DirectoryAccepted
  <2> QED
    BY <1>4, <2>4, <2>5 DEF DirectoryAccepted
<1>5. CASE DirectoryLeft
  <2>1. frames' = SubSeq(frames, 1, Len(frames) - 1) /\ Len(frames) > 1
    BY <1>5 DEF DirectoryLeft
  <2>2. frames' \in Seq([path : Seq(Names), named : BOOLEAN])
    <3>1. frames # <<>> /\ frames \in Seq([path : Seq(Names), named : BOOLEAN])
      BY <2>1
    <3> QED
      BY <2>1, <3>1, AllButTheLast
  <2> QED
    BY <1>5, <2>2 DEF DirectoryLeft
<1>6. CASE ReceiveRefuses \/ ReceiveEnds \/ ReceiveNonsense
          \/ ReceiveTimes \/ FileRefused
  BY <1>6 DEF ReceiveRefuses, ReceiveEnds, ReceiveNonsense, ReceiveTimes,
            FileRefused
<1>7. CASE FileAccepted \/ ReceivePiece \/ ReceiveBreaks
  BY <1>7 DEF FileAccepted, ReceivePiece, ReceiveBreaks
<1> QED
  BY <1>1, <1>2, <1>3, <1>4, <1>5, <1>6, <1>7 DEF SinkStep

LEMMA SinkTypedSinkClient ==
    ASSUME Typed, InHand, SinkClient, UNCHANGED source
    PROVE  SinkTyped'
<1> USE DEF sink, Typed, StreamTyped, ServerTyped, ClientTyped, SinkTyped, InHand,
    Target, Uploads, Announces
<1>1. ASSUME NEW name \in Names, NEW size \in 0..MaxSize, ClientAnnouncesFile(name, size)
      PROVE  SinkTyped'
  BY <1>1, PathsThereAre DEF ClientAnnouncesFile
<1>2. ASSUME NEW verdict \in {"ok", "warn"}, ClientSendsFile(verdict)
      PROVE  SinkTyped'
  BY <1>2 DEF ClientSendsFile
<1>3. ASSUME NEW kind \in {"ok", "warn"}, ClientIsAnswered(kind)
      PROVE  SinkTyped'
  BY <1>3, FilesThereAre DEF ClientIsAnswered
<1>4. ASSUME NEW kind \in {"ok", "warn"}, ClientEnters(kind)
      PROVE  SinkTyped'
  BY <1>4 DEF ClientEnters
<1>5. ASSUME NEW name \in Names, ClientAnnouncesDirectory(name)
      PROVE  SinkTyped'
  BY <1>5 DEF ClientAnnouncesDirectory
<1>6. ASSUME NEW kind \in {"E", "nonsense"}, ClientErrs(kind)
      PROVE  SinkTyped'
  BY <1>6 DEF ClientErrs
<1>7. CASE ClientStarts \/ ClientSkipsFile \/ ClientCloses
          \/ ClientSaysTimes \/ ClientFinishes
  BY <1>7 DEF ClientStarts, ClientSkipsFile, ClientCloses, ClientSaysTimes,
            ClientFinishes
<1> QED
  BY <1>1, <1>2, <1>3, <1>4, <1>5, <1>6, <1>7 DEF SinkClient

(* and what the source has left to send.                                   *)
LEMMA SourceTypedSourceStep ==
    ASSUME Typed, InHand, SourceStep, UNCHANGED sink
    PROVE  SourceTyped'
<1> USE DEF source, Typed, ClientTyped, SourceTyped, InHand, Node, EndOf, Sending
<1>1. CASE SendStarts
  <2>1. tree.top \in tree.dirs \cup tree.files
    BY TreesAssumption
  <2>2. <<Node(tree.top)>> \in Seq([path : tree.dirs \cup tree.files, ends : BOOLEAN])
    <3>1. Node(tree.top) \in [path : tree.dirs \cup tree.files, ends : BOOLEAN]
      BY <2>1
    <3>2. \A S : \A x \in S : <<x>> \in Seq(S)
      OBVIOUS
    <3> QED
      BY <3>1, <3>2
  <2> QED
    BY <1>1, <2>2 DEF SendStarts
<1>2. CASE SendSkips
  BY <1>2 DEF SendSkips
<1>3. CASE SendChildren
  BY <1>3, ChildrenTyped DEF SendChildren
<1>4. CASE SendNext
  BY <1>4 DEF SendNext
<1>5. CASE SendEnds \/ SendTimes \/ SendHeader \/ SendEndOfDirectory
          \/ SendFile
  BY <1>5 DEF SendEnds, SendTimes, SendHeader, SendEndOfDirectory, SendFile
<1>6. CASE SendPiece \/ SendShort \/ SendVerdict \/ SendBreaks
  BY <1>6 DEF SendPiece, SendShort, SendVerdict, SendBreaks
<1> QED
  BY <1>1, <1>2, <1>3, <1>4, <1>5, <1>6 DEF SourceStep

LEMMA SourceTypedSourceClient ==
    ASSUME Typed, InHand, SourceClient, UNCHANGED sink
    PROVE  SourceTyped'
<1> USE DEF source, Typed, ClientTyped, SourceTyped, InHand, Node, EndOf, Downloads
<1>1. CASE TakesVerdict
  BY <1>1, FilesThereAre DEF TakesVerdict
<1>2. CASE DownloadStarts \/ TakesTimes \/ TakesDirectory \/ TakesEnd
          \/ TakesFile
  BY <1>2 DEF DownloadStarts, TakesTimes, TakesDirectory, TakesEnd, TakesFile
<1>3. CASE TakesPiece \/ Declines \/ HearsWarning
  BY <1>3 DEF TakesPiece, Declines, HearsWarning
<1> QED
  BY <1>1, <1>2, <1>3 DEF SourceClient

(* There is a frame while a line is read, and an item while one is sent.   *)
LEMMA InHandSinkStep ==
    ASSUME Typed, InHand, SinkStep, UNCHANGED source
    PROVE  InHand'
<1> USE DEF Typed, ServerTyped, SinkTyped, InHand, session, stream, client, server,
    sink, source, HeardNothing, End, Goto, Receiving, Ack, Fail, Enter
<1>1. ASSUME NEW isDirectory \in BOOLEAN, ReceiveStarts(isDirectory)
      PROVE  InHand'
  BY <1>1 DEF ReceiveStarts
<1>2. CASE DirectoryLeft
  <2>1. frames' = SubSeq(frames, 1, Len(frames) - 1) /\ Len(frames) > 1
    BY <1>2 DEF DirectoryLeft
  <2>2. frames # <<>> /\ frames \in Seq([path : Seq(Names), named : BOOLEAN])
    BY <2>1
  <2>3. Len(frames') > 0
    BY <2>1, <2>2, AllButTheLast
  <2>4. frames' # <<>>
    BY <2>3
  <2> QED
    BY <1>2, <2>4 DEF DirectoryLeft
<1>3. CASE ReceiveRefuses \/ ReceiveEnds \/ ReceiveNonsense
          \/ ReceiveTimes \/ FileRefused
  BY <1>3 DEF ReceiveRefuses, ReceiveEnds, ReceiveNonsense, ReceiveTimes,
            FileRefused
<1>4. CASE FileAccepted \/ ReceivePiece \/ ReceiveBreaks \/ FileDone
          \/ DirectoryRefused
  BY <1>4 DEF FileAccepted, ReceivePiece, ReceiveBreaks, FileDone,
            DirectoryRefused
<1>5. CASE DirectoryAccepted
  BY <1>5 DEF DirectoryAccepted
<1> QED
  BY <1>1, <1>2, <1>3, <1>4, <1>5 DEF SinkStep

LEMMA InHandSourceStep ==
    ASSUME Typed, InHand, SourceStep, UNCHANGED sink
    PROVE  InHand'
<1> USE DEF Typed, ServerTyped, SinkTyped, InHand, session, stream, client, server,
    sink, source, End, Goto, Sending, Ack, Fail
<1>1. CASE SendStarts \/ SendEnds \/ SendSkips \/ SendTimes \/ SendHeader
  BY <1>1 DEF SendStarts, SendEnds, SendSkips, SendTimes, SendHeader
<1>2. CASE SendChildren \/ SendEndOfDirectory \/ SendFile \/ SendPiece
          \/ SendShort
  BY <1>2 DEF SendChildren, SendEndOfDirectory, SendFile, SendPiece, SendShort
<1>3. CASE SendVerdict \/ SendNext \/ SendBreaks
  BY <1>3 DEF SendVerdict, SendNext, SendBreaks
<1> QED
  BY <1>1, <1>2, <1>3 DEF SourceStep

LEMMA InHandSinkClient ==
    ASSUME InHand, SinkClient, UNCHANGED source
    PROVE  InHand'
<1>1. UNCHANGED <<command, pc, frames, work>>
  BY DEF Uploads, Announces, SinkClient, server, source, sink, ClientStarts,
      ClientSkipsFile, ClientCloses, ClientSaysTimes, ClientFinishes,
      ClientAnnouncesFile, ClientSendsFile, ClientIsAnswered, ClientEnters,
      ClientAnnouncesDirectory, ClientErrs
<1> QED
  BY <1>1 DEF InHand

LEMMA InHandSourceClient ==
    ASSUME InHand, SourceClient, UNCHANGED sink
    PROVE  InHand'
<1>1. UNCHANGED <<command, pc, frames, work>>
  BY DEF Downloads, SourceClient, server, source, sink, DownloadStarts, TakesTimes,
      TakesDirectory, TakesEnd, TakesFile, TakesPiece, TakesVerdict, Declines, HearsWarning
<1> QED
  BY <1>1 DEF InHand

(* What each kind of step leaves alone.                                    *)
LEMMA SinkStepSpares ==
    ASSUME SinkStep
    PROVE  UNCHANGED <<command, client, sent, eof, gone>>
BY DEF SinkStep, Receiving, sink, stream,
   ReceiveStarts, ReceiveRefuses, ReceiveEnds, ReceiveNonsense,
   ReceiveTimes, FileRefused, FileAccepted, ReceivePiece, ReceiveBreaks,
   FileDone, DirectoryRefused, DirectoryAccepted, DirectoryLeft

LEMMA SourceStepSpares ==
    ASSUME SourceStep
    PROVE  UNCHANGED <<command, client, eof, gone>>
BY DEF SourceStep, Sending, source,
   SendStarts, SendEnds, SendSkips, SendTimes, SendHeader, SendChildren,
   SendEndOfDirectory, SendFile, SendPiece, SendShort, SendVerdict,
   SendNext, SendBreaks

LEMMA SinkClientSpares ==
    ASSUME SinkClient
    PROVE  UNCHANGED <<command, server, gone>> /\ eof' \in {eof, TRUE}
BY DEF SinkClient, Uploads, Announces, sink,
   ClientStarts, ClientSkipsFile, ClientCloses, ClientSaysTimes,
   ClientFinishes, ClientAnnouncesFile, ClientSendsFile, ClientIsAnswered,
   ClientEnters, ClientAnnouncesDirectory, ClientErrs

LEMMA SourceClientSpares ==
    ASSUME SourceClient
    PROVE  UNCHANGED <<command, server, gone, eof>>
BY DEF SourceClient, Downloads, source,
   DownloadStarts, TakesTimes, TakesDirectory, TakesEnd, TakesFile,
   TakesPiece, TakesVerdict, Declines, HearsWarning

TypeInv == Typed /\ InHand

(* The two together are inductive.                                         *)
LEMMA TypeInvInit == Init => TypeInv
<1> SUFFICES ASSUME Init PROVE TypeInv
  OBVIOUS
<1> USE DEF Init, SessionInit, SinkInit, SourceInit
<1>1. StreamTyped
  BY DEF StreamTyped
<1>2. ServerTyped /\ ClientTyped
  <2>1. NoFile \in OpenFiles /\ Target \in Seq(Names) /\ 0 \in 0..MaxEntries
    <3>1. 0 \in 0..MaxSize /\ 0 \in 0..MaxEntries
      BY BoundsAssumption
    <3> QED
      BY <3>1, FilesThereAre, PathsThereAre DEF NoFile, Target
  <2> QED
    BY <2>1 DEF ServerTyped, ClientTyped
<1>3. SinkTyped /\ SourceTyped
  BY DEF SinkTyped, SourceTyped
<1> QED
  BY <1>1, <1>2, <1>3 DEF TypeInv, Typed, InHand

LEMMA TypeInvStep == TypeInv /\ [Next]_vars => TypeInv'
<1> SUFFICES ASSUME Typed, InHand, [Next]_vars PROVE Typed' /\ InHand'
  BY DEF TypeInv
<1> USE DEF Typed
<1>1. CASE SinkStep /\ UNCHANGED source
  <2>1. ClientTyped' /\ SourceTyped'
    <3>1. UNCHANGED <<client, sent>>
      BY <1>1, SinkStepSpares
    <3> QED
      BY <1>1, <3>1 DEF ClientTyped, SourceTyped, client, source
  <2> QED
    BY <1>1, <2>1, StreamTypedSinkStep, ServerTypedSinkStep, SinkTypedSinkStep,
        InHandSinkStep
<1>2. CASE SourceStep /\ UNCHANGED sink
  <2>1. ClientTyped' /\ SinkTyped'
    <3>1. UNCHANGED client
      BY <1>2, SourceStepSpares
    <3> QED
      BY <1>2, <3>1 DEF ClientTyped, SinkTyped, client, sink
  <2> QED
    BY <1>2, <2>1, StreamTypedSourceStep, ServerTypedSourceStep, SourceTypedSourceStep,
       InHandSourceStep
<1>3. CASE SinkClient /\ UNCHANGED source
  <2>1. ServerTyped' /\ SourceTyped'
    <3>1. UNCHANGED <<command, server, gone>> /\ eof' \in {eof, TRUE}
      BY <1>3, SinkClientSpares
    <3> QED
      BY <1>3, <3>1 DEF ServerTyped, SourceTyped, server, source
  <2> QED
    BY <1>3, <2>1, StreamTypedSinkClient, ClientTypedSinkClient, SinkTypedSinkClient,
       InHandSinkClient
<1>4. CASE SourceClient /\ UNCHANGED sink
  <2>1. ServerTyped' /\ SinkTyped'
    <3>1. UNCHANGED <<command, server, gone, eof>>
      BY <1>4, SourceClientSpares
    <3> QED
      BY <1>4, <3>1 DEF ServerTyped, SinkTyped, server, sink
  <2> QED
    BY <1>4, <2>1, StreamTypedSourceClient, ClientTypedSourceClient,
        SourceTypedSourceClient,
       InHandSourceClient
<1>5. CASE WriteBreaks /\ UNCHANGED <<sink, source>>
  BY <1>5 DEF WriteBreaks, End, StreamTyped, ServerTyped, ClientTyped, SinkTyped,
      SourceTyped,
              InHand, stream, client, sink, source
<1>6. CASE ClientLeaves /\ UNCHANGED <<sink, source>>
  BY <1>6 DEF ClientLeaves, StreamTyped, ServerTyped, ClientTyped, SinkTyped, SourceTyped,
              InHand, stream, server, sink, source
<1>7. CASE Drop /\ UNCHANGED <<sink, source>>
  <2>1. StreamTyped'
    BY <1>7, PrefixTyped DEF Drop, StreamTyped
  <2> QED
    BY <1>7, <2>1 DEF Drop, ServerTyped, ClientTyped, SinkTyped, SourceTyped,
                      InHand, server, sink, source
<1>8. CASE UNCHANGED vars
  BY <1>8 DEF vars, session, StreamTyped, ServerTyped, ClientTyped, SinkTyped, SourceTyped,
              InHand, stream, client, server, sink, source
<1> QED
  BY <1>1, <1>2, <1>3, <1>4, <1>5, <1>6, <1>7, <1>8 DEF Next, ServerStep, ClientStep

(* Every variable of a session has its type, for any names, any bounds and *)
(* any trees that are trees.                                               *)
THEOREM TypeCorrect == Spec => []TypeOK
<1>1. TypeInv => TypeOK
  <2> SUFFICES ASSUME TypeInv PROVE TypeOK
    OBVIOUS
  <2> USE DEF TypeInv, Typed
  <2>1. \A word \in Words : IsWord(word)
    BY WordsThereAre DEF IsWord, Lines, Answers
  <2>2. (\A i \in DOMAIN up : IsWord(up[i])) /\ (\A i \in DOMAIN down : IsWord(down[i]))
    BY <2>1 DEF StreamTyped
  <2>3. IsFile(file) /\ IsFile(cfile)
    BY DEF ServerTyped, ClientTyped, IsFile, IsPath, OpenFiles
  <2>4. \A i \in DOMAIN work : IsPath(work[i].path) /\ work[i].ends \in BOOLEAN
    <3>1. tree.dirs \cup tree.files \subseteq Seq(Names)
      BY TreesAssumption DEF SourceTyped
    <3>2. \A i \in DOMAIN work : work[i] \in [path : tree.dirs \cup tree.files, ends : BOOLEAN]
      BY ElementsOfASeq DEF SourceTyped
    <3> QED
      BY <3>1, <3>2 DEF IsPath
  <2>5. \A i \in DOMAIN frames : IsPath(frames[i].path) /\ frames[i].named \in BOOLEAN
    <3>1. \A i \in DOMAIN frames : frames[i] \in [path : Seq(Names), named : BOOLEAN]
      BY ElementsOfASeq DEF SinkTyped
    <3> QED
      BY <3>1 DEF IsPath
  <2>6. IsPath(cdir) /\ \A path \in dirs \cup stored \cup offered \cup told \cup taken : IsPath(path)
    BY DEF ClientTyped, SinkTyped, SourceTyped, IsPath
  <2> QED
    BY <2>2, <2>3, <2>4, <2>5, <2>6 DEF TypeOK, ServerTyped, ClientTyped, SourceTyped
<1> QED
  BY <1>1, TypeInvInit, TypeInvStep, PTL DEF Spec
=============================================================================
