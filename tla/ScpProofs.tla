----------------------------- MODULE ScpProofs ------------------------------
(***************************************************************************)
(* The taking of turns, for any names, any trees and any bounds: neither end *)
(* loses its place in the stream, and they do not wait for each other.  For *)
(* each direction, what the server is doing and what the client is doing, in *)
(* each of their states, together determine what may be on its way between *)
(* them:                                                                   *)
(*   SinkUp, SourceUp        what was said to the server, whether or not the *)
(*                           connection is still there;                    *)
(*   SinkTurns, SourceTurns  while it is, which pairs of states there are and *)
(*                           what is in both streams.                      *)
(* A session has one direction, so that either half is of no concern to the *)
(* steps of the other.                                                     *)
(***************************************************************************)
EXTENDS ScpTypeProofs

-----------------------------------------------------------------------------
(* An upload.                                                              *)
Nobody == up = <<>> /\ down = <<>>

Run(s, kind) == \A i \in 1..Len(s) : s[i].kind = kind
RunThen(s, kind, word) ==
    s # <<>> /\ s[Len(s)] = word /\ \A i \in 1..Len(s) - 1 : s[i].kind = kind

\* Sink.  What has been said to the server, whoever lost the connection since
SinkUp ==
    command.sink =>
    /\ pc \in {"start", "line", "contents", "over"}
    /\ pc = "start" => up = <<>> /\ down = <<>>
    /\ pc = "line" => up = <<>> \/ (Len(up) = 1 /\ up[1].kind \in Lines \cup {"nonsense"})
    /\ pc = "contents" =>
         /\ Len(up) <= file.left + 1
         /\ \A i \in 1..Len(up) :
              up[i].kind \in (IF i <= file.left THEN {"data"} ELSE Answers)
    /\ status = "none" <=> pc # "over"
    /\ gone => cpc = "over"

Said(word) == up = <<word>> /\ down = <<>>
Answered(kinds) == up = <<>> /\ \E kind \in kinds : down = <<Word(kind)>>

SinkTurns ==
    command.sink /\ ~gone =>
    /\ cpc \in {"greeting", "free", "timed", "times", "said", "file", "sent", "directory", "over"}
    /\ cpc = "greeting" =>
         \/ pc \in {"start", "over"} /\ Nobody
         \/ pc = "line" /\ Answered({"ok"})
    /\ cpc \in {"free", "timed"} => pc = "line" /\ Nobody
    /\ cpc \in {"times", "said"} =>
         \/ pc = "line" /\ Answered({"ok"})
         \/ pc = "line" /\ \E kind \in {"T", "E", "nonsense"} : Said(Word(kind))
         \/ pc = "over" /\ Nobody
    /\ cpc = "file" =>
         \/ pc = "line" /\ \E name \in Names : Said(Header("C", name, cfile.left))
         \/ pc = "contents" /\ file.left = cfile.left /\ Answered({"ok"})
         \/ pc = "line" /\ Answered({"warn"})
    /\ cpc = "sent" =>
         \/ pc = "contents" /\ down = <<>> /\ Len(up) = file.left + 1
         \/ pc = "line" /\ Answered(Answers)
         \/ pc = "over" /\ Nobody
    /\ cpc = "directory" =>
         \/ pc = "line" /\ \E name \in Names : Said(Header("D", name, 0))
         \/ pc = "line" /\ Answered(Answers)
    /\ cpc = "over" => Nobody /\ (pc = "over" \/ (eof /\ pc = "line"))
    /\ eof => cpc = "over"

Awaits(word) == up = <<>> /\ RunThen(down, "warn", word)
Hears(kind) == down = <<>> /\ up = <<Word(kind)>>

SourceUp ==
    ~command.sink =>
    /\ pc \in {"start", "walk", "timed", "asked", "contents", "closed", "over"}
    /\ pc \in {"walk", "contents"} => up = <<>>
    /\ up # <<>> => Len(up) = 1 /\ up[1].kind \in Answers
    /\ status = "none" <=> pc # "over"
    /\ gone => cpc = "over"
    /\ ~eof

ItemHeader ==
    IF IsDirectory(Item.path) THEN Header("D", Name(Item.path), 0)
    ELSE Header("C", Name(Item.path), file.left)

SourceTurns ==
    ~command.sink /\ ~gone =>
    /\ cpc \in {"greeting", "reading", "taking", "over"}
    /\ cpc = "over" => pc = "over"
    /\ cpc = "greeting" => pc = "start"
    /\ pc = "start" => \/ cpc = "greeting" /\ Nobody
                       \/ cpc = "reading" /\ Hears("ok")
    /\ pc = "walk" => cpc = "reading" /\ up = <<>> /\ Run(down, "warn")
    /\ pc = "timed" => cpc = "reading" /\ (Hears("ok") \/ Awaits(Word("T")))
    /\ pc = "asked" =>
         \/ cpc = "reading" /\ Awaits(ItemHeader)
         \/ cpc = "reading" /\ Hears("warn")
         \/ cpc = "reading" /\ Hears("ok") /\ IsDirectory(Item.path)
         \/ cpc = "taking" /\ Hears("ok") /\ ~IsDirectory(Item.path)
              /\ cfile.left = file.left
    /\ pc = "contents" =>
         /\ cpc = "taking" /\ up = <<>> /\ Run(down, "data")
         /\ Len(down) + file.left = cfile.left
    /\ pc = "closed" =>
         \/ cpc = "taking" /\ up = <<>> /\ RunThen(down, "data", Word("ok"))
              /\ Len(down) = cfile.left + 1
         \/ cpc = "reading" /\ Awaits(Word("E"))
         \/ cpc = "reading" /\ (Hears("ok") \/ Hears("warn"))
    /\ pc = "over" =>
         \/ cpc = "reading" /\ up = <<>> /\ Run(down, "warn")
         \/ cpc = "taking" /\ up = <<>> /\ Run(down, "data") /\ Len(down) <= cfile.left
         \/ cpc = "over"

(* A stream of one word, heard and said.                                   *)
LEMMA Singleton ==
    \A x : Head(<<x>>) = x /\ Tail(<<x>>) = <<>> /\ <<x>> # <<>> /\ Len(<<x>>) = 1
OBVIOUS

LEMMA OneHeard ==
    ASSUME NEW word, NEW kind
    PROVE  /\ up = <<word>> => up # <<>> /\ Head(up) = word /\ Len(up) = 1 /\ up[1] = word
           /\ up = <<word>> /\ Heard(kind) => word.kind = kind /\ up' = <<>>
           /\ down = <<word>> => down # <<>> /\ Head(down) = word
           /\ down = <<word>> /\ CHeard(kind) => word.kind = kind /\ down' = <<>>
<1>1. up = <<word>> => up # <<>> /\ Head(up) = word /\ Len(up) = 1 /\ up[1] = word /\ Tail(up) = <<>>
  BY Singleton
<1>2. down = <<word>> => down # <<>> /\ Head(down) = word /\ Tail(down) = <<>>
  BY Singleton
<1> QED
  BY <1>1, <1>2 DEF Heard, CHeard

LEMMA OneSaid ==
    ASSUME NEW word \in Words
    PROVE  /\ down = <<>> /\ Say(word) => down' = <<word>>
           /\ up = <<>> /\ CSay(<<word>>) => up' = <<word>>
<1>1. up = <<>> /\ CSay(<<word>>) => up' = <<word>>
  <2>1. <<word>> \in Seq(Words)
    OBVIOUS
  <2> QED
    BY <2>1, ConcatEmptySeq DEF CSay
<1>2. down = <<>> /\ Say(word) => down' = <<word>>
  BY DEF Say
<1> QED
  BY <1>1, <1>2

(* The last word of a stream leaves none.                                  *)
LEMMA LastHeard ==
    ASSUME up \in Seq(Words), Len(up) = 1, NEW kind, Heard(kind)
    PROVE  up' = <<>> /\ up[1].kind = kind
BY DEF Heard

SinkInv == SinkUp /\ SinkTurns

(* What the client finds when it is free to speak.                        *)
LEMMA ClientIsFree ==
    ASSUME TypeInv, SinkInv, command.sink, cpc \in {"free", "timed"}
    PROVE  ~gone /\ ~eof /\ pc = "line" /\ up = <<>> /\ down = <<>> /\ status = "none"
BY DEF SinkInv, SinkUp, SinkTurns, Nobody, TypeInv, Typed, ServerTyped

(* A file that is accepted is as long as the client said.                  *)
LEMMA FileAcceptedLeft ==
    ASSUME TypeInv, FileAccepted
    PROVE  file'.left \in 0..MaxSize
<1>1. Heard("C") /\ file'.left = Head(up).size
  BY DEF FileAccepted, Receiving
<1>2. Head(up) \in Words /\ Head(up).kind = "C"
  BY <1>1, Hearing DEF TypeInv, Typed, StreamTyped
<1> QED
  BY <1>1, <1>2, WordsThereAre

(* And what an answer tells it of the server.                              *)
LEMMA ClientIsTold ==
    ASSUME TypeInv, SinkInv, command.sink, NEW kind, CHeard(kind),
           cpc \in {"greeting", "times", "said", "file", "sent", "directory"}
    PROVE  /\ ~gone /\ ~eof /\ up = <<>> /\ down = <<Word(kind)>> /\ down' = <<>> /\ status = "none"
           /\ cpc # "file" => pc = "line"
           /\ cpc = "file" => \/ kind = "ok" /\ pc = "contents" /\ file.left = cfile.left
                              \/ kind = "warn" /\ pc = "line"
<1> USE DEF SinkInv, SinkTurns
<1>1. ~gone /\ ~eof /\ down # <<>>
  BY DEF SinkUp, CHeard, TypeInv, Typed, ServerTyped
<1>2. Answered(Answers) /\ (pc = "contents" => cpc = "file")
  BY <1>1 DEF Answered, Answers, Said, Nobody
<1>3. PICK k \in Answers : down = <<Word(k)>>
  BY <1>2 DEF Answered
<1>4. k = kind /\ down' = <<>>
  BY <1>3, OneHeard, WordsThereAre DEF Answers
<1>5. cpc # "file" => pc = "line"
  BY <1>1 DEF Said, Nobody
<1>6. cpc = "file" => \/ kind = "ok" /\ pc = "contents" /\ file.left = cfile.left
                      \/ kind = "warn" /\ pc = "line"
  <2>1. \A m \in Answers : down = <<Word(m)>> => m = kind
    BY OneHeard, WordsThereAre DEF Answers
  <2> QED
    BY <1>1, <2>1 DEF Answered, Said, Answers
<1>7. status = "none"
  BY <1>5, <1>6 DEF SinkUp
<1> QED
  BY <1>1, <1>2, <1>3, <1>4, <1>5, <1>6, <1>7 DEF Answered

(* What a line tells the server of the client, unless the client is lost.  *)
LEMMA ServerIsTold ==
    ASSUME TypeInv, SinkInv, command.sink, pc = "line", NEW kind, Heard(kind)
    PROVE  /\ up' = <<>> /\ kind \in Lines \cup {"nonsense"} /\ status = "none"
           /\ ~gone => /\ down = <<>> /\ ~eof
                       /\ kind = "C" => cpc = "file" /\ Head(up).size = cfile.left
                       /\ kind = "D" => cpc = "directory"
                       /\ kind \in {"T", "E", "nonsense"} => cpc \in {"times", "said"}
<1> USE DEF SinkInv
<1>1. up # <<>> /\ Len(up) = 1 /\ up[1].kind \in Lines \cup {"nonsense"} /\ status = "none"
  BY DEF SinkUp, Heard
<1>2. up' = <<>> /\ up[1].kind = kind
  BY <1>1, LastHeard DEF TypeInv, Typed, StreamTyped
<1>3. ASSUME ~gone
      PROVE  /\ down = <<>> /\ ~eof
             /\ \/ cpc \in {"times", "said"} /\ \E k \in {"T", "E", "nonsense"} : up = <<Word(k)>>
                \/ cpc = "file" /\ \E name \in Names : up = <<Header("C", name, cfile.left)>>
                \/ cpc = "directory" /\ \E name \in Names : up = <<Header("D", name, 0)>>
  BY <1>1, <1>3 DEF SinkTurns, Said, Answered, Nobody, TypeInv, Typed, ServerTyped
<1>4. 0 \in 0..MaxSize /\ cfile.left \in 0..MaxSize
  <2>1. 0 \in 0..MaxSize
    BY BoundsAssumption
  <2> QED
    BY <2>1, FilesThereAre DEF TypeInv, Typed, ClientTyped
<1>5. ASSUME ~gone
      PROVE  /\ kind = "C" => cpc = "file" /\ Head(up).size = cfile.left
             /\ kind = "D" => cpc = "directory"
             /\ kind \in {"T", "E", "nonsense"} => cpc \in {"times", "said"}
  <2>1. CASE \E k \in {"T", "E", "nonsense"} : cpc \in {"times", "said"} /\ up = <<Word(k)>>
    BY <2>1, OneHeard, WordsThereAre
  <2>2. CASE \E name \in Names : cpc = "file" /\ up = <<Header("C", name, cfile.left)>>
    BY <2>2, <1>4, OneHeard, WordsThereAre
  <2>3. CASE \E name \in Names : cpc = "directory" /\ up = <<Header("D", name, 0)>>
    BY <2>3, <1>4, OneHeard, WordsThereAre
  <2> QED
    BY <1>3, <1>5, <2>1, <2>2, <2>3
<1> QED
  BY <1>1, <1>2, <1>3, <1>5

(* And what a piece of contents, or the verdict on it, tells.              *)
LEMMA ServerIsSent ==
    ASSUME TypeInv, SinkInv, command.sink, pc = "contents", NEW kind, Heard(kind)
    PROVE  /\ status = "none"
           /\ ~gone => cpc = "sent" /\ down = <<>> /\ ~eof /\ Len(up) = file.left + 1
           /\ file.left = 0 => up' = <<>>
<1> USE DEF SinkInv
<1>1. up # <<>> /\ Len(up) <= file.left + 1 /\ status = "none"
  BY DEF SinkUp, Heard
<1>2. ~gone => cpc = "sent" /\ down = <<>> /\ ~eof /\ Len(up) = file.left + 1
  BY <1>1 DEF SinkTurns, Said, Answered, Nobody, TypeInv, Typed, ServerTyped
<1>3. file.left = 0 => Len(up) = 1
  <2>1. up \in Seq(Words)
    BY DEF TypeInv, Typed, StreamTyped
  <2>2. Len(up) \in Nat /\ Len(up) # 0
    BY <1>1, <2>1
  <2>3. ASSUME file.left = 0 PROVE Len(up) <= 1
    <3>1. file.left + 1 = 1
      BY <2>3
    <3> QED
      BY <1>1, <3>1
  <2> QED
    BY <2>2, <2>3
<1> QED
  BY <1>1, <1>2, <1>3, LastHeard DEF TypeInv, Typed, StreamTyped

(* The ways in which the server hands the turn back: with an answer, or by *)
(* ending the session.                                                     *)
LEMMA ServerAnswers ==
    ASSUME command.sink, UNCHANGED <<command, eof, gone, client>>, NEW kind \in Answers,
           up' = <<>>, ~gone => down' = <<Word(kind)>>, pc' = "line",
           ~gone => /\ ~eof
                    /\ cpc \in {"greeting", "times", "said", "file", "sent", "directory"}
                    /\ kind = "warn" => cpc \in {"file", "sent", "directory"}
                    /\ kind = "ok" => cpc # "file"
    PROVE  SinkTurns'
BY DEF SinkTurns, Answered, Answers, Nobody, Said, client

(* A session that ends says nothing more.                                  *)
LEMMA ServerEnds ==
    ASSUME command.sink, UNCHANGED <<command, eof, gone, client>>, pc' = "over",
           ~gone => /\ up' = <<>> /\ down' = <<>> /\ (eof => cpc = "over")
                    /\ cpc \in {"greeting", "times", "said", "sent", "over"}
    PROVE  SinkTurns'
BY DEF SinkTurns, Answered, Nobody, Said, client

(* The turns of an upload, as the server takes them: every line is         *)
(* answered once.                                                          *)
LEMMA SinkTurnsSinkStep ==
    ASSUME TypeInv, SinkInv, SinkStep, UNCHANGED source
    PROVE  SinkTurns'
<1> USE DEF stream, client, server, Receiving, Answers
<1>0. down \in Seq(Words) /\ Word("ok") \in Words /\ Word("warn") \in Words
  BY WordsThereAre DEF TypeInv, Typed, StreamTyped
<1>1. ASSUME NEW isDirectory \in BOOLEAN, ReceiveStarts(isDirectory)
      PROVE  SinkTurns'
  <2>1. up = <<>> /\ down = <<>> /\ (~gone => cpc = "greeting" /\ ~eof)
    BY <1>1 DEF ReceiveStarts, SinkInv, SinkUp, SinkTurns, Said, Answered, Nobody,
                TypeInv, Typed, ServerTyped
  <2>2. down' = <<Word("ok")>>
    BY <1>0, <1>1, <2>1, OneSaid DEF ReceiveStarts, Ack
  <2> QED
    BY <1>1, <2>1, <2>2, ServerAnswers DEF ReceiveStarts, Goto
<1>2. CASE ReceiveRefuses
  <2>1. up = <<>> /\ down = <<>> /\ (~gone => cpc = "greeting" /\ ~eof)
    BY <1>2 DEF ReceiveRefuses, SinkInv, SinkUp, SinkTurns, Said, Answered, Nobody,
                TypeInv, Typed, ServerTyped
  <2> QED
    BY <1>2, <2>1, ServerEnds DEF ReceiveRefuses, End
<1>3. CASE ReceiveEnds
  <2>1. ~gone => cpc = "over" /\ up' = <<>> /\ down' = <<>>
    BY <1>3 DEF ReceiveEnds, HeardNothing, SinkInv, SinkTurns, Nobody
  <2> QED
    BY <1>3, <2>1, ServerEnds DEF ReceiveEnds, End
<1>4. CASE ReceiveNonsense
  <2>1. PICK kind \in {"nonsense", "E"} : Heard(kind) /\ command.sink /\ pc = "line"
    BY <1>4 DEF ReceiveNonsense
  <2>2. up' = <<>> /\ (~gone => down = <<>> /\ ~eof /\ cpc \in {"times", "said"})
    BY <2>1, ServerIsTold
  <2> QED
    BY <1>4, <2>1, <2>2, ServerEnds DEF ReceiveNonsense, End
<1>5. CASE ReceiveTimes
  <2>1. up' = <<>> /\ (~gone => down = <<>> /\ ~eof /\ cpc \in {"times", "said"})
    BY <1>5, ServerIsTold DEF ReceiveTimes
  <2>2. ~gone => down' = <<Word("ok")>>
    BY <1>0, <1>5, <2>1, OneSaid DEF ReceiveTimes, Ack
  <2> QED
    BY <1>5, <2>1, <2>2, ServerAnswers DEF ReceiveTimes
<1>6. CASE FileRefused
  <2>1. up' = <<>> /\ (~gone => down = <<>> /\ ~eof /\ cpc = "file")
    BY <1>6, ServerIsTold DEF FileRefused
  <2>2. ~gone => down' = <<Word("warn")>>
    BY <1>0, <1>6, <2>1, OneSaid DEF FileRefused, Fail
  <2> QED
    BY <1>6, <2>1, <2>2, ServerAnswers DEF FileRefused
<1>7. CASE FileAccepted
  <2>1. up' = <<>> /\ (~gone => down = <<>> /\ ~eof /\ cpc = "file" /\ Head(up).size = cfile.left)
    BY <1>7, ServerIsTold DEF FileAccepted
  <2>2. ~gone => down' = <<Word("ok")>>
    BY <1>0, <1>7, <2>1, OneSaid DEF FileAccepted, Ack
  <2>3. file'.left = Head(up).size /\ pc' = "contents" /\ UNCHANGED <<command, eof, gone, client>>
    BY <1>7 DEF FileAccepted, Goto
  <2> QED
    BY <2>1, <2>2, <2>3 DEF SinkTurns, Answered
<1>8. CASE ReceivePiece
  <2>1. ~gone => cpc = "sent" /\ down' = <<>> /\ ~eof /\ Len(up) = file.left + 1
    BY <1>8, ServerIsSent DEF ReceivePiece
  <2>2. file'.left = file.left - 1 /\ pc' = pc /\ UNCHANGED <<command, eof, gone, client>>
    BY <1>8 DEF ReceivePiece, TypeInv, Typed, ServerTyped, OpenFiles
  <2>3. Len(up') = Len(up) - 1
    BY <1>8, Hearing DEF ReceivePiece, TypeInv, Typed, StreamTyped
  <2>4. file.left \in Int
    BY BoundsAssumption DEF TypeInv, Typed, ServerTyped, OpenFiles
  <2>5. ~gone => Len(up') = file'.left + 1
    BY <2>1, <2>2, <2>3, <2>4
  <2>6. pc = "contents"
    BY <1>8 DEF ReceivePiece
  <2> QED
    BY <2>1, <2>2, <2>5, <2>6 DEF SinkTurns
<1>9. CASE ReceiveBreaks
  <2>1. CASE HeardNothing
    <3>1. gone
      BY <1>9, <2>1 DEF ReceiveBreaks, HeardNothing, SinkInv, SinkTurns, Nobody,
                        Said, Answered, TypeInv, Typed, ServerTyped
    <3> QED
      BY <1>9, <3>1 DEF ReceiveBreaks, SinkTurns
  <2>2. CASE file.left = 0 /\ Heard("warn")
    <3>1. up' = <<>> /\ (~gone => cpc = "sent" /\ down = <<>> /\ ~eof)
      BY <1>9, <2>2, ServerIsSent DEF ReceiveBreaks
    <3> QED
      BY <1>9, <3>1, ServerEnds DEF ReceiveBreaks, End
  <2> QED
    BY <1>9, <2>1, <2>2 DEF ReceiveBreaks
<1>10. CASE FileDone
  <2>1. up' = <<>> /\ (~gone => cpc = "sent" /\ down = <<>> /\ ~eof)
    BY <1>10, ServerIsSent DEF FileDone
  <2>2. \E kind \in Answers : ~gone => down' = <<Word(kind)>>
    BY <1>0, <1>10, <2>1, OneSaid DEF FileDone, Ack, Fail
  <2> QED
    BY <1>10, <2>1, <2>2, ServerAnswers DEF FileDone, Goto
<1>11. CASE DirectoryRefused
  <2>1. up' = <<>> /\ (~gone => down = <<>> /\ ~eof /\ cpc = "directory")
    BY <1>11, ServerIsTold DEF DirectoryRefused
  <2>2. ~gone => down' = <<Word("warn")>>
    BY <1>0, <1>11, <2>1, OneSaid DEF DirectoryRefused, Fail
  <2> QED
    BY <1>11, <2>1, <2>2, ServerAnswers DEF DirectoryRefused
<1>12. CASE DirectoryAccepted
  <2>1. up' = <<>> /\ (~gone => down = <<>> /\ ~eof /\ cpc = "directory")
    BY <1>12, ServerIsTold DEF DirectoryAccepted
  <2>2. ~gone => down' = <<Word("ok")>>
    BY <1>0, <1>12, <2>1, OneSaid DEF DirectoryAccepted, Ack
  <2> QED
    BY <1>12, <2>1, <2>2, ServerAnswers DEF DirectoryAccepted
<1>13. CASE DirectoryLeft
  <2>1. up' = <<>> /\ (~gone => down = <<>> /\ ~eof /\ cpc \in {"times", "said"})
    BY <1>13, ServerIsTold DEF DirectoryLeft
  <2>2. ~gone => down' = <<Word("ok")>>
    BY <1>0, <1>13, <2>1, OneSaid DEF DirectoryLeft, Ack
  <2> QED
    BY <1>13, <2>1, <2>2, ServerAnswers DEF DirectoryLeft
<1> QED
  BY <1>1, <1>2, <1>3, <1>4, <1>5, <1>6, <1>7, <1>8, <1>9, <1>10, <1>11, <1>12, <1>13
  DEF SinkStep

(* The server hears no more of what it has heard.                          *)
LEMMA SinkUpSinkStep ==
    ASSUME TypeInv, SinkInv, SinkStep, UNCHANGED source
    PROVE  SinkUp'
<1> USE DEF Receiving, client
<1>0. command.sink /\ UNCHANGED <<command, gone, client>> /\ (gone => cpc = "over") /\ pc # "over"
  <2>1. command.sink /\ UNCHANGED <<command, gone, client>> /\ pc # "over"
    BY DEF SinkStep, ReceiveStarts, ReceiveRefuses, ReceiveEnds, ReceiveNonsense,
           ReceiveTimes, FileRefused, FileAccepted, ReceivePiece, ReceiveBreaks, FileDone,
           DirectoryRefused, DirectoryAccepted, DirectoryLeft, stream
  <2> QED
    BY <2>1 DEF SinkInv, SinkUp
<1>1. ASSUME NEW isDirectory \in BOOLEAN, ReceiveStarts(isDirectory)
      PROVE  SinkUp'
  BY <1>0, <1>1 DEF ReceiveStarts, Goto, SinkInv, SinkUp
<1>2. CASE ReceiveRefuses
  BY <1>0, <1>2 DEF ReceiveRefuses, End, SinkUp
<1>3. CASE ReceiveEnds
  BY <1>0, <1>3 DEF ReceiveEnds, End, SinkUp
<1>4. CASE ReceiveNonsense
  BY <1>0, <1>4 DEF ReceiveNonsense, End, SinkUp
<1>5. CASE \/ ReceiveTimes \/ FileRefused \/ DirectoryRefused
           \/ DirectoryAccepted \/ DirectoryLeft
  <2>1. pc = "line" /\ pc' = pc /\ status' = status /\ \E kind \in Lines : Heard(kind)
    BY <1>5 DEF ReceiveTimes, FileRefused, DirectoryRefused, DirectoryAccepted,
                DirectoryLeft, Lines
  <2>2. up' = <<>> /\ status = "none"
    BY <1>0, <2>1, ServerIsTold
  <2> QED
    BY <1>0, <2>1, <2>2 DEF SinkUp
<1>6. CASE FileAccepted
  <2>1. up' = <<>> /\ status = "none" /\ Len(up') = 0
    BY <1>6, ServerIsTold DEF FileAccepted
  <2>2. pc' = "contents" /\ status' = status
    BY <1>6 DEF FileAccepted, Goto
  <2>3. file'.left \in 0..MaxSize
    BY <1>6, FileAcceptedLeft
  <2>4. Len(up') <= file'.left + 1
    BY <2>1, <2>3, BoundsAssumption
  <2> QED
    BY <1>0, <2>1, <2>2, <2>4 DEF SinkUp
<1>7. CASE ReceivePiece
  <2>1. /\ Heard("data") /\ pc = "contents" /\ pc' = pc /\ status' = status
        /\ file.left > 0 /\ file'.left = file.left - 1
    BY <1>7 DEF ReceivePiece, TypeInv, Typed, ServerTyped, OpenFiles
  <2>2. file.left \in Int /\ up \in Seq(Words)
    BY BoundsAssumption DEF TypeInv, Typed, ServerTyped, StreamTyped, OpenFiles
  <2>3. /\ Len(up) <= file.left + 1
        /\ \A i \in 1..Len(up) :
              up[i].kind \in (IF i <= file.left THEN {"data"} ELSE Answers)
    BY <1>0, <2>1 DEF SinkInv, SinkUp
  <2>4. Len(up') = Len(up) - 1 /\ \A i \in 1..Len(up') : up'[i] = up[i + 1]
    BY <2>1, <2>2, Hearing
  <2>5. Len(up') <= file'.left + 1
    BY <2>1, <2>2, <2>3, <2>4
  <2>6. \A i \in 1..Len(up') :
           up'[i].kind \in (IF i <= file'.left THEN {"data"} ELSE Answers)
    BY <2>1, <2>2, <2>3, <2>4
  <2>7. status = "none"
    BY <1>0, <2>1 DEF SinkInv, SinkUp
  <2> QED
    BY <1>0, <2>1, <2>5, <2>6, <2>7 DEF SinkUp
<1>8. CASE ReceiveBreaks
  BY <1>0, <1>8 DEF ReceiveBreaks, End, SinkUp
<1>9. CASE FileDone
  <2>1. up' = <<>> /\ status = "none"
    BY <1>9, ServerIsSent DEF FileDone
  <2> QED
    BY <1>0, <1>9, <2>1 DEF FileDone, Goto, SinkUp
<1> QED
  BY <1>1, <1>2, <1>3, <1>4, <1>5, <1>6, <1>7, <1>8, <1>9 DEF SinkStep

(* What the client says when it is free is all there is to be heard.       *)
LEMMA ClientAnnounces ==
    ASSUME TypeInv, SinkInv, command.sink, cpc \in {"free", "timed"},
           NEW word \in Words, Announces(word), word.kind \in Lines \cup {"nonsense"},
           \/ cpc' \in {"times", "said"} /\ word.kind \in {"T", "E", "nonsense"}
           \/ cpc' = "file" /\ \E name \in Names : word = Header("C", name, cfile'.left)
           \/ cpc' = "directory" /\ \E name \in Names : word = Header("D", name, 0)
    PROVE  SinkInv'
<1>1. ~gone /\ ~eof /\ pc = "line" /\ up = <<>> /\ down = <<>> /\ status = "none"
  BY ClientIsFree
<1>2. /\ up' = <<word>> /\ down' = down
      /\ UNCHANGED <<command, eof, gone, pc, status, file>>
  BY <1>1, OneSaid DEF Announces, server
<1>3. SinkUp'
  BY <1>1, <1>2, OneHeard DEF SinkUp
<1>4. word.kind \in {"T", "E", "nonsense"} => word = Word(word.kind)
  BY DEF Words, Word
<1>5. SinkTurns'
  BY <1>1, <1>2, <1>4 DEF SinkTurns, Said
<1> QED
  BY <1>3, <1>5 DEF SinkInv

(* Once it has its answer it is free again, or goes on with the contents.  *)
LEMMA SinkInvSinkClient ==
    ASSUME TypeInv, SinkInv, SinkClient, UNCHANGED source
    PROVE  SinkInv'
<1> USE DEF Lines
<1>1. ASSUME NEW state, NEW kind, Uploads(state, kind), UNCHANGED <<up, cfile>>,
             state \in {"greeting", "times", "said", "sent", "directory"} \/ kind = "warn",
             state \in {"greeting", "times", "said", "file", "sent", "directory"},
             cpc' \in {"free", "timed"}
      PROVE  SinkInv'
  <2>1. command.sink /\ cpc = state /\ CHeard(kind)
        /\ UNCHANGED <<command, eof, gone, pc, status, file>>
    BY <1>1 DEF Uploads, server
  <2>2. /\ ~gone /\ ~eof /\ up = <<>> /\ down' = <<>> /\ status = "none"
        /\ pc = "line"
    BY <1>1, <2>1, ClientIsTold
  <2>3. SinkUp'
    BY <1>1, <2>1, <2>2 DEF SinkUp
  <2>4. SinkTurns'
    BY <1>1, <2>1, <2>2 DEF SinkTurns, Nobody
  <2> QED
    BY <2>3, <2>4 DEF SinkInv
<1>2. CASE ClientStarts
  <2>1. PICK state \in {"greeting", "said", "times"} : Uploads(state, "ok")
    BY <1>2 DEF ClientStarts
  <2> QED
    BY <1>1, <1>2, <2>1 DEF ClientStarts, CGoto
<1>3. CASE ClientSkipsFile
  BY <1>1, <1>3 DEF ClientSkipsFile, CGoto
<1>4. ASSUME NEW kind \in {"ok", "warn"}, ClientIsAnswered(kind)
      PROVE  SinkInv'
  BY <1>1, <1>4 DEF ClientIsAnswered, CGoto
<1>5. ASSUME NEW kind \in {"ok", "warn"}, ClientEnters(kind)
      PROVE  SinkInv'
  BY <1>1, <1>5 DEF ClientEnters
<1>6. CASE ClientCloses
  BY <1>6, ClientAnnounces, WordsThereAre DEF ClientCloses, Announces
<1>7. CASE ClientSaysTimes
  BY <1>7, ClientAnnounces, WordsThereAre DEF ClientSaysTimes, Announces, CGoto
<1>8. ASSUME NEW kind \in {"E", "nonsense"}, ClientErrs(kind)
      PROVE  SinkInv'
  BY <1>8, ClientAnnounces, WordsThereAre DEF ClientErrs, Announces, CGoto
<1>9. ASSUME NEW name \in Names, NEW size \in 0..MaxSize, ClientAnnouncesFile(name, size)
      PROVE  SinkInv'
  <2>1. command.sink /\ cpc \in {"free", "timed"} /\ Announces(Header("C", name, size))
    BY <1>9 DEF ClientAnnouncesFile, Announces, AnnouncesEntry
  <2>2. cpc' = "file" /\ cfile'.left = size
    BY <1>9 DEF ClientAnnouncesFile
  <2>3. Header("C", name, size) \in Words /\ Header("C", name, size).kind = "C"
    BY WordsThereAre
  <2> QED
    BY <2>1, <2>2, <2>3, ClientAnnounces
<1>10. ASSUME NEW name \in Names, ClientAnnouncesDirectory(name)
      PROVE  SinkInv'
  <2>1. command.sink /\ cpc \in {"free", "timed"} /\ Announces(Header("D", name, 0))
    BY <1>10 DEF ClientAnnouncesDirectory, Announces, AnnouncesEntry
  <2>2. cpc' = "directory" /\ 0 \in 0..MaxSize
    BY <1>10, BoundsAssumption DEF ClientAnnouncesDirectory
  <2>3. Header("D", name, 0) \in Words /\ Header("D", name, 0).kind = "D"
    BY <2>2, WordsThereAre
  <2> QED
    BY <2>1, <2>2, <2>3, ClientAnnounces
<1>11. ASSUME NEW verdict \in {"ok", "warn"}, ClientSendsFile(verdict)
      PROVE  SinkInv'
  <2>1. /\ command.sink /\ cpc = "file" /\ CHeard("ok") /\ cpc' = "sent"
        /\ CSay(Append(Pieces(cfile.left), Word(verdict)))
        /\ UNCHANGED <<command, eof, gone, pc, status, file, cfile>>
    BY <1>11 DEF ClientSendsFile, Uploads, CGoto, server
  <2>2. /\ ~gone /\ ~eof /\ up = <<>> /\ down' = <<>> /\ status = "none"
        /\ pc = "contents" /\ file.left = cfile.left
    BY <2>1, ClientIsTold
  <2>3. file.left \in Nat /\ Word(verdict) \in Words /\ up \in Seq(Words)
    <3>1. file.left \in 0..MaxSize
      BY FilesThereAre DEF TypeInv, Typed, ServerTyped
    <3> QED
      BY <3>1, BoundsAssumption, WordsThereAre DEF TypeInv, Typed, StreamTyped
  <2>4. /\ Len(up') = Len(up) + (file.left + 1)
        /\ \A i \in 1..file.left : up'[i] = Word("data")
        /\ up'[file.left + 1] = Word(verdict)
    BY <2>1, <2>2, <2>3, CSayingPieces
  <2>5. Len(up') = file.left + 1
    BY <2>2, <2>3, <2>4
  <2>6. \A i \in 1..Len(up') :
           up'[i].kind \in (IF i <= file.left THEN {"data"} ELSE Answers)
    BY <2>3, <2>4, <2>5, WordsThereAre DEF Answers
  <2>7. SinkUp'
    BY <2>1, <2>2, <2>3, <2>5, <2>6 DEF SinkUp
  <2>8. SinkTurns'
    BY <2>1, <2>2, <2>5 DEF SinkTurns
  <2> QED
    BY <2>7, <2>8 DEF SinkInv
<1>12. CASE ClientFinishes
  <2>1. /\ command.sink /\ cpc = "free" /\ eof' = TRUE /\ cpc' = "over"
        /\ UNCHANGED <<command, up, down, gone, pc, status, file, cfile>>
    BY <1>12 DEF ClientFinishes, CGoto, server
  <2>2. ~gone /\ pc = "line" /\ up = <<>> /\ down = <<>> /\ status = "none"
    BY <2>1, ClientIsFree
  <2> QED
    BY <2>1, <2>2 DEF SinkInv, SinkUp, SinkTurns, Nobody
<1> QED
  BY <1>2, <1>3, <1>4, <1>5, <1>6, <1>7, <1>8, <1>9, <1>10, <1>11, <1>12 DEF SinkClient

-----------------------------------------------------------------------------
(* A download.                                                             *)
(* A run of words of one kind, and one with a word of another kind behind. *)
LEMMA RunSaid ==
    ASSUME down \in Seq(Words), NEW kind, Run(down, kind), NEW word \in Words, Say(word)
    PROVE  /\ word.kind = kind => Run(down', kind)
           /\ RunThen(down', kind, word)
           /\ Len(down') = Len(down) + 1
<1>1. /\ Len(down') = Len(down) + 1 /\ Len(down) \in Nat /\ down' # <<>>
      /\ \A i \in 1..Len(down) : down'[i] = down[i]
      /\ down'[Len(down')] = word
  BY Saying
<1>2. \A i \in 1..Len(down) : down'[i].kind = kind
  BY <1>1 DEF Run
<1>3. \A i \in 1..Len(down') : i \in 1..Len(down) \/ i = Len(down')
  BY <1>1
<1>4. word.kind = kind => Run(down', kind)
  BY <1>1, <1>2, <1>3 DEF Run
<1>5. RunThen(down', kind, word)
  BY <1>1, <1>2 DEF RunThen
<1> QED
  BY <1>1, <1>4, <1>5

(* The first of a run is of it, and the rest is a run.                     *)
LEMMA RunHeard ==
    ASSUME down \in Seq(Words), NEW kind, Run(down, kind), NEW heard, CHeard(heard)
    PROVE  heard = kind /\ Run(down', kind) /\ Len(down') = Len(down) - 1
<1>1. /\ down' \in Seq(Words) /\ down # <<>> /\ down[1].kind = heard
      /\ Len(down') = Len(down) - 1 /\ Len(down) \in Nat
      /\ \A i \in 1..Len(down') : down'[i] = down[i + 1]
  BY CHearing
<1>2. 1 \in 1..Len(down)
  BY <1>1
<1>3. \A i \in 1..Len(down') : i + 1 \in 1..Len(down)
  BY <1>1
<1> QED
  BY <1>1, <1>2, <1>3 DEF Run

LEMMA RunThenHeard ==
    ASSUME down \in Seq(Words), NEW kind, NEW word, RunThen(down, kind, word),
           word.kind # kind, NEW heard, CHeard(heard)
    PROVE  /\ heard \in {kind, word.kind}
           /\ heard = kind => RunThen(down', kind, word) /\ Len(down') = Len(down) - 1
           /\ heard # kind => down' = <<>> /\ Head(down) = word /\ Len(down) = 1
<1>1. /\ down' \in Seq(Words) /\ down # <<>> /\ down[1].kind = heard /\ Head(down) = down[1]
      /\ Len(down') = Len(down) - 1 /\ Len(down) \in Nat
      /\ \A i \in 1..Len(down') : down'[i] = down[i + 1]
  BY CHearing
<1>2. down[Len(down)] = word /\ \A i \in 1..Len(down) - 1 : down[i].kind = kind
  BY DEF RunThen
<1>3. CASE Len(down) = 1
  <2>1. down' = <<>>
    BY <1>1, <1>3
  <2> QED
    BY <1>1, <1>2, <1>3, <2>1
<1>4. CASE Len(down) > 1
  <2>1. heard = kind
    BY <1>1, <1>2, <1>4
  <2>2. down' # <<>> /\ down'[Len(down')] = word
    BY <1>1, <1>2, <1>4
  <2>3. \A i \in 1..Len(down') - 1 : down'[i].kind = kind
    BY <1>1, <1>2, <1>4
  <2> QED
    BY <1>1, <2>1, <2>2, <2>3 DEF RunThen
<1> QED
  BY <1>1, <1>3, <1>4

SourceInv == SourceUp /\ SourceTurns

(* What an answer tells the source, unless the client is lost.             *)
LEMMA SourceIsTold ==
    ASSUME TypeInv, SourceInv, ~command.sink, pc \in {"start", "timed", "asked", "closed"},
           NEW kind, Heard(kind)
    PROVE  /\ up' = <<>> /\ kind \in Answers /\ status = "none" /\ ~eof
           /\ ~gone => /\ down = <<>>
                       /\ IF pc = "asked" /\ kind = "ok" /\ ~IsDirectory(Item.path)
                             THEN cpc = "taking" /\ cfile.left = file.left
                             ELSE cpc = "reading"
<1> USE DEF SourceInv
<1>1. up # <<>> /\ Len(up) = 1 /\ up[1].kind \in Answers /\ status = "none" /\ ~eof
  BY DEF SourceUp, Heard
<1>2. up' = <<>> /\ up[1].kind = kind
  BY <1>1, LastHeard DEF TypeInv, Typed, StreamTyped
<1>3. \A k \in {"ok", "warn"} : Hears(k) => k = kind
  BY OneHeard, WordsThereAre DEF Hears
<1>4. ASSUME ~gone PROVE down = <<>>
  BY <1>1, <1>4 DEF SourceTurns, Hears, Awaits, Nobody
<1>5. ASSUME ~gone
      PROVE IF pc = "asked" /\ kind = "ok" /\ ~IsDirectory(Item.path)
               THEN cpc = "taking" /\ cfile.left = file.left
               ELSE cpc = "reading"
  BY <1>1, <1>3, <1>5 DEF SourceTurns, Awaits, Nobody
<1> QED
  BY <1>1, <1>2, <1>4, <1>5

(* What the client has to read between files...                            *)
LEMMA ReaderHears ==
    ASSUME TypeInv, SourceInv, ~command.sink, cpc = "reading", NEW kind, CHeard(kind)
    PROVE  /\ ~gone /\ up = <<>> /\ kind \in {"warn", "T", "C", "D", "E"}
           /\ kind # "warn" => down' = <<>> /\ status = "none"
           /\ kind = "T" => pc = "timed"
           /\ kind \in {"C", "D"} => pc = "asked" /\ Head(down) = ItemHeader
           /\ kind = "E" => pc = "closed"
           /\ kind = "warn" =>
                \/ pc \in {"walk", "over"} /\ Run(down', "warn")
                \/ pc = "timed" /\ RunThen(down', "warn", Word("T"))
                \/ pc = "asked" /\ RunThen(down', "warn", ItemHeader)
                \/ pc = "closed" /\ RunThen(down', "warn", Word("E"))
<1> USE DEF SourceInv
<1>1. ~gone /\ down # <<>> /\ down \in Seq(Words) /\ (pc # "over" => status = "none")
  BY DEF SourceUp, CHeard, TypeInv, Typed, StreamTyped
<1>2. /\ up = <<>>
      /\ \/ pc \in {"walk", "over"} /\ Run(down, "warn")
         \/ pc = "timed" /\ RunThen(down, "warn", Word("T"))
         \/ pc = "asked" /\ RunThen(down, "warn", ItemHeader)
         \/ pc = "closed" /\ RunThen(down, "warn", Word("E"))
  BY <1>1 DEF SourceTurns, Hears, Awaits, Nobody, SourceUp
<1>3. /\ Word("T").kind = "T" /\ Word("E").kind = "E" /\ ItemHeader.kind \in {"C", "D"}
  BY WordsThereAre DEF ItemHeader, Header
<1>4. CASE pc \in {"walk", "over"} /\ Run(down, "warn")
  BY <1>1, <1>2, <1>4, RunHeard
<1>5. CASE pc = "timed" /\ RunThen(down, "warn", Word("T"))
  BY <1>1, <1>2, <1>3, <1>5, RunThenHeard
<1>6. CASE pc = "asked" /\ RunThen(down, "warn", ItemHeader)
  BY <1>1, <1>2, <1>3, <1>6, RunThenHeard
<1>7. CASE pc = "closed" /\ RunThen(down, "warn", Word("E"))
  BY <1>1, <1>2, <1>3, <1>7, RunThenHeard
<1> QED
  BY <1>2, <1>4, <1>5, <1>6, <1>7

(* ... and within one.                                                     *)
LEMMA TakerHears ==
    ASSUME TypeInv, SourceInv, ~command.sink, cpc = "taking", NEW kind, CHeard(kind)
    PROVE  /\ ~gone /\ up = <<>>
           /\ kind = "data" =>
                /\ Len(down') = Len(down) - 1 /\ Len(down) > 0
                /\ \/ pc = "contents" /\ Run(down', "data") /\ Len(down) + file.left = cfile.left
                   \/ pc = "closed" /\ RunThen(down', "data", Word("ok"))
                        /\ Len(down) = cfile.left + 1
                   \/ pc = "over" /\ Run(down', "data") /\ Len(down) <= cfile.left
           /\ kind # "data" => kind = "ok" /\ pc = "closed" /\ down' = <<>> /\ status = "none"
<1> USE DEF SourceInv
<1>1. ~gone /\ down # <<>> /\ down \in Seq(Words) /\ (pc # "over" => status = "none")
  BY DEF SourceUp, CHeard, TypeInv, Typed, StreamTyped
<1>2. Len(down) > 0 /\ Len(down) \in Nat
  BY <1>1
<1>3. /\ up = <<>>
      /\ \/ pc = "contents" /\ Run(down, "data") /\ Len(down) + file.left = cfile.left
         \/ pc = "closed" /\ RunThen(down, "data", Word("ok")) /\ Len(down) = cfile.left + 1
         \/ pc = "over" /\ Run(down, "data") /\ Len(down) <= cfile.left
  BY <1>1 DEF SourceTurns, Hears, Awaits, Nobody, SourceUp
<1>4. CASE pc \in {"contents", "over"} /\ Run(down, "data")
  BY <1>1, <1>2, <1>3, <1>4, RunHeard
<1>5. CASE pc = "closed" /\ RunThen(down, "data", Word("ok"))
  BY <1>1, <1>2, <1>3, <1>5, RunThenHeard, WordsThereAre
<1> QED
  BY <1>3, <1>4, <1>5

(* The turns of a download, as the server takes them: it waits for an      *)
(* answer to every line and every verdict,                                 *)
LEMMA SourceInvSourceStep ==
    ASSUME TypeInv, SourceInv, SourceStep, UNCHANGED sink
    PROVE  SourceInv'
<1> USE DEF Sending
<1>0. /\ ~command.sink /\ UNCHANGED <<command, eof, gone, cpc, cdir, cfile, tree>>
      /\ pc # "over" /\ ~eof /\ (gone => cpc = "over") /\ status = "none"
      /\ down \in Seq(Words) /\ up \in Seq(Words)
  <2>1. ~command.sink /\ UNCHANGED <<command, eof, gone, cpc, cdir, cfile, tree>> /\ pc # "over"
    BY DEF client, SourceStep, SendStarts, SendEnds, SendSkips, SendTimes, SendHeader,
        SendChildren,
           SendEndOfDirectory, SendFile, SendPiece, SendShort, SendVerdict, SendNext,
           SendBreaks
  <2> QED
    BY <2>1 DEF SourceInv, SourceUp, TypeInv, Typed, StreamTyped
<1>1. CASE SendStarts
  <2>1. up' = <<>> /\ (~gone => down = <<>> /\ cpc = "reading")
    BY <1>0, <1>1, SourceIsTold DEF SendStarts
  <2>2. ~gone => Run(down, "warn")
    BY <2>1 DEF Run
  <2>3. CASE pc' = "walk" /\ status' = status /\ UNCHANGED down
    <3>1. SourceUp'
      BY <1>0, <2>1, <2>3 DEF SourceUp
    <3>2. SourceTurns'
      BY <1>0, <2>1, <2>2, <2>3 DEF SourceTurns, Run
    <3> QED
      BY <3>1, <3>2 DEF SourceInv
  <2>4. CASE Fail /\ pc' = "over" /\ status' # "none"
    <3>1. SourceUp'
      BY <1>0, <2>1, <2>4 DEF SourceUp
    <3>2. ~gone => Run(down', "warn")
      BY <1>0, <2>2, <2>4, RunSaid, WordsThereAre DEF Fail
    <3>3. SourceTurns'
      BY <1>0, <2>1, <2>4, <3>2 DEF SourceTurns
    <3> QED
      BY <3>1, <3>3 DEF SourceInv
  <2> QED
    BY <1>1, <2>3, <2>4 DEF SendStarts, Goto, End
<1>2. CASE SendEnds
  <2>1. pc = "walk" /\ pc' = "over" /\ status' # "none" /\ UNCHANGED <<up, down>>
    BY <1>2 DEF SendEnds, End
  <2> QED
    BY <1>0, <2>1 DEF SourceInv, SourceUp, SourceTurns
<1>3. CASE SendSkips
  <2>1. pc = "walk" /\ UNCHANGED <<pc, status, up>> /\ Say(Word("warn"))
    BY <1>3 DEF SendSkips, Fail
  <2>2. ~gone => Run(down', "warn")
    BY <1>0, <2>1, RunSaid, WordsThereAre DEF SourceInv, SourceTurns
  <2> QED
    BY <1>0, <2>1, <2>2 DEF SourceInv, SourceUp, SourceTurns
<1>4. CASE SendTimes
  <2>1. pc = "walk" /\ pc' = "timed" /\ UNCHANGED <<status, up>> /\ Say(Word("T"))
    BY <1>4 DEF SendTimes, Goto
  <2>2. up = <<>> /\ (~gone => RunThen(down', "warn", Word("T")))
    BY <1>0, <2>1, RunSaid, WordsThereAre DEF SourceInv, SourceUp, SourceTurns
  <2> QED
    BY <1>0, <2>1, <2>2 DEF SourceInv, SourceUp, SourceTurns, Awaits
<1>5. CASE SendHeader
  <2>1. work # <<>> /\ Sendable(Item.path) /\ pc' = "asked" /\ UNCHANGED <<status, work>>
    BY <1>5 DEF SendHeader, Goto
  <2>2. /\ pc \in {"walk", "timed"} /\ up' = <<>>
        /\ ~gone => cpc = "reading" /\ Run(down, "warn")
    <3>1. CASE pc = "walk" /\ UNCHANGED up
      BY <1>0, <3>1 DEF SourceInv, SourceUp, SourceTurns
    <3>2. CASE pc = "timed" /\ Heard("ok")
      <4>1. up' = <<>> /\ (~gone => down = <<>> /\ cpc = "reading")
        BY <1>0, <3>2, SourceIsTold
      <4> QED
        BY <3>2, <4>1 DEF Run
    <3> QED
      BY <1>5, <3>1, <3>2 DEF SendHeader
  <2>3. ItemHeader' \in Words /\ Say(ItemHeader')
    <3>1. Name(Item.path) \in Names /\ 0 \in 0..MaxSize
      BY <2>1, ItemTyped, BoundsAssumption DEF TypeInv, Typed
    <3>2. CASE IsDirectory(Item.path)
      <4>1. ItemHeader' = Header("D", Name(Item.path), 0)
        BY <1>0, <2>1, <3>2 DEF ItemHeader, IsDirectory, Item, Name
      <4>2. Say(Header("D", Name(Item.path), 0))
        BY <1>5, <3>2 DEF SendHeader
      <4> QED
        BY <3>1, <4>1, <4>2, WordsThereAre
    <3>3. CASE ~IsDirectory(Item.path)
      <4>1. ItemHeader' = Header("C", Name(Item.path), file'.left)
        BY <1>0, <2>1, <3>3 DEF ItemHeader, IsDirectory, Item, Name
      <4>2. PICK size \in 0..MaxSize :
               /\ Say(Header("C", Name(Item.path), size))
               /\ file' = [path |-> Item.path, left |-> size, failed |-> FALSE]
        BY <1>5, <3>3 DEF SendHeader
      <4>3. file'.left = size
        BY <4>2
      <4> QED
        BY <3>1, <4>1, <4>2, <4>3, WordsThereAre
    <3> QED
      BY <3>2, <3>3
  <2>4. ~gone => RunThen(down', "warn", ItemHeader')
    BY <1>0, <2>2, <2>3, RunSaid
  <2>5. SourceUp'
    BY <1>0, <2>1, <2>2 DEF SourceUp
  <2>6. SourceTurns'
    BY <1>0, <2>1, <2>2, <2>4 DEF SourceTurns, Awaits
  <2> QED
    BY <2>5, <2>6 DEF SourceInv
<1>6. CASE SendChildren
  <2>1. up' = <<>> /\ (~gone => down = <<>> /\ cpc = "reading")
    BY <1>0, <1>6, SourceIsTold DEF SendChildren
  <2>2. pc' = "walk" /\ UNCHANGED <<status, down>>
    BY <1>6 DEF SendChildren, Goto
  <2> QED
    BY <1>0, <2>1, <2>2 DEF SourceInv, SourceUp, SourceTurns, Run
<1>7. CASE SendEndOfDirectory
  <2>1. pc = "walk" /\ pc' = "closed" /\ UNCHANGED <<status, up>> /\ Say(Word("E"))
    BY <1>7 DEF SendEndOfDirectory, Goto
  <2>2. up = <<>> /\ (~gone => RunThen(down', "warn", Word("E")))
    BY <1>0, <2>1, RunSaid, WordsThereAre DEF SourceInv, SourceUp, SourceTurns
  <2> QED
    BY <1>0, <2>1, <2>2 DEF SourceInv, SourceUp, SourceTurns, Awaits
<1>8. CASE SendFile
  <2>1. up' = <<>> /\ (~gone => down = <<>> /\ cpc = "taking" /\ cfile.left = file.left)
    BY <1>0, <1>8, SourceIsTold DEF SendFile
  <2>2. pc' = "contents" /\ UNCHANGED <<status, down, file>>
    BY <1>8 DEF SendFile, Goto
  <2>3. file.left \in 0..MaxSize
    BY FilesThereAre DEF TypeInv, Typed, ServerTyped
  <2>4. ~gone => Run(down', "data") /\ Len(down') + file'.left = cfile'.left
    BY <1>0, <2>1, <2>2, <2>3, BoundsAssumption DEF Run
  <2> QED
    BY <1>0, <2>1, <2>2, <2>4 DEF SourceInv, SourceUp, SourceTurns
<1>9. CASE SendPiece
  <2>1. /\ pc = "contents" /\ UNCHANGED <<pc, status, up>> /\ Say(Word("data"))
        /\ file'.left = file.left - 1
    BY <1>9 DEF SendPiece, TypeInv, Typed, ServerTyped, OpenFiles
  <2>2. ~gone => Run(down', "data") /\ Len(down') = Len(down) + 1
    BY <1>0, <2>1, RunSaid, WordsThereAre DEF SourceInv, SourceTurns
  <2>3. file.left \in Int /\ Len(down) \in Int
    BY <1>0, BoundsAssumption DEF TypeInv, Typed, ServerTyped, OpenFiles
  <2>4. ~gone => Len(down') + file'.left = cfile.left
    BY <1>0, <2>1, <2>2, <2>3 DEF SourceInv, SourceTurns
  <2>5. up = <<>>
    BY <1>0, <2>1 DEF SourceInv, SourceUp
  <2> QED
    BY <1>0, <2>1, <2>2, <2>4, <2>5 DEF SourceInv, SourceUp, SourceTurns
<1>10. CASE SendShort
  <2>1. pc = "contents" /\ pc' = "over" /\ status' # "none" /\ UNCHANGED <<up, down>>
    BY <1>10 DEF SendShort, End
  <2>2. file.left >= 0 /\ file.left \in Int /\ Len(down) \in Int
    BY <1>0, BoundsAssumption DEF TypeInv, Typed, ServerTyped, OpenFiles
  <2>3. ~gone => Len(down) <= cfile.left
    BY <1>0, <2>1, <2>2 DEF SourceInv, SourceTurns
  <2> QED
    BY <1>0, <2>1, <2>3 DEF SourceInv, SourceUp, SourceTurns
<1>11. CASE SendVerdict
  <2>1. /\ pc = "contents" /\ pc' = "closed" /\ UNCHANGED <<status, up>> /\ Say(Word("ok"))
        /\ file.left = 0
    BY <1>11 DEF SendVerdict, Goto, Ack
  <2>2. Len(down) \in Int /\ up = <<>>
    BY <1>0, <2>1 DEF SourceInv, SourceUp
  <2>3. ~gone => /\ RunThen(down', "data", Word("ok")) /\ Len(down') = Len(down) + 1
                 /\ Len(down) = cfile.left
    BY <1>0, <2>1, <2>2, RunSaid, WordsThereAre DEF SourceInv, SourceTurns
  <2> QED
    BY <1>0, <2>1, <2>2, <2>3 DEF SourceInv, SourceUp, SourceTurns
<1>12. CASE SendNext
  <2>1. up' = <<>> /\ (~gone => down = <<>> /\ cpc = "reading")
    BY <1>0, <1>12, SourceIsTold DEF SendNext
  <2>2. pc' = "walk" /\ UNCHANGED <<status, down>>
    BY <1>12 DEF SendNext, Goto
  <2> QED
    BY <1>0, <2>1, <2>2 DEF SourceInv, SourceUp, SourceTurns, Run
<1>13. CASE SendBreaks
  <2>1. /\ pc \in {"start", "timed", "asked", "closed"} /\ pc' = "over" /\ status' # "none"
        /\ UNCHANGED down /\ (Heard("warn") \/ HeardNothing)
    BY <1>13 DEF SendBreaks, End
  <2>2. up' = <<>>
    BY <1>0, <2>1, SourceIsTold DEF HeardNothing
  <2>3. ~gone => down = <<>> /\ cpc = "reading"
    BY <1>0, <2>1, SourceIsTold DEF HeardNothing
  <2> QED
    BY <1>0, <2>1, <2>2, <2>3 DEF SourceInv, SourceUp, SourceTurns, Run
<1> QED
  BY <1>1, <1>2, <1>3, <1>4, <1>5, <1>6, <1>7, <1>8, <1>9, <1>10, <1>11, <1>12, <1>13
  DEF SourceStep

(* and as the client does: it answers each of them once.                   *)
LEMMA SourceInvSourceClient ==
    ASSUME TypeInv, SourceInv, SourceClient, UNCHANGED sink
    PROVE  SourceInv'
<1> USE DEF Downloads, server
<1>0. /\ ~command.sink /\ UNCHANGED <<command, eof, gone, pc, status, file, work, tree>>
      /\ cpc # "over" /\ ~eof /\ ~gone /\ (status = "none" <=> pc # "over")
      /\ Word("ok") \in Words /\ Word("warn") \in Words
      /\ Word("ok").kind = "ok" /\ Word("warn").kind = "warn"
      /\ UNCHANGED ItemHeader
  <2>1. /\ ~command.sink /\ UNCHANGED <<command, eof, gone, pc, status, file, work, tree>>
        /\ cpc # "over"
    BY DEF SourceClient, DownloadStarts, TakesTimes, TakesDirectory, TakesEnd, TakesFile,
           TakesPiece, TakesVerdict, Declines, HearsWarning
  <2>2. UNCHANGED ItemHeader
    BY <2>1 DEF ItemHeader, IsDirectory, Item, Name
  <2> QED
    BY <2>1, <2>2, WordsThereAre DEF SourceInv, SourceUp
<1>1. CASE DownloadStarts
  <2>1. pc = "start" /\ up = <<>> /\ down = <<>>
    BY <1>0, <1>1 DEF DownloadStarts, SourceInv, SourceTurns, Nobody
  <2>2. up' = <<Word("ok")>> /\ UNCHANGED down /\ cpc' = "reading"
    BY <1>0, <1>1, <2>1, OneSaid DEF DownloadStarts
  <2> QED
    BY <1>0, <2>1, <2>2, OneHeard DEF SourceInv, SourceUp, SourceTurns, Hears, Answers
<1>2. ASSUME NEW kind \in {"ok", "warn"}, CSay(<<Word(kind)>>), up = <<>>, down' = <<>>,
             cpc' = "reading",
             \/ pc = "timed" /\ kind = "ok"
             \/ pc = "asked" /\ (kind = "ok" => IsDirectory(Item.path))
             \/ pc = "closed"
      PROVE  SourceInv'
  <2>1. up' = <<Word(kind)>> /\ Len(up') = 1 /\ up'[1].kind \in Answers
    BY <1>0, <1>2, OneSaid DEF Answers
  <2>2. IsDirectory(Item.path)' = IsDirectory(Item.path)
    BY <1>0 DEF IsDirectory, Item
  <2>3. SourceUp'
    BY <1>0, <1>2, <2>1 DEF SourceInv, SourceUp
  <2>4. SourceTurns'
    BY <1>0, <1>2, <2>1, <2>2 DEF SourceTurns, Hears
  <2> QED
    BY <2>3, <2>4 DEF SourceInv
<1>3. CASE TakesTimes
  BY <1>0, <1>2, <1>3, ReaderHears DEF TakesTimes
<1>4. CASE TakesEnd
  BY <1>0, <1>2, <1>4, ReaderHears DEF TakesEnd
<1>5. CASE TakesDirectory
  <2>1. pc = "asked" /\ Head(down) = ItemHeader /\ down' = <<>> /\ up = <<>> /\ Head(down).kind = "D"
    BY <1>0, <1>5, ReaderHears DEF TakesDirectory, CHeard
  <2>2. IsDirectory(Item.path)
    BY <2>1 DEF ItemHeader, Header
  <2> QED
    BY <1>0, <1>2, <1>5, <2>1, <2>2 DEF TakesDirectory
<1>6. CASE TakesFile
  <2>1. pc = "asked" /\ Head(down) = ItemHeader /\ down' = <<>> /\ up = <<>> /\ Head(down).kind = "C"
    BY <1>0, <1>6, ReaderHears DEF TakesFile, CHeard
  <2>2. ~IsDirectory(Item.path) /\ Head(down).size = file.left
    BY <2>1 DEF ItemHeader, Header
  <2>3. cpc' = "taking" /\ cfile'.left = file'.left
    BY <1>0, <1>6, <2>2 DEF TakesFile
  <2>4. up' = <<Word("ok")>> /\ Len(up') = 1 /\ up'[1].kind \in Answers
    BY <1>0, <1>6, <2>1, OneSaid DEF TakesFile, Answers
  <2>5. IsDirectory(Item.path)' = IsDirectory(Item.path)
    BY <1>0 DEF IsDirectory, Item
  <2>6. SourceUp'
    BY <1>0, <2>1, <2>4 DEF SourceInv, SourceUp
  <2>7. SourceTurns'
    BY <1>0, <2>1, <2>2, <2>3, <2>4, <2>5 DEF SourceTurns, Hears
  <2> QED
    BY <2>6, <2>7 DEF SourceInv
<1>7. CASE TakesPiece
  <2>1. /\ cpc = "taking" /\ CHeard("data") /\ UNCHANGED <<up, cpc>>
        /\ cfile'.left = cfile.left - 1
    BY <1>7 DEF TakesPiece, TypeInv, Typed, ClientTyped, OpenFiles
  <2>2. cfile.left \in Int /\ file.left \in Int /\ Len(down) \in Int
    BY BoundsAssumption DEF TypeInv, Typed, ClientTyped, ServerTyped, StreamTyped, OpenFiles
  <2>3. /\ up = <<>> /\ Len(down') = Len(down) - 1
        /\ \/ pc = "contents" /\ Run(down', "data") /\ Len(down) + file.left = cfile.left
           \/ pc = "closed" /\ RunThen(down', "data", Word("ok")) /\ Len(down) = cfile.left + 1
           \/ pc = "over" /\ Run(down', "data") /\ Len(down) <= cfile.left
    BY <1>0, <2>1, TakerHears
  <2>4. /\ pc = "contents" => Len(down') + file.left = cfile'.left
        /\ pc = "closed" => Len(down') = cfile'.left + 1
        /\ pc = "over" => Len(down') <= cfile'.left
    BY <2>1, <2>2, <2>3
  <2>5. SourceUp'
    BY <1>0, <2>1, <2>3 DEF SourceInv, SourceUp
  <2>6. SourceTurns'
    BY <1>0, <2>1, <2>3, <2>4 DEF SourceTurns
  <2> QED
    BY <2>5, <2>6 DEF SourceInv
<1>8. CASE TakesVerdict
  <2>1. pc = "closed" /\ up = <<>> /\ down' = <<>>
    BY <1>0, <1>8, TakerHears DEF TakesVerdict
  <2> QED
    BY <1>0, <1>2, <1>8, <2>1 DEF TakesVerdict
<1>9. CASE Declines
  <2>1. pc \in {"asked", "closed"} /\ up = <<>> /\ down' = <<>>
    BY <1>0, <1>9, ReaderHears, TakerHears DEF Declines
  <2> QED
    BY <1>0, <1>2, <1>9, <2>1 DEF Declines
<1>10. CASE HearsWarning
  <2>1. /\ up = <<>> /\ UNCHANGED <<up, cpc>> /\ cpc = "reading"
        /\ \/ pc \in {"walk", "over"} /\ Run(down', "warn")
           \/ pc = "timed" /\ RunThen(down', "warn", Word("T"))
           \/ pc = "asked" /\ RunThen(down', "warn", ItemHeader)
           \/ pc = "closed" /\ RunThen(down', "warn", Word("E"))
    BY <1>0, <1>10, ReaderHears DEF HearsWarning
  <2>2. SourceUp'
    BY <1>0, <2>1 DEF SourceInv, SourceUp
  <2>3. SourceTurns'
    BY <1>0, <2>1 DEF SourceTurns, Awaits
  <2> QED
    BY <2>2, <2>3 DEF SourceInv
<1> QED
  BY <1>1, <1>3, <1>4, <1>5, <1>6, <1>7, <1>8, <1>9, <1>10 DEF SourceClient

-----------------------------------------------------------------------------
(* Both.                                                                   *)
TurnInv == SinkInv /\ SourceInv

(* Both sets of turns hold to begin with.                                  *)
LEMMA TurnInvInit == Init => TurnInv
BY DEF Init, SessionInit, SinkInit, SourceInit, TurnInv, SinkInv, SinkUp, SinkTurns,
       SourceInv, SourceUp, SourceTurns, Nobody

(* Each direction's turns are of no concern to the other.                  *)
LEMMA OneDirection ==
    /\ SinkStep \/ SinkClient => command.sink /\ command' = command
    /\ SourceStep \/ SourceClient => ~command.sink /\ command' = command
<1>1. SinkStep => command.sink
  BY DEF SinkStep, Receiving, ReceiveStarts, ReceiveRefuses, ReceiveEnds, ReceiveNonsense,
         ReceiveTimes, FileRefused, FileAccepted, ReceivePiece, ReceiveBreaks, FileDone,
         DirectoryRefused, DirectoryAccepted, DirectoryLeft
<1>2. SinkClient => command.sink
  BY DEF SinkClient, Uploads, Announces, ClientStarts, ClientSkipsFile, ClientCloses,
         ClientSaysTimes, ClientFinishes, ClientAnnouncesFile, ClientSendsFile,
         ClientIsAnswered, ClientEnters, ClientAnnouncesDirectory, ClientErrs
<1>3. SourceStep => ~command.sink
  BY DEF SourceStep, Sending, SendStarts, SendEnds, SendSkips, SendTimes, SendHeader,
         SendChildren, SendEndOfDirectory, SendFile, SendPiece, SendShort, SendVerdict,
         SendNext, SendBreaks
<1>4. SourceClient => ~command.sink
  BY DEF SourceClient, Downloads, DownloadStarts, TakesTimes, TakesDirectory, TakesEnd,
         TakesFile, TakesPiece, TakesVerdict, Declines, HearsWarning
<1> QED
  BY <1>1, <1>2, <1>3, <1>4, SinkStepSpares, SinkClientSpares, SourceStepSpares,
     SourceClientSpares

(* The first of what was sent is as good as all of it: each word is what   *)
(* is read at its place.                                                   *)
LEMMA SinkUpDrop ==
    ASSUME TypeInv, SinkUp, Drop, command.sink
    PROVE  SinkUp'
<1>1. PICK n \in 0..Len(up) : up' = SubSeq(up, 1, n)
  BY DEF Drop
<1>2. /\ UNCHANGED <<command, pc, status, file, down>> /\ cpc' = "over"
      /\ up \in Seq(Words)
  BY DEF Drop, server, TypeInv, Typed, StreamTyped
<1>3. /\ Len(up') = n /\ n \in 0..Len(up)
      /\ \A i \in 1..n : up'[i] = up[i] /\ i \in 1..Len(up)
      /\ Len(up) \in Nat
  BY <1>1, <1>2, FirstOfASeq
<1>4. up' = <<>> <=> n = 0
  BY <1>1, <1>2, <1>3
<1>5. pc = "start" => up' = <<>> /\ down' = <<>>
  <2>1. pc = "start" => up = <<>> /\ down = <<>>
    BY DEF SinkUp
  <2> QED
    BY <1>2, <1>3, <1>4, <2>1
<1>6. pc = "line" => up' = <<>> \/ (Len(up') = 1 /\ up'[1].kind \in Lines \cup {"nonsense"})
  <2>1. pc = "line" => up = <<>> \/ (Len(up) = 1 /\ up[1].kind \in Lines \cup {"nonsense"})
    BY DEF SinkUp
  <2>2. up = <<>> => n = 0
    BY <1>3
  <2>3. Len(up) = 1 => n = 0 \/ n = 1
    BY <1>3
  <2> QED
    BY <1>3, <1>4, <2>1, <2>2, <2>3
<1>7. ASSUME pc = "contents"
      PROVE  /\ Len(up') <= file.left + 1
             /\ \A i \in 1..Len(up') :
                  up'[i].kind \in (IF i <= file.left THEN {"data"} ELSE Answers)
  <2>1. /\ Len(up) <= file.left + 1
        /\ \A i \in 1..Len(up) :
              up[i].kind \in (IF i <= file.left THEN {"data"} ELSE Answers)
    BY <1>7 DEF SinkUp
  <2>2. file.left \in Int
    BY BoundsAssumption DEF TypeInv, Typed, ServerTyped, OpenFiles
  <2> QED
    BY <1>3, <2>1, <2>2
<1>8. pc \in {"start", "line", "contents", "over"} /\ (status = "none" <=> pc # "over")
  BY DEF SinkUp
<1> QED
  BY <1>2, <1>5, <1>6, <1>7, <1>8 DEF SinkUp

(* Whoever moves, the turns are kept.                                      *)
LEMMA TurnInvStep == TypeInv /\ TurnInv /\ [Next]_vars => TurnInv'
<1> SUFFICES ASSUME TypeInv, SinkInv, SourceInv, [Next]_vars PROVE SinkInv' /\ SourceInv'
  BY DEF TurnInv
<1>0. (command.sink => SourceInv) /\ (~command.sink => SinkInv)
  OBVIOUS
<1>1. command'.sink /\ command.sink => SourceInv'
  BY DEF SourceInv, SourceUp, SourceTurns
<1>2. ~command'.sink => SinkInv'
  BY DEF SinkInv, SinkUp, SinkTurns
<1>3. CASE SinkStep /\ UNCHANGED source
  BY <1>1, <1>3, OneDirection, SinkUpSinkStep, SinkTurnsSinkStep DEF SinkInv
<1>4. CASE SourceStep /\ UNCHANGED sink
  BY <1>2, <1>4, OneDirection, SourceInvSourceStep
<1>5. CASE SinkClient /\ UNCHANGED source
  BY <1>1, <1>5, OneDirection, SinkInvSinkClient
<1>6. CASE SourceClient /\ UNCHANGED sink
  BY <1>2, <1>6, OneDirection, SourceInvSourceClient
<1>7. CASE WriteBreaks /\ UNCHANGED <<sink, source>>
  <2>1. /\ gone /\ pc' = "over" /\ status' # "none"
        /\ UNCHANGED <<command, up, down, eof, gone, cpc>>
    BY <1>7 DEF WriteBreaks, End, stream, client
  <2> QED
    BY <2>1 DEF SinkInv, SinkUp, SinkTurns, SourceInv, SourceUp, SourceTurns
<1>8. CASE ClientLeaves /\ UNCHANGED <<sink, source>>
  <2>1. /\ cpc' = "over" /\ status # "none" /\ down = <<>>
        /\ UNCHANGED <<command, up, down, eof, gone, pc, status, file>>
    BY <1>8 DEF ClientLeaves, stream, server
  <2>2. pc = "over"
    BY <2>1 DEF SinkInv, SinkUp, SourceInv, SourceUp
  <2>3. SinkUp' /\ SourceUp'
    BY <2>1, <2>2 DEF SinkInv, SinkUp, SourceInv, SourceUp
  <2>4. SinkTurns'
    BY <2>1, <2>2 DEF SinkInv, SinkTurns, Nobody, Said, Answered
  <2>5. SourceTurns'
    BY <2>1, <2>2 DEF SourceTurns
  <2> QED
    BY <2>3, <2>4, <2>5 DEF SinkInv, SourceInv
<1>9. CASE Drop /\ UNCHANGED <<sink, source>>
  <2>1. /\ gone' /\ cpc' = "over" /\ UNCHANGED <<command, pc, status, file, eof>>
    BY <1>9 DEF Drop, server
  <2>2. SinkTurns' /\ SourceTurns'
    BY <2>1 DEF SinkTurns, SourceTurns
  <2>3. SinkUp'
    BY <1>9, <2>1, SinkUpDrop DEF SinkInv, SinkUp
  <2>4. ~command.sink => SourceUp'
    <3> SUFFICES ASSUME ~command.sink PROVE SourceUp'
      OBVIOUS
    <3>1. PICK n \in 0..Len(up) : up' = SubSeq(up, 1, n)
      BY <1>9 DEF Drop
    <3>2. up \in Seq(Words)
      BY DEF TypeInv, Typed, StreamTyped
    <3>3. /\ Len(up') = n /\ n \in 0..Len(up)
          /\ \A i \in 1..n : up'[i] = up[i]
          /\ Len(up) \in Nat
          /\ up' = <<>> <=> n = 0
          /\ up = <<>> => n = 0
          /\ Len(up) = 1 => n = 0 \/ n = 1
      <4>1. Len(up') = n /\ \A i \in 1..n : up'[i] = up[i]
        BY <3>1, <3>2, FirstOfASeq
      <4>2. up' = <<>> <=> n = 0
        BY <3>1, <3>2
      <4> QED
        BY <3>1, <3>2, <4>1, <4>2
    <3> QED
      BY <2>1, <3>3 DEF SourceInv, SourceUp
  <2>5. SourceUp'
    BY <2>1, <2>4 DEF SourceUp
  <2> QED
    BY <2>2, <2>3, <2>5 DEF SinkInv, SourceInv
<1>10. CASE UNCHANGED vars
  <2>1. UNCHANGED <<command, pc, status, file, up, down, eof, gone, cpc, cfile, work, tree>>
    BY <1>10 DEF vars, session, stream, client, server, source
  <2>2. SinkInv'
    BY <2>1 DEF SinkInv, SinkUp, SinkTurns, Nobody, Said, Answered
  <2>3. UNCHANGED ItemHeader
    BY <2>1 DEF ItemHeader, IsDirectory, Item, Name
  <2>4. SourceInv'
    BY <2>1, <2>3 DEF SourceInv, SourceUp, SourceTurns, Nobody, Hears, Awaits, Item,
        IsDirectory
  <2> QED
    BY <2>2, <2>4
<1> QED
  BY <1>3, <1>4, <1>5, <1>6, <1>7, <1>8, <1>9, <1>10 DEF Next, ServerStep, ClientStep

(* The invariant of the turns.                                             *)
LEMMA TurnInvariant == Spec => [](TypeInv /\ TurnInv)
BY TypeInvInit, TypeInvStep, TurnInvInit, TurnInvStep, PTL DEF Spec

(* What arrives next is of the kind its reader waits for, at the server... *)
LEMMA ServerInSync ==
    ASSUME TypeInv, TurnInv, ServerExpects # {}, up # <<>>
    PROVE  Head(up).kind \in ServerExpects
<1>0. up \in Seq(Words) /\ Head(up) = up[1] /\ 1 \in 1..Len(up)
  <2>1. up \in Seq(Words)
    BY DEF TypeInv, Typed, StreamTyped
  <2> QED
    BY <2>1
<1>1. CASE command.sink
  <2>1. pc \in {"line", "contents"}
    BY <1>1 DEF TurnInv, SinkInv, SinkUp, ServerExpects
  <2>2. CASE pc = "line"
    BY <1>0, <1>1, <2>2 DEF TurnInv, SinkInv, SinkUp, ServerExpects
  <2>3. CASE pc = "contents"
    <3>1. up[1].kind \in (IF 1 <= file.left THEN {"data"} ELSE Answers)
      BY <1>0, <1>1, <2>3 DEF TurnInv, SinkInv, SinkUp
    <3>2. 1 <= file.left <=> file.left > 0
      BY BoundsAssumption DEF TypeInv, Typed, ServerTyped, OpenFiles
    <3> QED
      BY <1>0, <1>1, <2>3, <3>1, <3>2 DEF ServerExpects
  <2> QED
    BY <2>1, <2>2, <2>3
<1>2. CASE ~command.sink
  BY <1>0, <1>2 DEF TurnInv, SourceInv, SourceUp, ServerExpects, Answers
<1> QED
  BY <1>1, <1>2

(* ... and at the client.                                                  *)
LEMMA ClientInSync ==
    ASSUME TypeInv, TurnInv, ClientExpects # {}, down # <<>>
    PROVE  Head(down).kind \in ClientExpects
<1>0. /\ down \in Seq(Words) /\ Head(down) = down[1] /\ 1 \in 1..Len(down)
      /\ CHeard(Head(down).kind) <=> down' = Tail(down)
      /\ Head(down) \in Words
  <2>1. down \in Seq(Words)
    BY DEF TypeInv, Typed, StreamTyped
  <2> QED
    BY <2>1 DEF CHeard
<1>1. CASE command.sink
  <2>1. /\ ~gone
        /\ cpc \in {"greeting", "times", "said", "file", "sent", "directory"}
    BY <1>1 DEF TurnInv, SinkInv, SinkUp, SinkTurns, ClientExpects
  <2>2. \E kind \in Answers : down = <<Word(kind)>> /\ (cpc \in {"times", "said"} => kind = "ok")
    BY <1>1, <2>1 DEF TurnInv, SinkInv, SinkTurns, Nobody, Said, Answered, Answers
  <2>3. Head(down).kind \in Answers /\ (cpc \in {"times", "said"} => Head(down).kind = "ok")
    BY <2>2, OneHeard, WordsThereAre DEF Answers
  <2> QED
    BY <1>1, <2>1, <2>3 DEF ClientExpects
<1>2. CASE ~command.sink
  <2>1. /\ ~gone /\ cpc \in {"reading", "taking"}
    BY <1>2 DEF TurnInv, SourceInv, SourceUp, SourceTurns, ClientExpects
  <2>2. CASE cpc = "reading"
    <3>1. /\ \/ pc \in {"walk", "over"} /\ Run(down, "warn")
             \/ pc = "timed" /\ RunThen(down, "warn", Word("T"))
             \/ pc = "asked" /\ RunThen(down, "warn", ItemHeader)
             \/ pc = "closed" /\ RunThen(down, "warn", Word("E"))
      BY <1>2, <2>1, <2>2 DEF TurnInv, SourceInv, SourceTurns, Hears, Awaits, Nobody,
          SourceUp
    <3>2. /\ Word("T").kind = "T" /\ Word("E").kind = "E" /\ ItemHeader.kind \in {"C", "D"}
      BY WordsThereAre DEF ItemHeader, Header
    <3>3. \A word : RunThen(down, "warn", word) => down[1].kind \in {"warn", word.kind}
      BY <1>0 DEF RunThen
    <3>4. Run(down, "warn") => down[1].kind = "warn"
      BY <1>0 DEF Run
    <3> QED
      BY <1>0, <2>2, <3>1, <3>2, <3>3, <3>4 DEF ClientExpects, Lines
  <2>3. CASE cpc = "taking"
    <3>1. /\ \/ pc = "contents" /\ Run(down, "data") /\ Len(down) + file.left = cfile.left
             \/ pc = "closed" /\ RunThen(down, "data", Word("ok")) /\ Len(down) = cfile.left + 1
             \/ pc = "over" /\ Run(down, "data") /\ Len(down) <= cfile.left
      BY <1>2, <2>1, <2>3 DEF TurnInv, SourceInv, SourceTurns, Hears, Awaits, Nobody,
          SourceUp
    <3>2. cfile.left \in Nat /\ file.left \in Nat /\ Len(down) \in Nat /\ Len(down) > 0
      BY <1>0, BoundsAssumption DEF TypeInv, Typed, ClientTyped, ServerTyped, OpenFiles
    <3>3. pc \in {"contents", "over"} => cfile.left > 0 /\ down[1].kind = "data"
      <4>1. Run(down, "data") => down[1].kind = "data"
        BY <1>0 DEF Run
      <4> QED
        BY <3>1, <3>2, <4>1
    <3>4. CASE pc = "closed"
      <4>1. CASE cfile.left = 0
        <5>1. Len(down) = 1
          BY <3>1, <3>4, <4>1
        <5>2. down[1] = Word("ok")
          BY <3>1, <3>4, <5>1 DEF RunThen
        <5> QED
          BY <1>0, <2>3, <4>1, <5>2, WordsThereAre DEF ClientExpects
      <4>2. CASE cfile.left > 0
        <5>1. 1 \in 1..Len(down) - 1
          BY <3>1, <3>2, <3>4, <4>2
        <5>2. down[1].kind = "data"
          BY <3>1, <3>4, <5>1 DEF RunThen
        <5> QED
          BY <1>0, <2>3, <4>2, <5>2 DEF ClientExpects
      <4> QED
        BY <3>2, <4>1, <4>2
    <3> QED
      BY <1>0, <2>3, <3>1, <3>3, <3>4 DEF ClientExpects
  <2> QED
    BY <2>1, <2>2, <2>3
<1> QED
  BY <1>1, <1>2

(* Whatever fails on the way, and wherever the connection is lost, what an *)
(* end reads next is of the kind it waits for (scp_sink.go:196-201,        *)
(* scp_source.go:126-128).                                                 *)
THEOREM StaysInSync == Spec => []InSync
BY TurnInvariant, ServerInSync, ClientInSync, PTL DEF InSync

(* The two ends are never both waiting for the other, in either direction  *)
(* (scp.go:4-7).                                                           *)
THEOREM SomeoneSpeaks == Spec => []NeverBothWaiting
<1>1. TypeInv /\ TurnInv => NeverBothWaiting
  <2> SUFFICES ASSUME TypeInv, TurnInv,
                      ServerExpects # {}, up = <<>>, ~eof, ~gone,
                      ClientExpects # {}, down = <<>>
               PROVE  FALSE
    BY DEF NeverBothWaiting
  <2>1. ASSUME NEW word PROVE <<word>> # <<>>
    BY Singleton
  <2>2. CASE command.sink
    <3>1. pc \in {"line", "contents"}
      BY <2>2 DEF TurnInv, SinkInv, SinkUp, ServerExpects
    <3>2. cpc \in {"greeting", "times", "said", "file", "sent", "directory"}
      BY <2>2 DEF TurnInv, SinkInv, SinkTurns, ClientExpects
    <3>3. \A kinds : ~Answered(kinds)
      BY <2>1 DEF Answered
    <3>4. \A word : ~Said(word)
      BY <2>1 DEF Said
    <3>5. cpc = "sent" /\ pc = "contents" /\ Len(up) = file.left + 1
      BY <2>2, <3>1, <3>2, <3>3, <3>4 DEF TurnInv, SinkInv, SinkTurns
    <3> QED
      BY <3>5, BoundsAssumption DEF TypeInv, Typed, ServerTyped, OpenFiles
  <2>3. CASE ~command.sink
    <3>1. pc \in {"start", "timed", "asked", "closed"} /\ cpc \in {"reading", "taking"}
      BY <2>3 DEF TurnInv, SourceInv, SourceUp, SourceTurns, ServerExpects, ClientExpects
    <3>2. \A kind : ~Hears(kind)
      BY <2>1 DEF Hears
    <3>3. \A word, kind : ~RunThen(down, kind, word)
      BY DEF RunThen
    <3> QED
      BY <2>3, <3>1, <3>2, <3>3 DEF TurnInv, SourceInv, SourceTurns, Awaits
  <2> QED
    BY <2>2, <2>3
<1> QED
  BY <1>1, TurnInvariant, PTL
=============================================================================
