------------------------------ MODULE VFSProofs ------------------------------
(***************************************************************************)
(* Proofs about the virtual filesystem (VFS): that every variable has its  *)
(* type, and that what one connection remembers misleads none of its       *)
(* operations.                                                             *)
(*                                                                         *)
(* Typed is what each variable holds, StoreInv what a backend's store is   *)
(* like, PlaceInv where nodes are when locations are paths, and AloneInv   *)
(* and GoneInv what a channel with the connection to itself may rely on.   *)
(***************************************************************************)
EXTENDS VFS, SequenceTheorems, NaturalsInduction, WellFoundedInduction, TLAPS

-----------------------------------------------------------------------------
(* Paths.                                                                  *)
LEMMA LeastOfNaturals == \A T \in SUBSET Nat : T # {} => \E x \in T : \A y \in T : x <= y
<1>1. IsWellFoundedOn(OpToRel(<, Nat), Nat)
  BY NatLessThanWellFounded
<1> DEFINE R == OpToRel(<, Nat)
<1>2. \A x, y \in Nat : <<x, y>> \in R <=> x < y
  BY DEF OpToRel
<1> HIDE DEF R
<1>3. IsWellFoundedOn(R, Nat)
  BY <1>1 DEF R
<1>4. ASSUME NEW T \in SUBSET Nat, T # {} PROVE \E x \in T : \A y \in T : x <= y
  <2>1. PICK x \in T : \A y \in T : ~(<<y, x>> \in R)
    BY <1>3, <1>4, WFMin
  <2>2. \A y \in T : ~(y < x) /\ y \in Nat /\ x \in Nat
    BY <2>1, <1>2
  <2> QED
    BY <2>1, <2>2
<1> QED
  BY <1>4

LEMMA PrefixOf ==
    ASSUME NEW p \in Seq(Names), NEW i \in 0..Len(p)
    PROVE  /\ Prefix(p, i) \in Seq(Names) /\ Len(Prefix(p, i)) = i
           /\ \A j \in 1..i : Prefix(p, i)[j] = p[j]
           /\ \A j \in 0..i : Prefix(Prefix(p, i), j) = Prefix(p, j)
           /\ i > 0 => Prefix(p, i) # Root
BY DEF Prefix, Root

LEMMA WholePrefix ==
    ASSUME NEW p \in Seq(Names)
    PROVE  Prefix(p, Len(p)) = p /\ Prefix(p, 0) = Root /\ (Len(p) = 0 <=> p = Root)
           /\ Parent(p) = Prefix(p, Len(p) - 1)
BY DEF Prefix, Root, Parent

LEMMA NextPrefix ==
    ASSUME NEW p \in Seq(Names), NEW i \in 0..Len(p) - 1
    PROVE  /\ p[i + 1] \in Names
           /\ Prefix(p, i + 1) = Append(Prefix(p, i), p[i + 1])
BY DEF Prefix

LEMMA ParentOf ==
    ASSUME NEW p \in Seq(Names), p # Root
    PROVE  /\ Len(p) \in Nat \ {0} /\ Parent(p) \in Seq(Names) /\ Len(Parent(p)) = Len(p) - 1
           /\ p[Len(p)] \in Names /\ Append(Parent(p), p[Len(p)]) = p
           /\ \A i \in 0..Len(p) - 1 : Prefix(Parent(p), i) = Prefix(p, i)
<1>1. Len(p) \in Nat \ {0}
  BY WholePrefix
<1>2. Parent(p) = Prefix(p, Len(p) - 1) /\ Len(p) - 1 \in 0..Len(p)
  BY <1>1, WholePrefix
<1>3. /\ Parent(p) \in Seq(Names) /\ Len(Parent(p)) = Len(p) - 1
      /\ \A i \in 0..Len(p) - 1 : Prefix(Parent(p), i) = Prefix(p, i)
  BY <1>2, PrefixOf
<1>4. p[Len(p)] \in Names /\ Append(Parent(p), p[Len(p)]) = p
  <2>1. Len(p) - 1 \in 0..Len(p) - 1 /\ Len(p) - 1 + 1 = Len(p)
    BY <1>1
  <2> QED
    BY <1>2, <2>1, NextPrefix, WholePrefix
<1> QED
  BY <1>1, <1>3, <1>4

LEMMA AppendIs ==
    ASSUME NEW p \in Seq(Names), NEW n \in Names
    PROVE  /\ Append(p, n) \in Seq(Names) /\ Parent(Append(p, n)) = p
           /\ \A m \in Names : Append(p, n) = Append(p, m) => n = m
BY DEF Parent

LEMMA RootIsIn == Root \in Seq(Names) /\ Len(Root) = 0 /\ Root \notin Paths
BY PathAssumption DEF Root

LEMMA BeneathIs ==
    ASSUME NEW p \in Seq(Names), NEW q \in Seq(Names)
    PROVE  /\ Beneath(p, p)
           /\ \A i \in 0..Len(q) : Beneath(p, Prefix(q, i)) => Beneath(p, q)
           /\ \A i \in 0..Len(q) : Beneath(p, q) /\ Len(p) <= i => Beneath(p, Prefix(q, i))
           /\ \A i \in 0..Len(p) : Beneath(p, q) => Prefix(q, i) = Prefix(p, i)
           /\ \A i \in 0..Len(q) : Beneath(Prefix(q, i), q)
           /\ \A i \in 0..Len(q) : Beneath(p, Prefix(q, i)) => Len(p) <= i
<1>1. Beneath(p, p)
  BY WholePrefix DEF Beneath
<1>2. ASSUME NEW i \in 0..Len(q), Beneath(p, Prefix(q, i))
      PROVE  Beneath(p, q) /\ Len(p) <= i
  <2>1. Len(Prefix(q, i)) = i /\ Len(p) <= i
    BY <1>2, PrefixOf DEF Beneath
  <2>2. Len(p) \in 0..i /\ Len(p) <= Len(q)
    BY <2>1
  <2>3. Prefix(Prefix(q, i), Len(p)) = Prefix(q, Len(p))
    BY <2>2, PrefixOf
  <2> QED
    BY <1>2, <2>1, <2>2, <2>3 DEF Beneath
<1>3. ASSUME NEW i \in 0..Len(q), Beneath(p, q), Len(p) <= i
      PROVE  Beneath(p, Prefix(q, i))
  <2>1. Len(p) \in 0..i /\ Len(Prefix(q, i)) = i
    BY <1>3, PrefixOf
  <2>2. Prefix(Prefix(q, i), Len(p)) = Prefix(q, Len(p))
    BY <2>1, PrefixOf
  <2> QED
    BY <1>3, <2>1, <2>2 DEF Beneath
<1>4. ASSUME NEW i \in 0..Len(p), Beneath(p, q)
      PROVE  Prefix(q, i) = Prefix(p, i)
  <2>1. Len(p) \in 0..Len(q)
    BY <1>4 DEF Beneath
  <2>2. Prefix(Prefix(q, Len(p)), i) = Prefix(q, i)
    BY <2>1, PrefixOf
  <2> QED
    BY <1>4, <2>2 DEF Beneath
<1>5. ASSUME NEW i \in 0..Len(q) PROVE Beneath(Prefix(q, i), q)
  <2>1. Len(Prefix(q, i)) = i
    BY PrefixOf
  <2> QED
    BY <2>1 DEF Beneath
<1> QED
  BY <1>1, <1>2, <1>3, <1>4, <1>5

\* What is at a path of one directory is, after a move, at one of the other.
LEMMA MovedIs ==
    ASSUME NEW p \in Seq(Names), NEW to \in Seq(Names), NEW q \in Seq(Names), Beneath(to, q)
    PROVE  /\ Moved(p, to, q) \in Seq(Names)
           /\ Len(Moved(p, to, q)) = Len(p) + Len(q) - Len(to)
           /\ Beneath(p, Moved(p, to, q))
           /\ \A i \in Len(to)..Len(q) :
                 Moved(p, to, Prefix(q, i)) = Prefix(Moved(p, to, q), Len(p) + i - Len(to))
<1> DEFINE rest == SubSeq(q, Len(to) + 1, Len(q))
<1>1. Len(to) <= Len(q) /\ Len(to) \in Nat /\ Len(q) \in Nat /\ Len(p) \in Nat
  BY DEF Beneath
<1>2. rest \in Seq(Names) /\ Len(rest) = Len(q) - Len(to)
  BY <1>1
<1>3. Moved(p, to, q) = p \o rest
  BY DEF Moved
<1>4. /\ p \o rest \in Seq(Names) /\ Len(p \o rest) = Len(p) + Len(rest)
      /\ SubSeq(p \o rest, 1, Len(p)) = p
  <2> HIDE DEF rest
  <2> QED
    BY <1>2
<1>5. ASSUME NEW i \in Len(to)..Len(q)
      PROVE  Moved(p, to, Prefix(q, i)) = Prefix(Moved(p, to, q), Len(p) + i - Len(to))
  <2>1. Prefix(q, i) \in Seq(Names) /\ Len(Prefix(q, i)) = i
    BY <1>1, PrefixOf
  <2>2. SubSeq(Prefix(q, i), Len(to) + 1, i) = SubSeq(rest, 1, i - Len(to))
    BY <1>1 DEF Prefix
  <2>3. p \o SubSeq(rest, 1, i - Len(to)) = SubSeq(p \o rest, 1, Len(p) + i - Len(to))
    <3>1. i - Len(to) \in 0..Len(rest)
      BY <1>1, <1>2
    <3> HIDE DEF rest
    <3> DEFINE k == i - Len(to)
    <3>2. k \in 0..Len(rest) /\ Len(p) + i - Len(to) = Len(p) + k
      BY <3>1, <1>1
    <3> HIDE DEF k
    <3>3. p \o SubSeq(rest, 1, k) = SubSeq(p \o rest, 1, Len(p) + k)
      <4>1. /\ SubSeq(rest, 1, k) \in Seq(Names) /\ Len(SubSeq(rest, 1, k)) = k
            /\ \A j \in 1..k : SubSeq(rest, 1, k)[j] = rest[j]
        BY <3>2, <1>2
      <4>2. /\ p \o SubSeq(rest, 1, k) \in Seq(Names)
            /\ Len(p \o SubSeq(rest, 1, k)) = Len(p) + k
        BY <4>1
      <4>3. /\ SubSeq(p \o rest, 1, Len(p) + k) \in Seq(Names)
            /\ Len(SubSeq(p \o rest, 1, Len(p) + k)) = Len(p) + k
            /\ \A j \in 1..Len(p) + k : SubSeq(p \o rest, 1, Len(p) + k)[j] = (p \o rest)[j]
        BY <3>2, <1>2, <1>4
      <4>4. \A j \in 1..Len(p) + k : (p \o SubSeq(rest, 1, k))[j] = (p \o rest)[j]
        BY <4>1, <3>2, <1>2
      <4> QED
        BY <4>2, <4>3, <4>4, SeqEqual
    <3> QED
      BY <3>2, <3>3 DEF k
  <2> QED
    BY <2>1, <2>2, <2>3, <1>3 DEF Moved, Prefix
<1>6. Beneath(p, Moved(p, to, q))
  BY <1>1, <1>2, <1>3, <1>4 DEF Beneath, Prefix
<1>7. Len(Moved(p, to, q)) = Len(p) + Len(q) - Len(to)
  BY <1>1, <1>2, <1>3, <1>4
<1> QED
  BY <1>3, <1>4, <1>5, <1>6, <1>7

LEMMA MovedTellsApart ==
    ASSUME NEW p \in Seq(Names), NEW to \in Seq(Names),
           NEW q \in Seq(Names), NEW r \in Seq(Names),
           Beneath(to, q), Beneath(to, r), Moved(p, to, q) = Moved(p, to, r)
    PROVE  q = r
<1>1. Len(to) <= Len(q) /\ Len(to) <= Len(r) /\ Len(q) \in Nat /\ Len(r) \in Nat /\ Len(to) \in Nat /\ Len(p) \in Nat
  BY DEF Beneath
<1>2. Len(q) = Len(r)
  <2>1. Len(Moved(p, to, q)) = Len(p) + Len(q) - Len(to)
    BY MovedIs
  <2>2. Len(Moved(p, to, r)) = Len(p) + Len(r) - Len(to)
    BY MovedIs
  <2> QED
    BY <1>1, <2>1, <2>2
<1>3. \A i \in 1..Len(to) : q[i] = to[i] /\ r[i] = to[i]
  BY <1>1 DEF Beneath, Prefix
<1>4. ASSUME NEW i \in Len(to) + 1..Len(q) PROVE q[i] = r[i]
  <2> DEFINE x == SubSeq(q, Len(to) + 1, Len(q))
             y == SubSeq(r, Len(to) + 1, Len(r))
             k == i - Len(to)
  <2>1. x \in Seq(Names) /\ y \in Seq(Names) /\ Len(x) = Len(q) - Len(to) /\ Len(y) = Len(x)
    BY <1>1, <1>2
  <2>2. k \in 1..Len(x) /\ x[k] = q[i] /\ y[k] = r[i]
    BY <1>1, <1>2, <2>1
  <2>3. p \o x = p \o y
    BY DEF Moved
  <2> HIDE DEF x, y, k
  <2>4. (p \o x)[Len(p) + k] = x[k] /\ (p \o y)[Len(p) + k] = y[k]
    BY <2>1, <2>2, <1>1
  <2> QED
    BY <2>2, <2>3, <2>4
<1>5. \A i \in 1..Len(q) : q[i] = r[i]
  BY <1>1, <1>3, <1>4
<1> QED
  BY <1>2, <1>5, SeqEqual

\* The directories above a path.
LEMMA Ancestors ==
    ASSUME NEW S, Root \notin S, NEW p \in Seq(Names), NEW k \in Nat, k <= Len(p), 
           k > 0 => Prefix(p, k) \in S,
           \A i \in 1..k : Prefix(p, i) \in S => Parent(Prefix(p, i)) \in S \cup {Root}
    PROVE  \A i \in 1..k : Prefix(p, i) \in S
<1> DEFINE T == {j \in 0..k - 1 : Prefix(p, k - j) \notin S}
<1>1. T \in SUBSET Nat
  OBVIOUS
<1>2. T = {}
  <2> SUFFICES ASSUME T # {} PROVE FALSE
    OBVIOUS
  <2>1. PICK j \in T : \A y \in T : j <= y
    BY <1>1, LeastOfNaturals
  <2>2. j \in 0..k - 1 /\ Prefix(p, k - j) \notin S /\ j # 0
    BY <2>1
  <2>3. j - 1 \in 0..k - 1 /\ ~(j <= j - 1)
    BY <2>2
  <2>4. Prefix(p, k - (j - 1)) \in S
    BY <2>1, <2>3
  <2> DEFINE i == k - (j - 1)
  <2>5. i \in 2..k /\ i - 1 = k - j
    BY <2>2
  <2> HIDE DEF i
  <2>6. Prefix(p, i) \in Seq(Names) /\ Len(Prefix(p, i)) = i
    BY <2>5, PrefixOf
  <2>7. Parent(Prefix(p, i)) = Prefix(p, i - 1) /\ Prefix(p, i - 1) # Root
    <3>1. Parent(Prefix(p, i)) = Prefix(Prefix(p, i), i - 1)
      BY <2>6, WholePrefix
    <3>2. i \in 0..Len(p) /\ i - 1 \in 0..Len(p) /\ i - 1 \in 0..i /\ i - 1 > 0
      BY <2>5
    <3> QED
      BY <3>1, <3>2, PrefixOf
  <2>8. Prefix(p, i) \in S
    BY <2>4 DEF i
  <2> QED
    BY <2>2, <2>5, <2>7, <2>8
<1>3. ASSUME NEW i \in 1..k PROVE Prefix(p, i) \in S
  <2>1. k - i \in 0..k - 1 /\ k - (k - i) = i
    OBVIOUS
  <2>2. k - i \notin T
    BY <1>2
  <2> QED
    BY <2>1, <2>2
<1> QED
  BY <1>3

LEMMA PathsAreClosed ==
    ASSUME NEW p \in Paths \cup {Root}
    PROVE  \A i \in 0..Len(p) : Prefix(p, i) \in Paths \cup {Root} /\ (i > 0 => Prefix(p, i) \in Paths)
<1>1. p \in Seq(Names) /\ Paths \subseteq Seq(Names) /\ Root \notin Paths
  BY PathAssumption, RootIsIn
<1>2. Len(p) > 0 => Prefix(p, Len(p)) \in Paths
  BY <1>1, WholePrefix
<1>3. \A i \in 1..Len(p) : Prefix(p, i) \in Paths
  BY <1>1, <1>2, PathAssumption, Ancestors
<1>4. Prefix(p, 0) = Root
  BY <1>1, WholePrefix
<1> QED
  BY <1>1, <1>3, <1>4

LEMMA DirsAbove ==
    ASSUME NEW p \in Files \cup Dirs
    PROVE  \A i \in 1..Len(p) - 1 : Prefix(p, i) \in Dirs
<1>1. p \in Paths /\ p \in Seq(Names) /\ Root \notin Dirs /\ Dirs \subseteq Paths /\ p # Root
  BY PathAssumption, RootIsIn
<1>2. Len(p) \in Nat \ {0} /\ Parent(p) = Prefix(p, Len(p) - 1)
  BY <1>1, ParentOf, WholePrefix
<1>3. Prefix(p, Len(p) - 1) \in Dirs \cup {Root}
  BY <1>2, PathAssumption
<1>4. Len(p) - 1 > 0 => Prefix(p, Len(p) - 1) \in Dirs
  BY <1>1, <1>2, <1>3, PrefixOf
<1> QED
  BY <1>1, <1>2, <1>4, PathAssumption, Ancestors

-----------------------------------------------------------------------------
(* Types.                                                                  *)
Replies == {"none", "ok", "notExist", "exist", "unsupported", "failure"}

\* What an operation resolves: its path, or the directory that is in.
GoalFits(c) ==
    \/ goal[c] = task[c].path /\ task[c].op # "stat"
    \/ goal[c] = Parent(task[c].path) /\ task[c].op \in {"stat", "create", "mkdir"}
StageFits(c) ==
    /\ pc[c] = "idle" => idx[c] = 0
    /\ pc[c] # "idle" => GoalFits(c)
    /\ pc[c] = "listed" => idx[c] < Len(task[c].path)
    /\ pc[c] = "removing" => task[c].op = "remove"
    /\ pc[c] \in {"forgetTo", "renaming"} => task[c].op = "rename"
    /\ pc[c] \in {"removing", "forgetTo", "renaming"} =>
          idx[c] = Len(task[c].path) /\ cur[c].loc # NoLoc
    /\ idx[c] = 0 => cur[c] = RootNode

\* A node with the children it was given inline.
Whole(n) ==
    /\ IsNode(n)
    /\ \A k \in DOMAIN n.kids : IsNode(n.kids[k]) /\ n.kids[k].kids = NoNodes

Shapes ==
    /\ DOMAIN store = Paths /\ DOMAIN resolved = Paths
    /\ DOMAIN pc = Channels /\ DOMAIN task = Channels /\ DOMAIN goal = Channels
    /\ DOMAIN cur = Channels /\ DOMAIN idx = Channels /\ DOMAIN seen = Channels
    /\ DOMAIN reply = Channels /\ DOMAIN listing = Channels /\ DOMAIN writer = Channels
StoreTyped ==
    /\ fresh \in 0..MaxLocs
    /\ \A p \in Paths : store[p] # Absent =>
          /\ store[p] \in [loc : Paths \cup {Assigned(n) : n \in 1..fresh}, dir : BOOLEAN]
CacheTyped == \A p \in Paths : resolved[p] # None => Whole(resolved[p])
ChannelTyped(c) ==
    /\ ChannelOK(c) /\ StageFits(c)
    /\ Whole(cur[c])
    /\ \A n \in DOMAIN seen[c] : Whole(seen[c][n])
Typed ==
    /\ setup \in Setups
    /\ Shapes /\ StoreTyped /\ CacheTyped
    /\ \A c \in Channels : ChannelTyped(c)

LEMMA TasksThereAre ==
    ASSUME setup \in Setups
    PROVE  /\ setup.channels \subseteq Channels
           /\ NoTask \in Tasks
           /\ \A t \in Tasks :
                 /\ t.op \in Operations /\ t.path \in Paths \cup {Root} /\ t.to \in Paths \cup {Root}
                 /\ t.op # "list" => t.path \in Paths
                 /\ t.op = "rename" => t.to \in Paths /\ t.path # t.to
BY SetupAssumption DEF Tasks, NoTask, Operations

LEMMA KindsOfLocs ==
    /\ Root \in Locs /\ NoLoc \in Locs /\ Paths \subseteq Locs
    /\ \A n \in 0..MaxLocs : Assigned(n) \in Locs
    /\ Root # NoLoc /\ Root \notin Paths /\ NoLoc \notin Paths
    /\ \A n : Assigned(n) # Root /\ Assigned(n) # NoLoc
    /\ \A n, m : Assigned(n) = Assigned(m) => n = m
    /\ \A n \in 0..MaxLocs : Assigned(n) \notin Paths
BY LocAssumption, PathAssumption DEF Locs, Root, NoLoc, Assigned

LEMMA StoredLocs ==
    ASSUME StoreTyped, NEW p \in Paths, store[p] # Absent
    PROVE  /\ store[p].loc \in Locs /\ store[p].loc # Root /\ store[p].loc # NoLoc
           /\ store[p].dir \in BOOLEAN
<1>1. store[p].loc \in Paths \cup {Assigned(n) : n \in 1..fresh} /\ store[p].dir \in BOOLEAN
  BY DEF StoreTyped
<1>2. \A n \in 1..fresh : n \in 0..MaxLocs
  BY BoundAssumption DEF StoreTyped
<1> QED
  BY <1>1, <1>2, KindsOfLocs

LEMMA NodesAreWhole ==
    /\ Whole(RootNode)
    /\ \A n : IsNode(n) /\ n.kids = NoNodes => Whole(n)
BY KindsOfLocs DEF Whole, IsNode, RootNode, NoNodes

LEMMA ShownIsWhole ==
    ASSUME StoreTyped, NEW p \in Paths, store[p] # Absent
    PROVE  Whole(Shown(p)) /\ Whole(Plain(p)) /\ Plain(p).kids = NoNodes
<1>1. ASSUME NEW q \in Paths, store[q] # Absent PROVE IsNode(Plain(q)) /\ Plain(q).kids = NoNodes
  BY <1>1, StoredLocs DEF Plain, IsNode, NoNodes
<1>2. Whole(Plain(p))
  BY <1>1, NodesAreWhole
<1>3. CASE p \in InlineDirs /\ store[p].dir /\ Children(p) # {}
  <2> DEFINE kids == [n \in Children(p) |-> Plain(Append(p, n))]
  <2>1. Shown(p) = [loc |-> NoLoc, dir |-> TRUE, kids |-> kids]
    BY <1>3 DEF Shown
  <2>2. \A n \in Children(p) : IsNode(kids[n]) /\ kids[n].kids = NoNodes
    BY <1>1 DEF Children
  <2>3. Children(p) \subseteq Names /\ DOMAIN kids = Children(p)
    BY DEF Children
  <2> HIDE DEF kids
  <2> QED
    BY <1>2, <1>1, <2>1, <2>2, <2>3, KindsOfLocs DEF Whole, IsNode
<1>4. CASE ~(p \in InlineDirs /\ store[p].dir /\ Children(p) # {})
  <2>1. Shown(p) = Plain(p)
    BY <1>4 DEF Shown
  <2> QED
    BY <2>1, <1>1, <1>2
<1> QED
  BY <1>3, <1>4

LEMMA ListingIsWhole ==
    ASSUME StoreTyped, NEW p
    PROVE  \A n \in DOMAIN Listing(p) : n \in Names /\ Whole(Listing(p)[n])
<1> SUFFICES ASSUME NEW n \in Children(p) PROVE n \in Names /\ Whole(Shown(Append(p, n)))
  BY DEF Listing
<1>1. n \in Names /\ Append(p, n) \in Paths /\ store[Append(p, n)] # Absent
  BY DEF Children
<1> QED
  BY <1>1, ShownIsWhole

LEMMA LongestIs ==
    ASSUME NEW p \in Paths \cup {Root}
    PROVE  /\ LongestResolved(p) \in 0..Len(p)
           /\ LongestResolved(p) > 0 => /\ resolved[Prefix(p, LongestResolved(p))] # None
                                        /\ Prefix(p, LongestResolved(p)) \in Paths
<1> DEFINE known == {i \in 1..Len(p) : resolved[Prefix(p, i)] # None}
<1>1. Len(p) \in Nat
  BY PathAssumption, RootIsIn
<1>2. CASE known = {}
  BY <1>1, <1>2 DEF LongestResolved
<1>3. CASE known # {}
  <2> DEFINE T == {Len(p) - i : i \in known}
  <2>1. T \in SUBSET Nat /\ T # {}
    BY <1>1, <1>3
  <2>2. PICK x \in T : \A y \in T : x <= y
    BY <2>1, LeastOfNaturals
  <2>3. PICK i \in known : x = Len(p) - i
    BY <2>2
  <2>4. ASSUME NEW j \in known PROVE j <= i
    <3>1. j \in Nat /\ i \in Nat /\ Len(p) - j \in T
      BY <1>1
    <3>2. x <= Len(p) - j /\ x = Len(p) - i
      BY <2>2, <2>3, <3>1
    <3> QED
      BY <1>1, <3>1, <3>2
  <2> DEFINE m == CHOOSE i_1 \in known : \A j \in known : j <= i_1
  <2>5. m \in known
    BY <2>3, <2>4
  <2>6. LongestResolved(p) = m
    BY <1>3 DEF LongestResolved
  <2> HIDE DEF m
  <2>7. LongestResolved(p) \in 1..Len(p) /\ resolved[Prefix(p, LongestResolved(p))] # None
    BY <2>5, <2>6
  <2> QED
    BY <1>1, <2>7, PathsAreClosed
<1> QED
  BY <1>2, <1>3

-----------------------------------------------------------------------------
(* What a step does.                                                       *)
\* A channel is where it was.
Stays(d) ==
    /\ pc'[d] = pc[d] /\ task'[d] = task[d] /\ reply'[d] = reply[d]
    /\ goal'[d] = goal[d] /\ cur'[d] = cur[d] /\ idx'[d] = idx[d] /\ seen'[d] = seen[d]
Ends(c) ==
    /\ pc'[c] = "idle" /\ task'[c] = NoTask /\ reply'[c] \in Replies
    /\ goal'[c] = Root /\ cur'[c] = RootNode /\ idx'[c] = 0 /\ seen'[c] = NoNodes
\* It begins to walk, from the root or from what is remembered.
Sets(c, p) ==
    /\ pc'[c] = "walk" /\ goal'[c] = p /\ seen'[c] = NoNodes
    /\ \/ idx'[c] = 0 /\ cur'[c] = RootNode
       \/ /\ idx'[c] \in 1..Len(p)
          /\ Prefix(p, idx'[c]) \in Paths /\ resolved[Prefix(p, idx'[c])] # None
          /\ cur'[c] = resolved[Prefix(p, idx'[c])]
Hears(c) ==
    /\ pc'[c] = "listed" /\ task'[c] = task[c] /\ reply'[c] = reply[c]
    /\ goal'[c] = goal[c] /\ cur'[c] = cur[c] /\ idx'[c] = idx[c]
GoesOn(c) ==
    /\ pc'[c] = "walk" /\ task'[c] = task[c] /\ reply'[c] = reply[c]
    /\ goal'[c] = goal[c] /\ seen'[c] = NoNodes
    /\ idx'[c] = idx[c] + 1 /\ cur'[c] = seen[c][NextName(c)]
Forgot(c) ==
    /\ task'[c] = task[c] /\ reply'[c] = reply[c]
    /\ goal'[c] = goal[c] /\ cur'[c] = cur[c] /\ idx'[c] = idx[c] /\ seen'[c] = seen[c]

LEMMA FinishEnds ==
    ASSUME Shapes, NEW c \in Channels, NEW r \in Replies, Finish(c, r)
    PROVE  Ends(c) /\ \A d \in Channels \ {c} : Stays(d)
BY DEF Shapes, Finish, Goto, Ends, Stays

LEMMA ResolveSets ==
    ASSUME Shapes, NEW c \in Channels, NEW p \in Paths \cup {Root}, Resolve(c, p)
    PROVE  /\ Sets(c, p)
           /\ \A d \in Channels \ {c} :
                 /\ pc'[d] = pc[d] /\ goal'[d] = goal[d] /\ cur'[d] = cur[d]
                 /\ idx'[d] = idx[d] /\ seen'[d] = seen[d]
<1> DEFINE n == LongestResolved(p)
<1>1. /\ n \in 0..Len(p)
      /\ n > 0 => resolved[Prefix(p, n)] # None /\ Prefix(p, n) \in Paths
  BY LongestIs
<1>2. /\ goal' = [goal EXCEPT ![c] = p] /\ idx' = [idx EXCEPT ![c] = n]
      /\ cur' = [cur EXCEPT ![c] = IF n = 0 THEN RootNode ELSE resolved[Prefix(p, n)]]
      /\ seen' = [seen EXCEPT ![c] = NoNodes] /\ pc' = [pc EXCEPT ![c] = "walk"]
  BY DEF Resolve, Goto
<1> HIDE DEF n
<1>3. /\ goal'[c] = p /\ idx'[c] = n /\ cur'[c] = (IF n = 0 THEN RootNode ELSE resolved[Prefix(p, n)])
      /\ seen'[c] = NoNodes /\ pc'[c] = "walk"
  BY <1>2 DEF Shapes
<1>4. n = 0 \/ n \in 1..Len(p)
  BY <1>1, PathAssumption, RootIsIn
<1>5. Sets(c, p)
  BY <1>1, <1>3, <1>4 DEF Sets
<1> QED
  BY <1>2, <1>5 DEF Shapes

LEMMA MissingIs ==
    ASSUME Typed, NEW c \in Channels, Missing(c)
    PROVE  /\ \/ Ends(c) /\ reply'[c] = "notExist" /\ ~SeeksParent(c)
              \/ /\ SeeksParent(c)
                 /\ Sets(c, Parent(task[c].path)) /\ task'[c] = task[c] /\ reply'[c] = reply[c]
           /\ \A d \in Channels \ {c} : Stays(d)
<1>1. CASE SeeksParent(c)
  <2>1. Resolve(c, Parent(task[c].path)) /\ task' = task /\ reply' = reply
    BY <1>1 DEF Missing
  <2>2. task[c].path \in Paths
    <3>1. task[c] \in Tasks /\ task[c].op # "list"
      BY <1>1 DEF SeeksParent, Typed, ChannelTyped, ChannelOK
    <3> QED
      BY <3>1, TasksThereAre DEF Typed
  <2>3. Parent(task[c].path) \in Paths \cup {Root}
    BY <2>2, PathAssumption
  <2> QED
    BY <1>1, <2>1, <2>3, ResolveSets DEF Typed, Stays
<1>2. CASE ~SeeksParent(c)
  <2>1. Finish(c, "notExist")
    BY <1>2 DEF Missing
  <2> QED
    BY <1>2, <2>1, FinishEnds DEF Typed, Finish, Shapes, Replies
<1> QED
  BY <1>1, <1>2

\* What a channel's step comes to for the channel.
Answered(c) == Hears(c) /\ NeedsListing(c) /\
    \/ cur[c].loc = NoLoc /\ seen'[c] = cur[c].kids
    \/ /\ Live(cur[c].loc) /\ IsDir(PathOf(cur[c].loc))
       /\ seen'[c] = Listing(PathOf(cur[c].loc))
Descends(c) ==
    pc[c] = "listed" /\ NextName(c) \in DOMAIN seen[c] /\ ~IsAnswer(c) /\ GoesOn(c)
Retreats(c) ==
    /\ pc[c] \in {"walk", "listed"} /\ SeeksParent(c)
    /\ Sets(c, Parent(task[c].path)) /\ task'[c] = task[c] /\ reply'[c] = reply[c]
Readies(c) == Forgot(c) /\
    \/ On(c, {"remove"}) /\ cur[c].loc # NoLoc /\ pc'[c] = "removing"
    \/ On(c, {"rename"}) /\ cur[c].loc # NoLoc /\ pc'[c] = "forgetTo"
    \/ pc[c] = "forgetTo" /\ pc'[c] = "renaming"
Idles(c) == Forgot(c) /\ pc[c] = "idle" /\ pc'[c] = "idle"
Effect(c) ==
    Ends(c) \/ Retreats(c) \/ Answered(c) \/ Descends(c) \/ Readies(c) \/ Idles(c)

LEMMA MissingEffect ==
    ASSUME Typed, NEW c \in Channels, Missing(c), pc[c] \in {"walk", "listed"}
    PROVE  Effect(c) /\ \A d \in Channels \ {c} : Stays(d)
BY MissingIs DEF Effect, Retreats

LEMMA FinishEffect ==
    ASSUME Typed, NEW c \in Channels, NEW r \in Replies, Finish(c, r)
    PROVE  Effect(c) /\ \A d \in Channels \ {c} : Stays(d)
BY FinishEnds DEF Effect, Typed

LEMMA StepEffect ==
    ASSUME Typed, NEW c \in Channels, Step(c)
    PROVE  Effect(c) /\ \A d \in Channels \ {c} : Stays(d)
<1>1. CASE DescendsIntoFile(c) \/ ListsNothing(c) \/ FindsNoChild(c)
  <2>1. Missing(c) /\ pc[c] \in {"walk", "listed"}
    BY <1>1 DEF DescendsIntoFile, ListsNothing, FindsNoChild, NeedsListing, Walking, Statting
  <2> QED
    BY <2>1, MissingEffect
<1>2. CASE \E r \in Replies : Finish(c, r)
  BY <1>2, FinishEffect
<1>3. CASE ListsInline(c)
  <2>1. /\ NeedsListing(c) /\ cur[c].loc = NoLoc /\ seen' = [seen EXCEPT ![c] = cur[c].kids]
        /\ pc' = [pc EXCEPT ![c] = "listed"]
        /\ task' = task /\ goal' = goal /\ cur' = cur /\ idx' = idx /\ reply' = reply
    BY <1>3 DEF ListsInline, Goto
  <2> QED
    BY <2>1 DEF Typed, Shapes, Effect, Answered, Hears, Stays
<1>4. CASE Lists(c)
  <2> DEFINE l == Listing(PathOf(cur[c].loc))
  <2>1. /\ NeedsListing(c) /\ Live(cur[c].loc) /\ IsDir(PathOf(cur[c].loc))
        /\ seen' = [seen EXCEPT ![c] = l]
        /\ pc' = [pc EXCEPT ![c] = "listed"]
        /\ task' = task /\ goal' = goal /\ cur' = cur /\ idx' = idx /\ reply' = reply
    BY <1>4 DEF Lists, Goto
  <2>2. l = Listing(PathOf(cur[c].loc))
    OBVIOUS
  <2> HIDE DEF l
  <2>3. seen'[c] = l /\ pc'[c] = "listed" /\ \A d \in Channels \ {c} : Stays(d)
    BY <2>1 DEF Typed, Shapes, Stays
  <2> QED
    BY <2>1, <2>2, <2>3 DEF Effect, Answered, Hears
<1>5. CASE TakesChild(c) /\ ~IsAnswer(c)
  <2>1. /\ pc[c] = "listed" /\ NextName(c) \in DOMAIN seen[c]
        /\ cur' = [cur EXCEPT ![c] = seen[c][NextName(c)]]
        /\ idx' = [idx EXCEPT ![c] = @ + 1]
        /\ seen' = [seen EXCEPT ![c] = NoNodes]
        /\ pc' = [pc EXCEPT ![c] = "walk"]
        /\ task' = task /\ goal' = goal /\ reply' = reply
    BY <1>5 DEF TakesChild, Goto
  <2> QED
    BY <1>5, <2>1 DEF Typed, Shapes, Effect, Descends, GoesOn, Stays
<1>6. CASE RemoveForgets(c) \/ RenameForgetsSource(c) \/ RenameForgetsTarget(c)
  <2>1. /\ \/ On(c, {"remove"}) /\ cur[c].loc # NoLoc /\ pc' = [pc EXCEPT ![c] = "removing"]
           \/ On(c, {"rename"}) /\ cur[c].loc # NoLoc /\ pc' = [pc EXCEPT ![c] = "forgetTo"]
           \/ pc[c] = "forgetTo" /\ pc' = [pc EXCEPT ![c] = "renaming"]
        /\ task' = task /\ goal' = goal /\ cur' = cur /\ idx' = idx /\ seen' = seen /\ reply' = reply
    BY <1>6 DEF RemoveForgets, RenameForgetsSource, RenameForgetsTarget, Goto, walk
  <2> QED
    BY <2>1 DEF Typed, Shapes, Effect, Readies, Forgot, Stays
<1>7. CASE Commits(c)
  <2>1. /\ pc[c] = "idle" /\ pc' = pc /\ task' = task /\ goal' = goal /\ cur' = cur /\ idx' = idx
        /\ seen' = seen /\ reply' = reply
    BY <1>7 DEF Commits, walk
  <2> QED
    BY <2>1 DEF Typed, Shapes, Effect, Idles, Forgot, Stays
<1>8. CASE TakesChild(c) /\ IsAnswer(c)
  BY <1>8, FinishEffect DEF TakesChild, Replies
<1>9. CASE ListFails(c) \/ WrongKind(c) \/ NoBackend(c) \/ ListReturns(c) \/ CallFails(c) \/ Opens(c)
           \/ CreatesOver(c) \/ CreatesChild(c) \/ NoParent(c) \/ MkdirFindsIt(c) \/ Mkdirs(c)
           \/ Removes(c) \/ Renames(c)
  <2>1. \E r \in Replies : Finish(c, r)
    BY <1>9 DEF ListFails, WrongKind, NoBackend, ListReturns, CallFails, Opens, CreatesOver,
                CreatesChild, NoParent, MkdirFindsIt, Mkdirs, Removes, Renames, Replies
  <2> QED
    BY <2>1, FinishEffect
<1> QED
  BY <1>1, <1>3, <1>4, <1>5, <1>6, <1>7, <1>8, <1>9 DEF Step

Starts(c, t) ==
    /\ pc[c] = "idle" /\ task'[c] = t /\ reply'[c] = "none"
    /\ Sets(c, IF t.op = "stat" THEN Parent(t.path) ELSE t.path)

LEMMA BeginEffect ==
    ASSUME Typed, NEW c \in Channels, NEW t \in Tasks, Begin(c, t)
    PROVE  Starts(c, t) /\ \A d \in Channels \ {c} : Stays(d)
<1> DEFINE p == IF t.op = "stat" THEN Parent(t.path) ELSE t.path
<1>1. p \in Paths \cup {Root}
  BY TasksThereAre, PathAssumption DEF Typed
<1>2. pc[c] = "idle" /\ Resolve(c, p) /\ task' = [task EXCEPT ![c] = t]
      /\ reply' = [reply EXCEPT ![c] = "none"]
  BY DEF Begin
<1>3. p = IF t.op = "stat" THEN Parent(t.path) ELSE t.path
  OBVIOUS
<1> HIDE DEF p
<1>4. /\ Sets(c, p)
      /\ \A d \in Channels \ {c} :
            /\ pc'[d] = pc[d] /\ goal'[d] = goal[d] /\ cur'[d] = cur[d]
            /\ idx'[d] = idx[d] /\ seen'[d] = seen[d]
  BY <1>1, <1>2, ResolveSets DEF Typed
<1> QED
  BY <1>2, <1>3, <1>4 DEF Starts, Stays, Typed, Shapes

-----------------------------------------------------------------------------
(* What a step does to what is shared.                                     *)
StoreStays == store' = store /\ fresh' = fresh
Appears(p, isDir) == p \in Paths /\ ~Exists(p) /\ IsDir(Parent(p)) /\ Put(p, isDir)
StoreStep(c) ==
    \/ StoreStays
    \/ /\ pc'[c] = "idle" /\ resolved' = resolved
       /\ \E p \in Paths, isDir \in BOOLEAN : Appears(p, isDir)
    \/ Removes(c)
    \/ Renames(c)
CacheStep(c) ==
    \/ resolved' = resolved
    \/ TakesChild(c)
    \/ On(c, {"remove", "rename"}) /\ pc'[c] \in {"removing", "forgetTo"} /\ Forget(task[c].path)
    \/ pc[c] = "forgetTo" /\ pc'[c] = "renaming" /\ Forget(task[c].to)

LEMMA StepStores ==
    ASSUME Typed, NEW c \in Channels, Step(c) 
    PROVE  StoreStep(c)
<1>1. CASE Commits(c)
  <2>1. pc'[c] = "idle" /\ resolved' = resolved
    BY <1>1 DEF Commits
  <2>2. StoreStays \/ \E p \in Paths : Lands(writer[c], p)
    BY <1>1 DEF Commits, StoreStays, backend
  <2>3. ASSUME NEW p \in Paths, Lands(writer[c], p) PROVE Appears(p, FALSE)
    BY <2>3 DEF Lands, Appears
  <2> QED
    BY <2>1, <2>2, <2>3 DEF StoreStep
<1>2. CASE Mkdirs(c)
  <2>1. pc'[c] = "idle" /\ resolved' = resolved
    BY <1>2 DEF Mkdirs, Finish, Goto, Typed, Shapes
  <2> DEFINE p == Append(PathOf(cur[c].loc), task[c].path[Len(task[c].path)])
  <2>2. p \in Paths /\ ~Exists(p) /\ IsDir(Parent(p)) /\ Put(p, TRUE)
    BY <1>2 DEF Mkdirs
  <2>3. Appears(p, TRUE)
    BY <2>2 DEF Appears
  <2> HIDE DEF p
  <2> QED
    BY <2>1, <2>2, <2>3 DEF StoreStep
<1>3. CASE Removes(c) \/ Renames(c)
  BY <1>3 DEF StoreStep
<1>4. CASE ~(Commits(c) \/ Mkdirs(c) \/ Removes(c) \/ Renames(c))
  <2>1. UNCHANGED backend
    BY <1>4 DEF Step, DescendsIntoFile, ListsInline, Lists, ListsNothing, ListFails, TakesChild,
          FindsNoChild, WrongKind, NoBackend, ListReturns, CallFails, Opens, CreatesOver,
          CreatesChild, NoParent, MkdirFindsIt, RemoveForgets, RenameForgetsSource,
          RenameForgetsTarget
  <2> QED
    BY <2>1 DEF StoreStep, StoreStays, backend
<1> QED
  BY <1>1, <1>2, <1>3, <1>4

LEMMA StepRemembers ==
    ASSUME Typed, NEW c \in Channels, Step(c) 
    PROVE  CacheStep(c)
<1>1. CASE TakesChild(c)
  BY <1>1 DEF CacheStep
<1>2. CASE RemoveForgets(c) \/ RenameForgetsSource(c) \/ RenameForgetsTarget(c)
  BY <1>2 DEF CacheStep, RemoveForgets, RenameForgetsSource, RenameForgetsTarget, Goto, On, Typed, Shapes
<1>3. CASE ~(TakesChild(c) \/ RemoveForgets(c) \/ RenameForgetsSource(c) \/ RenameForgetsTarget(c))
  <2>1. resolved' = resolved
    BY <1>3 DEF Step, DescendsIntoFile, ListsInline, Lists, ListsNothing, ListFails,
          FindsNoChild, WrongKind, NoBackend, ListReturns, CallFails, Opens, CreatesOver,
          CreatesChild, NoParent, MkdirFindsIt, Commits, Mkdirs, Removes, Renames
  <2> QED
    BY <2>1 DEF CacheStep
<1> QED
  BY <1>1, <1>2, <1>3

LEMMA NextIs ==
    ASSUME Typed, [Next]_vars
    PROVE  /\ setup' = setup
           /\ \/ UNCHANGED vars
              \/ \E c \in setup.channels : c \in Channels /\ Step(c)
              \/ \E c \in setup.channels : c \in Channels /\ StoreStays /\ resolved' = resolved
                                            /\ \E t \in Tasks : Begin(c, t)
BY TasksThereAre DEF Next, Typed, Begin, StoreStays, backend, vars

-----------------------------------------------------------------------------
(* Every variable keeps its type.                                          *)
LEMMA TypedInit == Init => Typed
<1> SUFFICES ASSUME Init PROVE Typed
  OBVIOUS
<1>1. setup \in Setups /\ Shapes
  BY DEF Init, Shapes
<1>2. StoreTyped
  <2>1. \A p \in Paths : store[p] # Absent => store[p] \in [loc : Paths, dir : BOOLEAN]
    BY PathAssumption DEF Init
  <2> QED
    BY <2>1, BoundAssumption DEF Init, StoreTyped
<1>3. CacheTyped
  BY DEF Init, CacheTyped
<1>4. ASSUME NEW c \in Channels PROVE ChannelTyped(c)
  <2>1. /\ pc[c] = "idle" /\ task[c] = NoTask /\ goal[c] = Root /\ cur[c] = RootNode /\ idx[c] = 0
        /\ seen[c] = NoNodes /\ reply[c] = "none"
    BY DEF Init
  <2>2. NoTask \in Tasks /\ Whole(RootNode) /\ DOMAIN NoNodes = {} /\ 0 \in 0..Len(Root)
    BY <1>1, TasksThereAre, NodesAreWhole, RootIsIn DEF NoNodes
  <2> QED
    BY <2>1, <2>2 DEF ChannelTyped, ChannelOK, StageFits, Whole
<1> QED
  BY <1>1, <1>2, <1>3, <1>4 DEF Typed

LEMMA ShapesStep == ASSUME Typed, [Next]_vars PROVE Shapes'
<1>1. CASE UNCHANGED vars
  BY <1>1 DEF vars, Typed, Shapes
<1>2. ASSUME NEW c \in setup.channels, NEW t \in Tasks, Begin(c, t) PROVE Shapes'
  BY <1>2 DEF Begin, Resolve, Goto, backend, Typed, Shapes
<1>3. ASSUME NEW c \in setup.channels, Step(c) PROVE Shapes'
  <2> USE DEF Typed, Shapes, Finish, Resolve, Goto, backend, walk, Missing
  <2>1. CASE DescendsIntoFile(c) \/ ListsNothing(c) \/ FindsNoChild(c)
    BY <2>1 DEF DescendsIntoFile, ListsNothing, FindsNoChild
  <2>2. CASE ListsInline(c) \/ Lists(c)
    BY <2>2 DEF ListsInline, Lists
  <2>3. CASE TakesChild(c)
    BY <2>3 DEF TakesChild
  <2>4. CASE ListFails(c) \/ WrongKind(c) \/ NoBackend(c) \/ ListReturns(c) \/ CallFails(c) \/ Opens(c)
    BY <2>4 DEF ListFails, WrongKind, NoBackend, ListReturns, CallFails, Opens
  <2>5. CASE CreatesOver(c) \/ CreatesChild(c) \/ NoParent(c) \/ MkdirFindsIt(c)
    BY <2>5 DEF CreatesOver, CreatesChild, NoParent, MkdirFindsIt
  <2>6. CASE Commits(c)
    BY <2>6 DEF Commits, Lands, Put
  <2>7. CASE Mkdirs(c)
    BY <2>7 DEF Mkdirs, Put
  <2>8. CASE RemoveForgets(c) \/ RenameForgetsSource(c) \/ RenameForgetsTarget(c)
    BY <2>8 DEF RemoveForgets, RenameForgetsSource, RenameForgetsTarget, Forget
  <2>9. CASE Removes(c) \/ Renames(c)
    BY <2>9 DEF Removes, Renames, Delete, Move
  <2> QED
    BY <1>3, <2>1, <2>2, <2>3, <2>4, <2>5, <2>6, <2>7, <2>8, <2>9 DEF Step
<1> QED
  BY <1>1, <1>2, <1>3, NextIs DEF Next

LEMMA GoalIs ==
    ASSUME Typed, NEW c \in Channels, GoalFits(c)
    PROVE  /\ task[c].path \in Paths \cup {Root} /\ task[c].path \in Seq(Names)
           /\ Len(goal[c]) \in Nat /\ Len(goal[c]) <= Len(task[c].path) /\ Len(task[c].path) \in Nat
           /\ task[c].op \in {"stat"} => Len(goal[c]) = Len(task[c].path) - 1
           /\ \A i \in 0..Len(goal[c]) : Prefix(goal[c], i) = Prefix(task[c].path, i)
<1>1. task[c].path \in Paths \cup {Root} /\ (task[c].op # "list" => task[c].path \in Paths)
  BY TasksThereAre DEF Typed, ChannelTyped, ChannelOK
<1>2. task[c].path \in Seq(Names) /\ Root \notin Paths
  BY <1>1, PathAssumption, RootIsIn
<1>3. CASE goal[c] = task[c].path /\ task[c].op # "stat"
  BY <1>1, <1>2, <1>3
<1>4. CASE goal[c] = Parent(task[c].path) /\ task[c].op \in {"stat", "create", "mkdir"}
  <2>1. task[c].path # Root
    BY <1>1, <1>2, <1>4
  <2>2. /\ Len(goal[c]) = Len(task[c].path) - 1 /\ Len(task[c].path) \in Nat \ {0}
        /\ \A i \in 0..Len(goal[c]) : Prefix(goal[c], i) = Prefix(task[c].path, i)
    BY <1>2, <1>4, <2>1, ParentOf
  <2> QED
    BY <1>1, <1>2, <2>2
<1> QED
  BY <1>3, <1>4 DEF GoalFits

\* A path that is being walked, with the node it resumes from.
LEMMA SetsTyped ==
    ASSUME Typed, NEW c \in Channels, NEW p \in Paths \cup {Root}, Sets(c, p)
    PROVE  /\ pc'[c] = "walk" /\ goal'[c] = p /\ goal'[c] \in Paths \cup {Root}
           /\ Whole(cur'[c]) /\ idx'[c] \in 0..Len(goal'[c])
           /\ seen'[c] = NoNodes
           /\ idx'[c] = 0 => cur'[c] = RootNode
<1>1. Len(p) \in Nat
  BY PathAssumption, RootIsIn
<1>2. Whole(cur'[c])
  BY NodesAreWhole DEF Sets, Typed, CacheTyped
<1> QED
  BY <1>1, <1>2 DEF Sets

LEMMA HereIs ==
    ASSUME Typed, NEW c \in Channels, pc[c] = "listed"
    PROVE  /\ Here(c) \in Paths /\ NextName(c) \in Names
           /\ Here(c) = Append(Prefix(goal[c], idx[c]), NextName(c))
           /\ Here(c) = Prefix(task[c].path, idx[c] + 1) /\ idx[c] + 1 \in 1..Len(task[c].path)
<1>1. GoalFits(c) /\ idx[c] < Len(task[c].path) /\ idx[c] \in 0..Len(goal[c])
  BY DEF Typed, ChannelTyped, StageFits, ChannelOK
<1>2. /\ idx[c] + 1 \in 1..Len(task[c].path) /\ idx[c] \in 0..Len(task[c].path) - 1
      /\ idx[c] + 1 \in 0..Len(task[c].path) /\ idx[c] + 1 > 0
  BY <1>1, GoalIs
<1>3. Here(c) \in Paths
  BY <1>1, <1>2, GoalIs, PathsAreClosed DEF Here
<1>4. Here(c) = Append(Prefix(task[c].path, idx[c]), NextName(c)) /\ NextName(c) \in Names
  BY <1>1, <1>2, GoalIs, NextPrefix DEF Here, NextName
<1>5. Prefix(goal[c], idx[c]) = Prefix(task[c].path, idx[c])
  BY <1>1, GoalIs
<1> QED
  BY <1>2, <1>3, <1>4, <1>5 DEF Here

LEMMA WalkTyped ==
    ASSUME Typed, NEW c \in Channels, setup' = setup,
           NEW p \in Paths \cup {Root}, Sets(c, p), task'[c] \in Tasks, reply'[c] \in Replies,
           GoalFits(c)'
    PROVE  ChannelTyped(c)'
<1>1. Tasks' = Tasks
  BY DEF Tasks
<1>2. DOMAIN NoNodes = {}
  BY DEF NoNodes
<1> QED
  BY <1>1, <1>2, SetsTyped DEF ChannelTyped, ChannelOK, StageFits, Replies, Whole

LEMMA StaysTyped ==
    ASSUME Typed, NEW d \in Channels, setup' = setup, Stays(d)
    PROVE  ChannelTyped(d)'
<1>1. Tasks' = Tasks
  BY DEF Tasks
<1> QED
  BY <1>1 DEF Typed, Stays, ChannelTyped, ChannelOK, StageFits, GoalFits

LEMMA EffectTyped ==
    ASSUME Typed, NEW c \in Channels, setup' = setup, Effect(c)
    PROVE  ChannelTyped(c)'
<1>1. /\ setup \in Setups /\ ChannelTyped(c) /\ ChannelOK(c) /\ StageFits(c) /\ StoreTyped
      /\ Tasks' = Tasks
  BY DEF Typed, ChannelTyped, Tasks
<1>2. CASE Ends(c)
  <2>1. NoTask \in Tasks /\ Whole(RootNode) /\ DOMAIN NoNodes = {} /\ 0 \in 0..Len(Root)
    BY <1>1, TasksThereAre, NodesAreWhole, RootIsIn DEF NoNodes
  <2> QED
    BY <1>1, <1>2, <2>1 DEF Ends, ChannelTyped, ChannelOK, StageFits, Whole, Replies
<1>3. CASE Retreats(c)
  <2>1. task[c] \in Tasks /\ task[c].op \in {"create", "mkdir"}
    BY <1>1, <1>3 DEF Retreats, SeeksParent, ChannelOK
  <2>2. Parent(task[c].path) \in Paths \cup {Root}
    BY <1>1, <2>1, TasksThereAre, PathAssumption
  <2>3. goal'[c] = Parent(task[c].path) /\ task'[c] = task[c] /\ reply'[c] = reply[c]
    BY <1>3, <2>2, SetsTyped DEF Retreats
  <2>4. GoalFits(c)'
    BY <2>1, <2>3 DEF GoalFits
  <2>5. Sets(c, Parent(task[c].path)) /\ reply'[c] \in Replies
    BY <1>1, <1>3, <2>3 DEF Retreats, ChannelOK, Replies
  <2> QED
    BY <2>1, <2>2, <2>3, <2>4, <2>5, WalkTyped
<1>4. CASE Answered(c)
  <2>1. \A n \in DOMAIN seen'[c] : n \in Names /\ Whole(seen'[c][n])
    <3>1. CASE seen'[c] = cur[c].kids
      BY <1>1, <3>1, NodesAreWhole DEF ChannelTyped, Whole, IsNode
    <3>2. CASE seen'[c] = Listing(PathOf(cur[c].loc))
      BY <1>1, <3>2, ListingIsWhole
    <3> QED
      BY <1>4, <3>1, <3>2 DEF Answered
  <2>2. pc[c] = "walk" /\ GoalFits(c) /\ idx[c] \in 0..Len(goal[c])
        /\ (idx[c] < Len(goal[c]) \/ task[c].op = "stat")
    BY <1>1, <1>4 DEF Answered, NeedsListing, Walking, Statting, StageFits, ChannelOK
  <2>3. idx[c] < Len(task[c].path)
    BY <2>2, GoalIs
  <2> QED
    BY <1>1, <1>4, <2>1, <2>2, <2>3 DEF Answered, Hears, ChannelTyped, ChannelOK, StageFits, GoalFits, Whole
<1>5. CASE Descends(c)
  <2>1. GoalFits(c) /\ idx[c] \in 0..Len(goal[c]) /\ idx[c] # Len(goal[c])
    BY <1>1, <1>5 DEF Descends, IsAnswer, StageFits, ChannelOK
  <2>2. idx[c] + 1 \in 0..Len(goal[c]) /\ idx[c] + 1 # 0
    BY <2>1, GoalIs
  <2>3. Whole(cur'[c])
    BY <1>1, <1>5 DEF Descends, GoesOn, ChannelTyped
  <2>4. DOMAIN NoNodes = {}
    BY DEF NoNodes
  <2> QED
    BY <1>1, <1>5, <2>1, <2>2, <2>3, <2>4
       DEF Descends, GoesOn, ChannelTyped, ChannelOK, StageFits, GoalFits, Whole
<1>6. CASE Readies(c)
  <2>1. pc[c] \in {"walk", "forgetTo"} /\ GoalFits(c) /\ pc'[c] \in {"removing", "forgetTo", "renaming"}
    BY <1>1, <1>6 DEF Readies, On, Arrived, StageFits
  <2>2. /\ idx[c] = Len(task[c].path) /\ cur[c].loc # NoLoc
        /\ pc'[c] = "removing" => task[c].op = "remove"
        /\ pc'[c] # "removing" => task[c].op = "rename"
    BY <1>1, <1>6 DEF Readies, On, Arrived, StageFits, GoalFits
  <2> QED
    BY <1>1, <1>6, <2>1, <2>2 DEF Readies, Forgot, ChannelTyped, ChannelOK, StageFits, GoalFits
<1>7. CASE Idles(c)
  BY <1>1, <1>7 DEF Idles, Forgot, ChannelTyped, ChannelOK, StageFits, GoalFits
<1> QED
  BY <1>2, <1>3, <1>4, <1>5, <1>6, <1>7 DEF Effect

LEMMA StartTyped ==
    ASSUME Typed, NEW c \in Channels, setup' = setup, NEW t \in Tasks, Starts(c, t)
    PROVE  ChannelTyped(c)'
<1> DEFINE p == IF t.op = "stat" THEN Parent(t.path) ELSE t.path
<1>1. p \in Paths \cup {Root}
  BY TasksThereAre, PathAssumption DEF Typed
<1>2. task'[c] = t /\ reply'[c] = "none" /\ Sets(c, p)
  BY DEF Starts
<1>3. (t.op = "stat" => p = Parent(t.path)) /\ (t.op # "stat" => p = t.path)
  OBVIOUS
<1> HIDE DEF p
<1>4. GoalFits(c)'
  BY <1>1, <1>2, <1>3, SetsTyped DEF GoalFits
<1> QED
  BY <1>1, <1>2, <1>4, WalkTyped DEF Replies

LEMMA PathOfLive ==
    ASSUME NEW loc, Live(loc)
    PROVE  /\ PathOf(loc) \in Paths \cup {Root}
           /\ loc = Root => PathOf(loc) = Root
           /\ loc # Root => /\ PathOf(loc) \in Paths
                            /\ store[PathOf(loc)] # Absent /\ store[PathOf(loc)].loc = loc
<1>1. CASE loc = Root
  BY <1>1 DEF PathOf
<1>2. CASE loc # Root
  <2> DEFINE Q(p) == store[p] # Absent /\ store[p].loc = loc
  <2>1. \E p \in Paths : Q(p)
    BY <1>2 DEF Live
  <2> DEFINE m == CHOOSE p \in Paths : Q(p)
  <2>2. m \in Paths /\ Q(m)
    BY <2>1
  <2>3. PathOf(loc) = m
    BY <1>2 DEF PathOf
  <2> HIDE DEF m
  <2> QED
    BY <1>2, <2>2, <2>3
<1> QED
  BY <1>1, <1>2

LEMMA MoveIs ==
    ASSUME NEW p \in Paths \cup {Root}, NEW to \in Paths, Move(p, to)
    PROVE  /\ p \in Paths /\ IsDir(Parent(to)) /\ ~Beneath(p, to) /\ ~Beneath(to, p)
           /\ DOMAIN store' = Paths
           /\ \A q \in Paths :
                 /\ Beneath(to, q) =>
                       IF Moved(p, to, q) \in Paths /\ store[Moved(p, to, q)] # Absent
                          THEN store'[q] = Relocated(store[Moved(p, to, q)], q)
                          ELSE store'[q] = Absent
                 /\ ~Beneath(to, q) /\ Beneath(p, q) => store'[q] = Absent
                 /\ ~Beneath(to, q) /\ ~Beneath(p, q) => store'[q] = store[q]
<1>1. IsDir(Parent(to)) /\ ~Beneath(p, to) /\ ~Beneath(to, p)
  BY DEF Move
<1>2. Beneath(Root, to)
  BY PathAssumption, RootIsIn, WholePrefix DEF Beneath
<1>3. p \in Paths /\ p # Root /\ p \in Seq(Names) /\ to \in Seq(Names)
  BY <1>1, <1>2, PathAssumption
<1>4. store' = [q \in Paths |->
          IF Beneath(to, q)
             THEN IF Exists(Moved(p, to, q))
                     THEN Relocated(store[Moved(p, to, q)], q) ELSE Absent
          ELSE IF Beneath(p, q) THEN Absent
          ELSE store[q]]
  BY DEF Move
<1>5. ASSUME NEW q \in Paths, Beneath(to, q), Exists(Moved(p, to, q))
      PROVE  Moved(p, to, q) \in Paths /\ store[Moved(p, to, q)] # Absent
  <2>1. Moved(p, to, q) # Root
    <3>1. q \in Seq(Names) /\ Len(q) \in Nat /\ Len(to) \in Nat /\ Len(to) <= Len(q)
      BY <1>3, <1>5, PathAssumption DEF Beneath
    <3>2. Len(Moved(p, to, q)) = Len(p) + Len(q) - Len(to)
      BY <1>3, <1>5, <3>1, MovedIs
    <3>3. Len(p) \in Nat \ {0}
      BY <1>3, ParentOf
    <3> QED
      BY <3>1, <3>2, <3>3, RootIsIn
  <2> QED
    BY <1>5, <2>1 DEF Exists
<1>6. \A q \in Paths :
         Moved(p, to, q) \in Paths /\ store[Moved(p, to, q)] # Absent => Exists(Moved(p, to, q))
  BY DEF Exists
<1> QED
  BY <1>1, <1>3, <1>4, <1>5, <1>6

\* What Renames and Removes are given.
LEMMA TargetIs ==
    ASSUME Typed, NEW c \in Channels, pc[c] \in {"removing", "forgetTo", "renaming"}
    PROVE  /\ task[c].path \in Paths
           /\ goal[c] = task[c].path /\ idx[c] = Len(task[c].path)
           /\ cur[c].loc # NoLoc /\ Prefix(goal[c], idx[c]) = task[c].path
           /\ pc[c] # "removing" => task[c].to \in Paths
<1>1. /\ task[c] \in Tasks /\ task[c].op \in {"remove", "rename"}
      /\ pc[c] # "removing" => task[c].op = "rename"
      /\ GoalFits(c) /\ idx[c] = Len(task[c].path) /\ cur[c].loc # NoLoc
  BY DEF Typed, ChannelTyped, ChannelOK, StageFits
<1>2. task[c].path \in Paths /\ (pc[c] # "removing" => task[c].to \in Paths)
  BY <1>1, TasksThereAre DEF Typed
<1>3. goal[c] = task[c].path
  BY <1>1 DEF GoalFits
<1> QED
  BY <1>1, <1>2, <1>3, PathAssumption, WholePrefix

LEMMA RemovesIs ==
    ASSUME NEW c, Removes(c)
    PROVE  /\ fresh' = fresh /\ PathOf(cur[c].loc) \in Paths \cup {Root}
           /\ \A q \in Paths : store'[q] = IF Beneath(PathOf(cur[c].loc), q) THEN Absent ELSE store[q]
<1> DEFINE p == PathOf(cur[c].loc)
<1>1. Live(cur[c].loc) /\ Delete(p) /\ fresh' = fresh
  BY DEF Removes
<1>2. p \in Paths \cup {Root}
  BY <1>1, PathOfLive
<1> HIDE DEF p
<1>3. \A q \in Paths : store'[q] = IF Beneath(p, q) THEN Absent ELSE store[q]
  BY <1>1 DEF Delete
<1> QED
  BY <1>1, <1>2, <1>3 DEF p

LEMMA RenamesIs ==
    ASSUME Typed, NEW c \in Channels, Renames(c)
    PROVE  /\ fresh' = fresh /\ PathOf(cur[c].loc) \in Paths \cup {Root}
           /\ task[c].to \in Paths /\ Move(PathOf(cur[c].loc), task[c].to)
BY PathOfLive, TargetIs DEF Renames

LEMMA RelocatedIs ==
    ASSUME setup \in Setups, StoreTyped, NEW q \in Paths, NEW r \in Paths, store[r] # Absent
    PROVE  /\ Relocated(store[r], q) \in [loc : Paths \cup {Assigned(n) : n \in 1..fresh}, dir : BOOLEAN]
           /\ Relocated(store[r], q).dir = store[r].dir
           /\ PathLocs => Relocated(store[r], q).loc = q
           /\ ~PathLocs => Relocated(store[r], q) = store[r]
           /\ Relocated(store[r], q) # Absent
<1>1. store[r] \in [loc : Paths \cup {Assigned(n) : n \in 1..fresh}, dir : BOOLEAN]
  BY DEF StoreTyped
<1> DEFINE o == store[r]
<1>2. o \in [loc : Paths \cup {Assigned(n) : n \in 1..fresh}, dir : BOOLEAN]
  BY <1>1
<1> HIDE DEF o
<1>3. PathLocs => /\ Relocated(o, q) = [loc |-> q, dir |-> o.dir]
                  /\ o.dir \in BOOLEAN
  BY <1>2 DEF Relocated
<1>4. ~PathLocs => Relocated(o, q) = o
  BY DEF Relocated
<1>5. PathLocs => Relocated(o, q) \in [loc : Locs, dir : BOOLEAN]
  BY <1>3, KindsOfLocs
<1>6. Relocated(o, q) # Absent
  BY <1>4, <1>5, LocAssumption DEF o
<1> QED
  BY <1>2, <1>3, <1>4, <1>6 DEF o

LEMMA PutIs ==
    ASSUME Typed, NEW p, NEW isDir \in BOOLEAN, Appears(p, isDir)
    PROVE  /\ p \in Paths /\ store[p] = Absent
           /\ \A q \in Paths \ {p} : store'[q] = store[q]
           /\ store'[p] \in [loc : Paths \cup {Assigned(n) : n \in 1..fresh'}, dir : BOOLEAN]
           /\ IF PathLocs THEN store'[p].loc = p /\ fresh' = fresh
              ELSE store'[p].loc = Assigned(fresh + 1) /\ fresh' = fresh + 1
           /\ fresh' \in 0..MaxLocs /\ fresh \in 0..fresh'
           /\ IsDir(Parent(p))
<1>1. /\ p \in Paths /\ store[p] = Absent /\ IsDir(Parent(p)) /\ Put(p, isDir)
      /\ DOMAIN store = Paths /\ fresh \in 0..MaxLocs /\ MaxLocs \in Nat
  BY BoundAssumption DEF Appears, Exists, Typed, Shapes, StoreTyped
<1>2. /\ store' = [store EXCEPT ![p] = [loc |-> NewLoc(p), dir |-> isDir]]
      /\ fresh' = (IF PathLocs THEN fresh ELSE fresh + 1)
      /\ PathLocs \/ fresh < MaxLocs
  BY <1>1 DEF Put, CanAssign, Assign
<1>3. /\ store'[p] = [loc |-> NewLoc(p), dir |-> isDir]
      /\ \A q \in Paths \ {p} : store'[q] = store[q]
  BY <1>1, <1>2
<1>4. /\ fresh' \in 0..MaxLocs /\ fresh \in 0..fresh'
      /\ ~PathLocs => fresh + 1 \in 1..fresh'
  BY <1>1, <1>2
<1>5. NewLoc(p) \in Paths \cup {Assigned(n) : n \in 1..fresh'}
  BY <1>1, <1>4 DEF NewLoc
<1> QED
  BY <1>1, <1>2, <1>3, <1>4, <1>5 DEF NewLoc

\* What a step does to the store is one of four things.
StorePuts == \E p \in Paths, isDir \in BOOLEAN : Appears(p, isDir)
LEMMA StoreStepIs ==
    ASSUME Typed, [Next]_vars
    PROVE  StoreStays \/ StorePuts \/ \E c \in Channels : c \in setup.channels /\ (Removes(c) \/ Renames(c))
<1>1. CASE UNCHANGED vars
  BY <1>1 DEF vars, StoreStays
<1>2. ASSUME NEW c \in setup.channels, c \in Channels, Step(c)
      PROVE  StoreStays \/ StorePuts \/ Removes(c) \/ Renames(c)
  BY <1>2, StepStores DEF StoreStep, StorePuts
<1> QED
  BY <1>1, <1>2, NextIs

LEMMA StoreTypedStep == ASSUME Typed, [Next]_vars PROVE StoreTyped'
<1> DEFINE Objects(k) == [loc : Paths \cup {Assigned(n) : n \in 1..k}, dir : BOOLEAN]
<1>1. /\ fresh \in 0..MaxLocs /\ \A p \in Paths : store[p] # Absent => store[p] \in Objects(fresh)
      /\ StoreTyped /\ setup \in Setups
  BY DEF Typed, StoreTyped
<1>2. SUFFICES /\ fresh' \in 0..MaxLocs
               /\ \A p \in Paths : store'[p] # Absent => store'[p] \in Objects(fresh')
  BY DEF StoreTyped
<1>3. CASE StoreStays
  BY <1>1, <1>3 DEF StoreStays
<1>4. CASE StorePuts
  <2>1. PICK p \in Paths, isDir \in BOOLEAN : Appears(p, isDir)
    BY <1>4 DEF StorePuts
  <2>2. /\ fresh' \in 0..MaxLocs /\ fresh \in 0..fresh' /\ store'[p] \in Objects(fresh')
        /\ \A q \in Paths \ {p} : store'[q] = store[q]
    BY <2>1, PutIs
  <2>3. 1..fresh \subseteq 1..fresh'
    BY <2>2, BoundAssumption
  <2>4. \A x : x \in Objects(fresh) => x \in Objects(fresh')
    BY <2>3
  <2> HIDE DEF Objects
  <2> QED
    BY <1>1, <2>2, <2>4
<1>5. ASSUME NEW c \in Channels, Removes(c)
      PROVE  fresh' \in 0..MaxLocs /\ \A p \in Paths : store'[p] # Absent => store'[p] \in Objects(fresh')
  BY <1>1, <1>5, RemovesIs
<1>6. ASSUME NEW c \in Channels, Renames(c)
      PROVE  fresh' \in 0..MaxLocs /\ \A p \in Paths : store'[p] # Absent => store'[p] \in Objects(fresh')
  <2>1. /\ fresh' = fresh /\ PathOf(cur[c].loc) \in Paths \cup {Root} /\ task[c].to \in Paths
        /\ Move(PathOf(cur[c].loc), task[c].to)
    BY <1>6, RenamesIs
  <2>2. \A q \in Paths : \/ store'[q] = Absent \/ store'[q] = store[q]
                         \/ \E r \in Paths : store[r] # Absent /\ store'[q] = Relocated(store[r], q)
    BY <2>1, MoveIs
  <2>3. \A q, r \in Paths : store[r] # Absent => Relocated(store[r], q) \in Objects(fresh)
    BY <1>1, RelocatedIs
  <2> HIDE DEF Objects
  <2> QED
    BY <1>1, <2>1, <2>2, <2>3
<1> QED
  BY <1>3, <1>4, <1>5, <1>6, StoreStepIs

LEMMA CacheStepIs ==
    ASSUME Typed, [Next]_vars
    PROVE  resolved' = resolved \/ \E c \in setup.channels : c \in Channels /\ Step(c) /\ CacheStep(c)
<1>1. CASE UNCHANGED vars
  BY <1>1 DEF vars
<1> QED
  BY <1>1, NextIs, StepRemembers

\* What is remembered anew.
LEMMA RemembersIs ==
    ASSUME Typed, NEW c \in Channels, CacheStep(c), NEW p \in Paths, resolved'[p] # None
    PROVE  \/ resolved'[p] = resolved[p]
           \/ TakesChild(c) /\ p = Here(c) /\ resolved'[p] = seen[c][NextName(c)]
              /\ pc[c] = "listed" /\ NextName(c) \in DOMAIN seen[c]
<1>1. DOMAIN resolved = Paths
  BY DEF Typed, Shapes
<1>2. CASE TakesChild(c)
  <2>1. /\ resolved' = [resolved EXCEPT ![Here(c)] = seen[c][NextName(c)]]
        /\ pc[c] = "listed" /\ NextName(c) \in DOMAIN seen[c]
    BY <1>2 DEF TakesChild
  <2> QED
    BY <1>1, <1>2, <2>1
<1>3. ASSUME NEW q, Forget(q) PROVE resolved'[p] = resolved[p]
  BY <1>3 DEF Forget
<1> QED
  BY <1>2, <1>3 DEF CacheStep

LEMMA CacheTypedStep == ASSUME Typed, [Next]_vars PROVE CacheTyped'
<1>1. SUFFICES ASSUME NEW p \in Paths, resolved'[p] # None PROVE Whole(resolved'[p])
  BY DEF CacheTyped
<1>2. CASE resolved'[p] = resolved[p]
  BY <1>1, <1>2 DEF Typed, CacheTyped
<1>3. ASSUME NEW c \in Channels, NextName(c) \in DOMAIN seen[c], resolved'[p] = seen[c][NextName(c)]
      PROVE  Whole(resolved'[p])
  BY <1>3 DEF Typed, ChannelTyped
<1> QED
  BY <1>1, <1>2, <1>3, CacheStepIs, RemembersIs

LEMMA TypedStep == ASSUME Typed, [Next]_vars PROVE Typed'
<1>1. setup' = setup /\ setup \in Setups
  BY NextIs DEF Typed
<1>2. \A c \in Channels : ChannelTyped(c)'
  <2>1. CASE UNCHANGED vars
    <3>1. \A c \in Channels : Stays(c)
      BY <2>1 DEF vars, Stays
    <3> QED
      BY <1>1, <3>1, StaysTyped
  <2>2. ASSUME NEW c \in setup.channels, c \in Channels, Step(c) PROVE \A d \in Channels : ChannelTyped(d)'
    BY <1>1, <2>2, StepEffect, EffectTyped, StaysTyped
  <2>3. ASSUME NEW c \in setup.channels, c \in Channels, NEW t \in Tasks, Begin(c, t)
        PROVE \A d \in Channels : ChannelTyped(d)'
    BY <1>1, <2>3, BeginEffect, StartTyped, StaysTyped
  <2> QED
    BY <2>1, <2>2, <2>3, NextIs
<1> QED
  BY <1>1, <1>2, ShapesStep, StoreTypedStep, CacheTypedStep DEF Typed

LEMMA AlwaysTyped == Spec => []Typed
<1>1. Typed /\ [Next]_vars => Typed'
  BY TypedStep
<1> QED
  BY <1>1, TypedInit, PTL DEF Spec

\* Every variable has its type.
THEOREM TypeCorrect == Spec => []TypeOK
<1>1. Typed => TypeOK
  BY StoredLocs DEF Typed, TypeOK, StoreTyped, CacheTyped, ChannelTyped, Whole
<1> QED
  BY <1>1, AlwaysTyped, PTL

-----------------------------------------------------------------------------
(* The store: each location is at one path, and what is beneath a path is  *)
(* in a directory there.                                                   *)
AncestorsThere ==
    \A p \in Paths : store[p] # Absent =>
       \A i \in 1..Len(p) - 1 : store[Prefix(p, i)] # Absent /\ store[Prefix(p, i)].dir
OneEach ==
    \A p, q \in Paths : store[p] # Absent /\ store[q] # Absent /\ store[p].loc = store[q].loc => p = q
LocsArePaths == PathLocs => \A p \in Paths : store[p] # Absent => store[p].loc = p
StoreInv == AncestorsThere /\ OneEach /\ LocsArePaths

LEMMA StoreInvInit == Init => StoreInv
<1> SUFFICES ASSUME Init PROVE StoreInv
  OBVIOUS
<1>1. /\ \A p \in Paths : store[p] = IF p \in Files \cup Dirs THEN [loc |-> p, dir |-> p \in Dirs]
                                     ELSE Absent
      /\ Dirs \subseteq Paths
  BY PathAssumption DEF Init
<1>2. \A p \in Dirs : store[p] # Absent /\ store[p].dir
  <2> SUFFICES ASSUME NEW p \in Dirs PROVE store[p] # Absent /\ store[p].dir
    OBVIOUS
  <2>1. store[p] = [loc |-> p, dir |-> TRUE]
    BY <1>1
  <2>2. [loc |-> p, dir |-> TRUE] \in [loc : Locs, dir : BOOLEAN]
    BY <1>1, KindsOfLocs
  <2> QED
    BY <2>1, <2>2, LocAssumption
<1>3. AncestorsThere
  BY <1>1, <1>2, DirsAbove DEF AncestorsThere
<1>4. ASSUME NEW p \in Paths, store[p] # Absent PROVE store[p].loc = p
  <2>1. store[p] = [loc |-> p, dir |-> p \in Dirs]
    BY <1>1, <1>4
  <2> QED
    BY <2>1
<1> QED
  BY <1>3, <1>4 DEF StoreInv, OneEach, LocsArePaths

LEMMA PrefixesThere ==
    ASSUME NEW p \in Paths
    PROVE  /\ p \in Seq(Names) /\ Len(p) \in Nat \ {0}
           /\ \A i \in 1..Len(p) - 1 : /\ Prefix(p, i) \in Paths /\ i \in 0..Len(p) /\ i \in Nat \ {0}
                                       /\ Len(Prefix(p, i)) = i
<1>1. p \in Seq(Names) /\ p # Root
  BY PathAssumption
<1>2. Len(p) \in Nat \ {0}
  BY <1>1, ParentOf
<1>3. ASSUME NEW i \in 1..Len(p) - 1
      PROVE  Prefix(p, i) \in Paths /\ i \in 0..Len(p) /\ i \in Nat \ {0} /\ Len(Prefix(p, i)) = i
  <2>1. i \in 0..Len(p) /\ i > 0 /\ i \in Nat \ {0}
    BY <1>2
  <2> QED
    BY <1>1, <2>1, PathsAreClosed, PrefixOf
<1> QED
  BY <1>1, <1>2, <1>3

\* Everything above something whose directory is there, is there.
LEMMA AboveIsThere ==
    ASSUME AncestorsThere, NEW p \in Paths, IsDir(Parent(p)), NEW i \in 1..Len(p) - 1
    PROVE  store[Prefix(p, i)] # Absent /\ store[Prefix(p, i)].dir
<1>1. /\ p \in Seq(Names) /\ Len(p) \in Nat \ {0} /\ i \in 0..Len(p) - 1 /\ i \in Nat \ {0}
      /\ p # Root /\ Parent(p) = Prefix(p, Len(p) - 1)
  BY PathAssumption, PrefixesThere, WholePrefix
<1>2. Len(Parent(p)) = Len(p) - 1 /\ Prefix(Parent(p), i) = Prefix(p, i)
  BY <1>1, ParentOf
<1>3. Parent(p) \in Paths /\ store[Parent(p)] # Absent /\ store[Parent(p)].dir
  BY <1>1, <1>2, RootIsIn DEF IsDir
<1>4. CASE i = Len(p) - 1
  BY <1>1, <1>3, <1>4
<1>5. CASE i # Len(p) - 1
  <2>1. i \in 1..Len(Parent(p)) - 1
    BY <1>1, <1>2, <1>5
  <2>2. store[Prefix(Parent(p), i)] # Absent /\ store[Prefix(Parent(p), i)].dir
    BY <1>3, <2>1 DEF AncestorsThere
  <2> QED
    BY <1>2, <2>2
<1> QED
  BY <1>4, <1>5

LEMMA StoreInvPut ==
    ASSUME Typed, StoreInv, StorePuts, setup' = setup
    PROVE  StoreInv'
<1>1. PICK p \in Paths, isDir \in BOOLEAN : Appears(p, isDir)
  BY DEF StorePuts
<1>2. /\ store[p] = Absent /\ IsDir(Parent(p))
      /\ \A q \in Paths \ {p} : store'[q] = store[q]
      /\ IF PathLocs THEN store'[p].loc = p ELSE store'[p].loc = Assigned(fresh + 1)
  BY <1>1, PutIs
<1>3. AncestorsThere'
  <2> SUFFICES ASSUME NEW q \in Paths, store'[q] # Absent, NEW i \in 1..Len(q) - 1
               PROVE  store'[Prefix(q, i)] # Absent /\ store'[Prefix(q, i)].dir
    BY DEF AncestorsThere
  <2>1. store[Prefix(q, i)] # Absent /\ store[Prefix(q, i)].dir
    <3>1. CASE q = p
      BY <1>2, <3>1, AboveIsThere DEF StoreInv
    <3>2. CASE q # p
      BY <1>2, <3>2 DEF StoreInv, AncestorsThere
    <3> QED
      BY <3>1, <3>2
  <2>2. Prefix(q, i) \in Paths
    BY PrefixesThere
  <2> QED
    BY <1>2, <2>1, <2>2
<1>4. LocsArePaths'
  BY <1>2 DEF StoreInv, LocsArePaths, PathLocs
<1>5. OneEach'
  <2>1. CASE PathLocs
    BY <1>4, <2>1 DEF LocsArePaths, OneEach, PathLocs
  <2>2. CASE ~PathLocs
    <3>1. ASSUME NEW q \in Paths, store[q] # Absent PROVE store[q].loc # Assigned(fresh + 1)
      <4>1. fresh + 1 \in 0..MaxLocs /\ fresh \in Nat /\ fresh + 1 \notin 1..fresh
        <5>1. PathLocs \/ fresh < MaxLocs
          BY <1>1 DEF Appears, Put, CanAssign
        <5> QED
          BY <2>2, <5>1, BoundAssumption DEF Typed, StoreTyped
      <4>2. store[q].loc \in Paths \cup {Assigned(n) : n \in 1..fresh}
        BY <3>1 DEF Typed, StoreTyped
      <4> QED
        BY <4>1, <4>2, KindsOfLocs
    <3> QED
      BY <1>2, <2>2, <3>1 DEF StoreInv, OneEach
  <2> QED
    BY <2>1, <2>2
<1> QED
  BY <1>3, <1>4, <1>5 DEF StoreInv

LEMMA StoreInvRemoves ==
    ASSUME Typed, StoreInv, NEW c \in Channels, Removes(c), setup' = setup
    PROVE  StoreInv'
<1>1. PICK p \in Paths \cup {Root} :
         \A q \in Paths : store'[q] = IF Beneath(p, q) THEN Absent ELSE store[q]
  BY RemovesIs
<1>2. p \in Seq(Names)
  BY PathAssumption, RootIsIn
<1>3. AncestorsThere'
  <2> SUFFICES ASSUME NEW q \in Paths, store'[q] # Absent, NEW i \in 1..Len(q) - 1
               PROVE  store'[Prefix(q, i)] # Absent /\ store'[Prefix(q, i)].dir
    BY DEF AncestorsThere
  <2>1. store'[q] = store[q] /\ ~Beneath(p, q)
    BY <1>1
  <2>2. store[Prefix(q, i)] # Absent /\ store[Prefix(q, i)].dir
    BY <2>1 DEF StoreInv, AncestorsThere
  <2>3. Prefix(q, i) \in Paths /\ ~Beneath(p, Prefix(q, i))
    BY <1>2, <2>1, PrefixesThere, BeneathIs
  <2> QED
    BY <1>1, <2>2, <2>3
<1> QED
  BY <1>1, <1>3 DEF StoreInv, OneEach, LocsArePaths, PathLocs

LEMMA StoreInvRenames ==
    ASSUME Typed, StoreInv, NEW c \in Channels, Renames(c), setup' = setup
    PROVE  StoreInv'
<1> DEFINE p == PathOf(cur[c].loc)
           to == task[c].to
<1>1. /\ p \in Paths /\ to \in Paths /\ IsDir(Parent(to)) /\ ~Beneath(p, to) /\ ~Beneath(to, p)
      /\ \A q \in Paths :
            /\ Beneath(to, q) =>
                  IF Moved(p, to, q) \in Paths /\ store[Moved(p, to, q)] # Absent
                     THEN store'[q] = Relocated(store[Moved(p, to, q)], q)
                     ELSE store'[q] = Absent
            /\ ~Beneath(to, q) /\ Beneath(p, q) => store'[q] = Absent
            /\ ~Beneath(to, q) /\ ~Beneath(p, q) => store'[q] = store[q]
  BY RenamesIs, MoveIs
<1> HIDE DEF p, to
<1>2. p \in Seq(Names) /\ to \in Seq(Names) /\ Paths \subseteq Seq(Names)
  BY <1>1, PathAssumption
<1>3. \A q, r \in Paths : store[r] # Absent =>
         /\ Relocated(store[r], q).dir = store[r].dir /\ Relocated(store[r], q) # Absent
         /\ PathLocs => Relocated(store[r], q).loc = q
         /\ ~PathLocs => Relocated(store[r], q) = store[r]
  BY RelocatedIs DEF Typed
<1>4. AncestorsThere'
  <2> SUFFICES ASSUME NEW q \in Paths, store'[q] # Absent, NEW i \in 1..Len(q) - 1
               PROVE  store'[Prefix(q, i)] # Absent /\ store'[Prefix(q, i)].dir
    BY DEF AncestorsThere
  <2>1. /\ Prefix(q, i) \in Paths /\ q \in Seq(Names) /\ i \in 0..Len(q) /\ Len(q) \in Nat
        /\ Len(Prefix(q, i)) = i /\ Len(to) \in Nat \ {0} /\ Len(p) \in Nat \ {0}
    BY <1>1, PrefixesThere
  <2>2. CASE ~Beneath(to, q)
    <3>1. store'[q] = store[q] /\ ~Beneath(p, q)
      BY <1>1, <2>2
    <3>2. store[Prefix(q, i)] # Absent /\ store[Prefix(q, i)].dir
      BY <3>1 DEF StoreInv, AncestorsThere
    <3>3. ~Beneath(p, Prefix(q, i)) /\ ~Beneath(to, Prefix(q, i))
      BY <1>2, <2>1, <2>2, <3>1, BeneathIs
    <3> QED
      BY <1>1, <2>1, <3>2, <3>3
  <2>3. CASE Beneath(to, q) /\ i < Len(to)
    <3>1. Prefix(q, i) = Prefix(to, i) /\ i \in 1..Len(to) - 1 /\ i \in 0..Len(to)
      <4>1. i \in 1..Len(to) - 1 /\ i \in 0..Len(to)
        BY <2>1, <2>3
      <4> QED
        BY <1>2, <2>1, <2>3, <4>1, BeneathIs
    <3>2. store[Prefix(to, i)] # Absent /\ store[Prefix(to, i)].dir
      BY <1>1, <3>1, AboveIsThere DEF StoreInv
    <3>3. ~Beneath(p, Prefix(to, i))
      BY <1>1, <1>2, <3>1, BeneathIs
    <3>4. ~Beneath(to, Prefix(q, i))
      BY <2>1, <2>3 DEF Beneath
    <3> QED
      BY <1>1, <2>1, <3>1, <3>2, <3>3, <3>4
  <2>4. CASE Beneath(to, q) /\ ~(i < Len(to))
    <3>1. /\ Moved(p, to, q) \in Paths /\ store[Moved(p, to, q)] # Absent
      BY <1>1, <2>4
    <3>2. Beneath(to, Prefix(q, i)) /\ i \in Len(to)..Len(q)
      <4>1. i \in Len(to)..Len(q) /\ Len(to) <= i
        BY <2>1, <2>4
      <4> QED
        BY <1>2, <2>1, <2>4, <4>1, BeneathIs
    <3> DEFINE k == Len(p) + i - Len(to)
               m == Moved(p, to, q)
    <3>3. /\ Moved(p, to, Prefix(q, i)) = Prefix(m, k)
          /\ Len(m) = Len(p) + Len(q) - Len(to)
      BY <1>2, <2>1, <2>4, <3>2, MovedIs
    <3>4. k \in 1..Len(m) - 1
      BY <2>1, <2>4, <3>2, <3>3
    <3> HIDE DEF k, m
    <3>5. m \in Paths /\ store[m] # Absent
      BY <3>1 DEF m
    <3>6. Prefix(m, k) \in Paths /\ store[Prefix(m, k)] # Absent /\ store[Prefix(m, k)].dir
      BY <3>4, <3>5, PrefixesThere DEF StoreInv, AncestorsThere
    <3>7. store'[Prefix(q, i)] = Relocated(store[Prefix(m, k)], Prefix(q, i))
      <4>1. Moved(p, to, Prefix(q, i)) = Prefix(m, k)
        BY <3>3 DEF m
      <4> QED
        BY <1>1, <2>1, <3>2, <3>6, <4>1
    <3> QED
      BY <1>3, <2>1, <3>6, <3>7
  <2> QED
    BY <2>2, <2>3, <2>4
<1>5. LocsArePaths'
  BY <1>1, <1>3 DEF StoreInv, LocsArePaths, PathLocs
<1>6. OneEach'
  <2>1. CASE PathLocs
    BY <1>5, <2>1 DEF LocsArePaths, OneEach, PathLocs
  <2>2. CASE ~PathLocs
    <3> SUFFICES ASSUME NEW q \in Paths, NEW r \in Paths, store'[q] # Absent, store'[r] # Absent,
                        store'[q].loc = store'[r].loc
                 PROVE  q = r
      BY DEF OneEach
    <3> DEFINE From(x) == IF Beneath(to, x) THEN Moved(p, to, x) ELSE x
    <3>1. ASSUME NEW x \in Paths, store'[x] # Absent
          PROVE  From(x) \in Paths /\ store[From(x)] # Absent /\ store'[x] = store[From(x)]
                 /\ (Beneath(p, From(x)) <=> Beneath(to, x))
      <4>1. CASE Beneath(to, x)
        BY <1>1, <1>2, <1>3, <2>2, <3>1, <4>1, MovedIs
      <4>2. CASE ~Beneath(to, x)
        BY <1>1, <3>1, <4>2
      <4> QED
        BY <4>1, <4>2
    <3>2. From(q) = From(r)
      BY <3>1 DEF StoreInv, OneEach
    <3>3. Beneath(to, q) <=> Beneath(to, r)
      BY <3>1, <3>2
    <3> QED
      BY <1>2, <3>2, <3>3, MovedTellsApart
  <2> QED
    BY <2>1, <2>2
<1> QED
  BY <1>4, <1>5, <1>6 DEF StoreInv

LEMMA StoreInvStep == ASSUME Typed, StoreInv, [Next]_vars PROVE StoreInv'
<1>1. setup' = setup
  BY NextIs
<1>2. CASE StoreStays
  BY <1>1, <1>2 DEF StoreStays, StoreInv, AncestorsThere, OneEach, LocsArePaths, PathLocs
<1> QED
  BY <1>1, <1>2, StoreStepIs, StoreInvPut, StoreInvRemoves, StoreInvRenames

-----------------------------------------------------------------------------
(* Where locations are paths, a node is where its location says.           *)
Placed(n, p, inline) ==
    /\ n.loc = p \/ (n.loc = NoLoc /\ p \in inline)
    /\ \A k \in DOMAIN n.kids : n.kids[k].loc = Append(p, k)
HandPlaced(c) ==
    /\ Placed(cur[c], Prefix(goal[c], idx[c]), InlineDirs)
    /\ \A k \in DOMAIN seen[c] :
          Placed(seen[c][k], Append(Prefix(goal[c], idx[c]), k), InlineDirs)
PlaceInv ==
    PathLocs =>
       /\ \A p \in Paths : resolved[p] # None => Placed(resolved[p], p, InlineDirs)
       /\ \A c \in Channels : HandPlaced(c)

\* The path a channel's walk has reached.
LEMMA ReachedIs ==
    ASSUME Typed, NEW c \in Channels
    PROVE  /\ Prefix(goal[c], idx[c]) \in Paths \cup {Root}
           /\ idx[c] = 0 <=> Prefix(goal[c], idx[c]) = Root
           /\ Prefix(goal[c], idx[c]) = Root => cur[c] = RootNode
<1>1. /\ goal[c] \in Paths \cup {Root} /\ idx[c] \in 0..Len(goal[c])
      /\ idx[c] = 0 => cur[c] = RootNode
  BY DEF Typed, ChannelTyped, ChannelOK, StageFits
<1>2. goal[c] \in Seq(Names) /\ Len(goal[c]) \in Nat
  <2>1. Paths \subseteq Seq(Names) /\ Root \in Seq(Names)
    BY PathAssumption, RootIsIn
  <2> QED
    BY <1>1, <2>1
<1>3. Prefix(goal[c], 0) = Root /\ (idx[c] > 0 => Prefix(goal[c], idx[c]) # Root)
  BY <1>1, <1>2, WholePrefix, PrefixOf
<1> QED
  BY <1>1, <1>2, <1>3, PathsAreClosed

LEMMA RootIsPlaced == \A inline : Placed(RootNode, Root, inline) /\ DOMAIN NoNodes = {}
BY DEF Placed, RootNode, NoNodes

LEMMA ShownIsPlaced ==
    ASSUME PathLocs, LocsArePaths, NEW p \in Paths, store[p] # Absent
    PROVE  Placed(Shown(p), p, InlineDirs)
<1>1. \A q \in Paths : store[q] # Absent => Plain(q).loc = q /\ Plain(q).kids = NoNodes
  BY DEF LocsArePaths, Plain
<1>2. CASE p \in InlineDirs /\ store[p].dir /\ Children(p) # {}
  <2> DEFINE kids == [n \in Children(p) |-> Plain(Append(p, n))]
  <2>1. Shown(p) = [loc |-> NoLoc, dir |-> TRUE, kids |-> kids]
    BY <1>2 DEF Shown
  <2>2. \A k \in DOMAIN kids : kids[k].loc = Append(p, k)
    BY <1>1 DEF Children
  <2> HIDE DEF kids
  <2> QED
    BY <1>2, <2>1, <2>2 DEF Placed
<1>3. CASE ~(p \in InlineDirs /\ store[p].dir /\ Children(p) # {})
  <2>1. Shown(p) = Plain(p)
    BY <1>3 DEF Shown
  <2> QED
    BY <1>1, <2>1, RootIsPlaced DEF Placed
<1> QED
  BY <1>2, <1>3

LEMMA RootLeads ==
    ASSUME Typed
    PROVE  Live(Root) /\ PathOf(Root) = Root /\ ~Live(NoLoc)
<1>1. ~Live(NoLoc)
  BY KindsOfLocs, StoredLocs DEF Live, Typed
<1> QED
  BY <1>1 DEF Live, PathOf

\* A location leads back to the one path it is at.
LEMMA LocLeads ==
    ASSUME Typed, StoreInv, NEW p \in Paths, store[p] # Absent
    PROVE  Live(store[p].loc) /\ PathOf(store[p].loc) = p /\ store[p].loc # NoLoc
<1>1. store[p].loc # Root /\ store[p].loc # NoLoc /\ Live(store[p].loc)
  BY StoredLocs DEF Live, Typed
<1>2. /\ PathOf(store[p].loc) \in Paths /\ store[PathOf(store[p].loc)] # Absent
      /\ store[PathOf(store[p].loc)].loc = store[p].loc
  BY <1>1, PathOfLive
<1> QED
  BY <1>1, <1>2 DEF StoreInv, OneEach

LEMMA PlaceLeads ==
    ASSUME Typed, StoreInv, PlaceInv, PathLocs, NEW c \in Channels
    PROVE  /\ Live(cur[c].loc) => PathOf(cur[c].loc) = Prefix(goal[c], idx[c])
           /\ cur[c].loc = NoLoc => Prefix(goal[c], idx[c]) \in InlineDirs
           /\ cur[c].loc # NoLoc => cur[c].loc = Prefix(goal[c], idx[c])
<1>1. Placed(cur[c], Prefix(goal[c], idx[c]), InlineDirs)
  BY DEF PlaceInv, HandPlaced
<1> DEFINE p == Prefix(goal[c], idx[c])
<1>2. p \in Paths \cup {Root}
  BY ReachedIs
<1>3. cur[c].loc = p \/ (cur[c].loc = NoLoc /\ p \in InlineDirs)
  BY <1>1 DEF Placed
<1> HIDE DEF p
<1>4. Live(p) => PathOf(p) = p
  <2>1. CASE p = Root
    BY <2>1, RootLeads
  <2>2. CASE p # Root /\ Live(p)
    BY <2>2, PathOfLive DEF StoreInv, LocsArePaths
  <2> QED
    BY <2>1, <2>2
<1>5. p # NoLoc
  BY <1>2, KindsOfLocs
<1> QED
  BY <1>3, <1>4, <1>5, RootLeads DEF p

LEMMA PlaceInvInit == Init => PlaceInv
<1> SUFFICES ASSUME Init PROVE PlaceInv
  OBVIOUS
<1>1. \A c \in Channels : goal[c] = Root /\ idx[c] = 0 /\ cur[c] = RootNode /\ seen[c] = NoNodes
  BY DEF Init
<1>2. Prefix(Root, 0) = Root
  BY RootIsIn, WholePrefix
<1>3. \A c \in Channels : HandPlaced(c)
  BY <1>1, <1>2, RootIsPlaced DEF HandPlaced
<1> QED
  BY <1>3 DEF PlaceInv, Init

LEMMA SetsPlaced ==
    ASSUME Typed, PlaceInv, PathLocs, setup' = setup,
           NEW c \in Channels, NEW p \in Paths \cup {Root}, Sets(c, p)
    PROVE  HandPlaced(c)'
<1>1. goal'[c] = p /\ seen'[c] = NoNodes /\ InlineDirs' = InlineDirs
  BY DEF Sets, InlineDirs
<1>2. Placed(cur'[c], Prefix(p, idx'[c]), InlineDirs)
  <2>1. CASE idx'[c] = 0 /\ cur'[c] = RootNode
    <3>1. Prefix(p, 0) = Root
      BY PathAssumption, RootIsIn, WholePrefix
    <3> QED
      BY <2>1, <3>1, RootIsPlaced
  <2>2. CASE /\ Prefix(p, idx'[c]) \in Paths /\ resolved[Prefix(p, idx'[c])] # None
             /\ cur'[c] = resolved[Prefix(p, idx'[c])]
    BY <2>2 DEF PlaceInv
  <2> QED
    BY <2>1, <2>2 DEF Sets
<1> QED
  BY <1>1, <1>2, RootIsPlaced DEF HandPlaced

LEMMA EffectPlaced ==
    ASSUME Typed, StoreInv, PlaceInv, PathLocs, setup' = setup, NEW c \in Channels, Effect(c)
    PROVE  HandPlaced(c)'
<1>1. HandPlaced(c) /\ InlineDirs' = InlineDirs /\ ChannelTyped(c) /\ ChannelOK(c) /\ StageFits(c)
  BY DEF PlaceInv, InlineDirs, Typed, ChannelTyped
<1>2. CASE Ends(c)
  <2>1. Prefix(Root, 0) = Root
    BY RootIsIn, WholePrefix
  <2> QED
    BY <1>1, <1>2, <2>1, RootIsPlaced DEF Ends, HandPlaced
<1>3. CASE Retreats(c)
  <2>1. task[c] \in Tasks /\ task[c].op \in {"create", "mkdir"}
    BY <1>1, <1>3 DEF Retreats, SeeksParent, ChannelOK
  <2>2. Parent(task[c].path) \in Paths \cup {Root}
    BY <2>1, TasksThereAre, PathAssumption DEF Typed
  <2> QED
    BY <1>3, <2>2, SetsPlaced DEF Retreats
<1>4. CASE Answered(c)
  <2> DEFINE p == Prefix(goal[c], idx[c])
  <2>1. p \in Paths \cup {Root} /\ Placed(cur[c], p, InlineDirs)
    BY <1>1, ReachedIs DEF HandPlaced
  <2>2. goal'[c] = goal[c] /\ cur'[c] = cur[c] /\ idx'[c] = idx[c]
    BY <1>4 DEF Answered, Hears
  <2>3. CASE seen'[c] = cur[c].kids
    <3>1. \A k \in DOMAIN cur[c].kids : cur[c].kids[k].loc = Append(p, k) /\ cur[c].kids[k].kids = NoNodes
      BY <1>1, <2>1 DEF Placed, ChannelTyped, Whole
    <3>2. \A k \in DOMAIN cur[c].kids : Placed(cur[c].kids[k], Append(p, k), InlineDirs)
      BY <3>1, RootIsPlaced DEF Placed
    <3> HIDE DEF p
    <3> QED
      BY <1>1, <2>1, <2>2, <2>3, <3>2 DEF HandPlaced, p
  <2>4. CASE Live(cur[c].loc) /\ seen'[c] = Listing(PathOf(cur[c].loc))
    <3>1. seen'[c] = Listing(p)
      BY <2>4, PlaceLeads
    <3> HIDE DEF p
    <3>2. ASSUME NEW k \in DOMAIN Listing(p) PROVE Placed(Listing(p)[k], Append(p, k), InlineDirs)
      <4>1. Append(p, k) \in Paths /\ store[Append(p, k)] # Absent /\ Listing(p)[k] = Shown(Append(p, k))
        BY <3>2 DEF Listing, Children
      <4> QED
        BY <4>1, ShownIsPlaced DEF StoreInv
    <3> QED
      BY <1>1, <2>1, <2>2, <3>1, <3>2 DEF HandPlaced, p
  <2> QED
    BY <1>4, <2>3, <2>4 DEF Answered
<1>5. CASE Descends(c)
  <2>1. /\ NextName(c) \in DOMAIN seen[c] /\ pc[c] = "listed" /\ idx[c] # Len(goal[c])
        /\ goal'[c] = goal[c] /\ seen'[c] = NoNodes /\ idx'[c] = idx[c] + 1
        /\ cur'[c] = seen[c][NextName(c)]
    BY <1>5 DEF Descends, GoesOn, IsAnswer
  <2>2. /\ Here(c) = Append(Prefix(goal[c], idx[c]), NextName(c))
        /\ Here(c) = Prefix(task[c].path, idx[c] + 1)
    BY <2>1, HereIs
  <2>3. GoalFits(c) /\ idx[c] \in 0..Len(goal[c])
    BY <1>1, <2>1 DEF StageFits, ChannelOK
  <2>4. idx[c] + 1 \in 0..Len(goal[c])
    BY <2>1, <2>3, GoalIs
  <2>5. Prefix(goal[c], idx[c] + 1) = Append(Prefix(goal[c], idx[c]), NextName(c))
    BY <2>2, <2>3, <2>4, GoalIs
  <2>6. Placed(seen[c][NextName(c)], Append(Prefix(goal[c], idx[c]), NextName(c)), InlineDirs)
    BY <1>1, <2>1 DEF HandPlaced
  <2> QED
    BY <1>1, <2>1, <2>5, <2>6, RootIsPlaced DEF HandPlaced
<1>6. CASE Readies(c) \/ Idles(c)
  BY <1>1, <1>6 DEF Readies, Idles, Forgot, HandPlaced
<1> QED
  BY <1>2, <1>3, <1>4, <1>5, <1>6 DEF Effect

LEMMA PlaceInvStep == ASSUME Typed, StoreInv, PlaceInv, [Next]_vars PROVE PlaceInv'
<1>1. setup' = setup /\ InlineDirs' = InlineDirs /\ PathLocs' = PathLocs
  BY NextIs DEF InlineDirs, PathLocs
<1> SUFFICES ASSUME PathLocs
             PROVE  /\ \A p \in Paths : resolved'[p] # None => Placed(resolved'[p], p, InlineDirs)
                    /\ \A c \in Channels : HandPlaced(c)'
  BY <1>1 DEF PlaceInv
<1>2. ASSUME NEW p \in Paths, resolved'[p] # None PROVE Placed(resolved'[p], p, InlineDirs)
  <2>1. CASE resolved'[p] = resolved[p]
    BY <1>2, <2>1 DEF PlaceInv
  <2>2. ASSUME NEW c \in Channels, p = Here(c), resolved'[p] = seen[c][NextName(c)],
               pc[c] = "listed", NextName(c) \in DOMAIN seen[c]
        PROVE  Placed(resolved'[p], p, InlineDirs)
    <3>1. Here(c) = Append(Prefix(goal[c], idx[c]), NextName(c))
      BY <2>2, HereIs
    <3> QED
      BY <2>2, <3>1 DEF PlaceInv, HandPlaced
  <2> QED
    BY <1>2, <2>1, <2>2, CacheStepIs, RemembersIs
<1>3. ASSUME NEW d \in Channels, Stays(d) PROVE HandPlaced(d)'
  BY <1>1, <1>3 DEF Stays, PlaceInv, HandPlaced
<1>4. ASSUME NEW c \in Channels, NEW t \in Tasks, Starts(c, t) PROVE HandPlaced(c)'
  <2> DEFINE p == IF t.op = "stat" THEN Parent(t.path) ELSE t.path
  <2>1. p \in Paths \cup {Root}
    BY TasksThereAre, PathAssumption DEF Typed
  <2>2. Sets(c, p)
    BY <1>4 DEF Starts
  <2> HIDE DEF p
  <2> QED
    BY <1>1, <2>1, <2>2, SetsPlaced
<1>5. \A c \in Channels : HandPlaced(c)'
  <2>1. CASE UNCHANGED vars
    <3>1. \A c \in Channels : Stays(c)
      BY <2>1 DEF vars, Stays
    <3> QED
      BY <1>3, <3>1
  <2>2. ASSUME NEW c \in setup.channels, c \in Channels, Step(c) PROVE \A d \in Channels : HandPlaced(d)'
    BY <1>1, <1>3, <2>2, StepEffect, EffectPlaced
  <2>3. ASSUME NEW c \in setup.channels, c \in Channels, NEW t \in Tasks, Begin(c, t)
        PROVE \A d \in Channels : HandPlaced(d)'
    BY <1>3, <1>4, <2>3, BeginEffect
  <2> QED
    BY <2>1, <2>2, <2>3, NextIs
<1> QED
  BY <1>2, <1>5

-----------------------------------------------------------------------------
(* A channel that has the connection to itself.                            *)
CacheTrue ==
    \A p \in Paths : resolved[p] # None /\ ~Inlined(p) =>
       store[p] # Absent /\ resolved[p] = Plain(p)
HandTrue(c) ==
    \A p \in Paths : p = Prefix(goal[c], idx[c]) /\ ~Inlined(p) =>
       store[p] # Absent /\ cur[c] = Plain(p)
SeenTrue(c) ==
    \A p \in Paths \cup {Root} :
       pc[c] = "listed" /\ p = Prefix(goal[c], idx[c]) /\ ~Inlined(p) => seen[c] = Listing(p)
AloneInv ==
    Alone /\ LocsHold => /\ CacheTrue
                         /\ \A c \in setup.channels : HandTrue(c) /\ SeenTrue(c)
\* What is about to be taken away is forgotten.
GoneInv ==
    Alone => \A c \in setup.channels : \A q \in Paths :
       /\ pc[c] \in {"removing", "forgetTo", "renaming"} /\ Beneath(task[c].path, q)
          => resolved[q] = None
       /\ pc[c] = "renaming" /\ Beneath(task[c].to, q) => resolved[q] = None

LEMMA InlinedIs ==
    ASSUME setup \in Setups, NEW p \in Paths, ~Inlined(p)
    PROVE  /\ p \notin InlineDirs /\ Shown(p) = Plain(p)
           /\ \A i \in 1..Len(p) - 1 : ~Inlined(Prefix(p, i))
           /\ ~Inlined(Root)
<1>1. InlineDirs \subseteq Paths
  BY SetupAssumption, PathAssumption DEF InlineDirs
<1>2. p \in Seq(Names)
  BY PathAssumption
<1>3. p \notin InlineDirs
  BY <1>2, BeneathIs DEF Inlined
<1>4. Shown(p) = Plain(p)
  BY <1>3 DEF Shown
<1>5. ASSUME NEW i \in 1..Len(p) - 1, NEW d \in InlineDirs, Beneath(d, Prefix(p, i))
      PROVE  FALSE
  <2>1. d \in Seq(Names) /\ i \in 0..Len(p)
    BY <1>1, PathAssumption, PrefixesThere
  <2>2. Beneath(d, p)
    BY <1>2, <1>5, <2>1, BeneathIs
  <2> QED
    BY <2>2 DEF Inlined
<1>6. ASSUME NEW d \in InlineDirs PROVE ~Beneath(d, Root)
  <2>1. Len(d) \in Nat \ {0}
    BY <1>1, PrefixesThere
  <2> QED
    BY <2>1, RootIsIn DEF Beneath
<1> QED
  BY <1>3, <1>4, <1>5, <1>6 DEF Inlined

LEMMA NothingInline == ASSUME InlineDirs = {}, NEW p PROVE ~Inlined(p)
BY DEF Inlined

\* Something that is there leads to the path it was found at.
LEMMA HandLeads ==
    ASSUME Typed, StoreInv, NEW c \in Channels, HandTrue(c), ~Inlined(Prefix(goal[c], idx[c]))
    PROVE  /\ Live(cur[c].loc) /\ PathOf(cur[c].loc) = Prefix(goal[c], idx[c])
           /\ cur[c].loc # NoLoc
           /\ Exists(Prefix(goal[c], idx[c]))
           /\ cur[c].dir => IsDir(Prefix(goal[c], idx[c]))
           /\ IsDir(Prefix(goal[c], idx[c])) => cur[c].dir
<1> DEFINE p == Prefix(goal[c], idx[c])
<1>1. p \in Paths \cup {Root}
  BY ReachedIs
<1>2. CASE p = Root
  <2>1. cur[c] = RootNode
    BY <1>2, ReachedIs
  <2>2. cur[c].loc = Root /\ cur[c].dir = TRUE
    BY <2>1 DEF RootNode
  <2> HIDE DEF p
  <2>3. Live(cur[c].loc) /\ PathOf(cur[c].loc) = p /\ cur[c].loc # NoLoc /\ Exists(p) /\ IsDir(p) /\ cur[c].dir
    BY <1>2, <2>2, RootLeads, KindsOfLocs DEF Exists, IsDir
  <2> QED
    BY <2>3 DEF p
<1>3. CASE p # Root
  <2>1. p \in Paths /\ ~Inlined(p)
    BY <1>1, <1>3
  <2>2. store[p] # Absent /\ cur[c] = Plain(p)
    BY <2>1 DEF HandTrue
  <2> HIDE DEF p
  <2>3. cur[c].loc = store[p].loc /\ cur[c].dir = store[p].dir
    BY <2>2 DEF Plain
  <2>4. Live(cur[c].loc) /\ PathOf(cur[c].loc) = p /\ cur[c].loc # NoLoc /\ Exists(p)
    BY <2>1, <2>2, <2>3, LocLeads DEF Exists
  <2>5. store[p].dir \in BOOLEAN
    BY <2>1, <2>2, StoredLocs DEF Typed
  <2>6. (cur[c].dir => IsDir(p)) /\ (IsDir(p) => cur[c].dir)
    BY <1>3, <2>1, <2>2, <2>3, <2>5 DEF IsDir
  <2> QED
    BY <2>4, <2>6 DEF p
<1> QED
  BY <1>2, <1>3

\* Whatever leads anywhere leads to where it was found.
LEMMA LocsLead ==
    ASSUME Typed, StoreInv, PlaceInv, AloneInv, LocsHold,
           NEW c \in Channels, c \in setup.channels, Live(cur[c].loc)
    PROVE  PathOf(cur[c].loc) = Prefix(goal[c], idx[c])
<1>1. CASE PathLocs
  BY <1>1, PlaceLeads
<1>2. CASE ~PathLocs
  <2>1. HandTrue(c) /\ InlineDirs = {}
    BY <1>2 DEF AloneInv, LocsHold
  <2>2. ~Inlined(Prefix(goal[c], idx[c]))
    BY <2>1, NothingInline
  <2> QED
    BY <2>1, <2>2, HandLeads
<1> QED
  BY <1>1, <1>2

LEMMA AloneInit == Init => AloneInv /\ GoneInv
<1> SUFFICES ASSUME Init PROVE AloneInv /\ GoneInv
  OBVIOUS
<1>1. Typed /\ \A c \in Channels : idx[c] = 0 /\ pc[c] = "idle"
  BY TypedInit DEF Init
<1>2. setup.channels \subseteq Channels /\ Root \notin Paths
  BY <1>1, TasksThereAre, RootIsIn DEF Typed
<1>3. \A c \in setup.channels : HandTrue(c) /\ SeenTrue(c)
  BY <1>1, <1>2, ReachedIs DEF HandTrue, SeenTrue
<1>4. CacheTrue
  BY DEF Init, CacheTrue
<1>5. GoneInv
  BY <1>1, <1>2 DEF GoneInv
<1> QED
  BY <1>3, <1>4, <1>5 DEF AloneInv

LEMMA SetsTrue ==
    ASSUME Typed, CacheTrue, StoreStays, setup' = setup,
           NEW c \in Channels, NEW p \in Paths \cup {Root}, Sets(c, p)
    PROVE  HandTrue(c)' /\ SeenTrue(c)'
<1>1. goal'[c] = p /\ pc'[c] = "walk"
  BY DEF Sets
<1>2. ASSUME NEW q \in Paths, q = Prefix(p, idx'[c]), ~Inlined(q)
      PROVE  store[q] # Absent /\ cur'[c] = Plain(q)
  <2>1. idx'[c] # 0
    <3>1. Paths \subseteq Seq(Names) /\ Root \in Seq(Names) /\ Root \notin Paths
      BY PathAssumption, RootIsIn
    <3>2. Prefix(p, 0) = Root
      BY <3>1, WholePrefix
    <3> QED
      BY <1>2, <3>1, <3>2
  <2>2. resolved[q] # None /\ cur'[c] = resolved[q]
    BY <1>2, <2>1 DEF Sets
  <2> QED
    BY <1>2, <2>2 DEF CacheTrue
<1>3. HandTrue(c)'
  BY <1>1, <1>2 DEF HandTrue, StoreStays, Plain, Inlined, InlineDirs
<1>4. SeenTrue(c)'
  BY <1>1 DEF SeenTrue
<1> QED
  BY <1>3, <1>4

\* The child that was found.
LEMMA ChildIs ==
    ASSUME Typed, NEW c \in Channels, SeenTrue(c), pc[c] = "listed",
           NextName(c) \in DOMAIN seen[c], ~Inlined(Here(c))
    PROVE  Here(c) \in Paths /\ store[Here(c)] # Absent /\ seen[c][NextName(c)] = Plain(Here(c))
<1> DEFINE p == Prefix(goal[c], idx[c])
<1>1. /\ Here(c) \in Paths /\ Here(c) = Append(p, NextName(c)) /\ p \in Paths \cup {Root}
      /\ Here(c) = Prefix(task[c].path, idx[c] + 1) /\ idx[c] + 1 \in 1..Len(task[c].path)
  BY HereIs, ReachedIs
<1>2. ~Inlined(p)
  <2>1. Here(c) \in Seq(Names) /\ p \in Seq(Names) /\ NextName(c) \in Names
    <3>1. Paths \subseteq Seq(Names) /\ Root \in Seq(Names)
      BY PathAssumption, RootIsIn
    <3> QED
      BY <1>1, <3>1, HereIs
  <2>2. p = Parent(Here(c))
    BY <1>1, <2>1, AppendIs
  <2> HIDE DEF p
  <2>3. CASE p = Root
    BY <1>1, <2>3, InlinedIs DEF Typed
  <2>4. CASE p # Root
    <3>1. Here(c) # Root /\ Len(Here(c)) \in Nat \ {0} /\ Len(p) = Len(Here(c)) - 1
          /\ p = Prefix(Here(c), Len(Here(c)) - 1)
      BY <1>1, <2>1, <2>2, ParentOf, WholePrefix, RootIsIn
    <3>2. Len(p) # 0
      BY <2>1, <2>4, WholePrefix
    <3>3. Len(Here(c)) - 1 \in 1..Len(Here(c)) - 1
      BY <3>1, <3>2
    <3> QED
      BY <1>1, <3>1, <3>3, InlinedIs DEF Typed
  <2> QED
    BY <2>3, <2>4
<1>3. seen[c] = Listing(p)
  BY <1>1, <1>2 DEF SeenTrue
<1> HIDE DEF p
<1>4. store[Append(p, NextName(c))] # Absent /\ seen[c][NextName(c)] = Shown(Append(p, NextName(c)))
  BY <1>3 DEF Listing, Children
<1> QED
  BY <1>1, <1>4, InlinedIs DEF Typed

LEMMA EffectTrue ==
    ASSUME Typed, StoreInv, CacheTrue, StoreStays, setup' = setup,
           NEW c \in Channels, HandTrue(c), SeenTrue(c), Effect(c)
    PROVE  HandTrue(c)' /\ SeenTrue(c)'
<1>1. /\ InlineDirs' = InlineDirs /\ store' = store
      /\ ChannelTyped(c) /\ ChannelOK(c) /\ StageFits(c) /\ setup \in Setups
  BY DEF InlineDirs, StoreStays, Typed, ChannelTyped
<1>2. CASE Ends(c)
  <2>1. Prefix(goal'[c], idx'[c]) = Root /\ Root \notin Paths /\ pc'[c] = "idle"
    BY <1>2, RootIsIn, WholePrefix DEF Ends
  <2> QED
    BY <2>1 DEF HandTrue, SeenTrue
<1>3. CASE Retreats(c)
  <2>1. task[c] \in Tasks /\ task[c].op \in {"create", "mkdir"}
    BY <1>1, <1>3 DEF Retreats, SeeksParent, ChannelOK
  <2>2. Parent(task[c].path) \in Paths \cup {Root}
    BY <2>1, TasksThereAre, PathAssumption DEF Typed
  <2> QED
    BY <1>3, <2>2, SetsTrue DEF Retreats
<1>4. CASE Answered(c)
  <2>1. goal'[c] = goal[c] /\ cur'[c] = cur[c] /\ idx'[c] = idx[c]
    BY <1>4 DEF Answered, Hears
  <2>2. HandTrue(c)'
    BY <1>1, <2>1 DEF HandTrue, Plain, Inlined
  <2>3. ASSUME NEW p \in Paths \cup {Root}, p = Prefix(goal[c], idx[c]), ~Inlined(p)
        PROVE  seen'[c] = Listing(p)
    <3>1. cur[c].loc # NoLoc /\ PathOf(cur[c].loc) = p
      BY <2>3, HandLeads
    <3> QED
      BY <1>4, <3>1 DEF Answered
  <2>4. \A p \in Paths \cup {Root} : Listing(p)' = Listing(p)
    BY <1>1 DEF Listing, Children, Shown, Plain
  <2>5. SeenTrue(c)'
    BY <1>1, <2>1, <2>3, <2>4 DEF SeenTrue, Inlined
  <2> QED
    BY <2>2, <2>5
<1>5. CASE Descends(c)
  <2>1. /\ NextName(c) \in DOMAIN seen[c] /\ pc[c] = "listed" /\ idx[c] # Len(goal[c])
        /\ goal'[c] = goal[c] /\ idx'[c] = idx[c] + 1 /\ pc'[c] = "walk"
        /\ cur'[c] = seen[c][NextName(c)]
    BY <1>5 DEF Descends, GoesOn, IsAnswer
  <2>2. GoalFits(c) /\ idx[c] \in 0..Len(goal[c])
    BY <1>1, <2>1 DEF StageFits, ChannelOK
  <2>3. idx[c] + 1 \in 0..Len(goal[c])
    BY <2>1, <2>2, GoalIs
  <2>4. Prefix(goal[c], idx[c] + 1) = Here(c)
    BY <2>2, <2>3, GoalIs DEF Here
  <2>5. ASSUME NEW p \in Paths, p = Here(c), ~Inlined(p)
        PROVE  store[p] # Absent /\ cur'[c] = Plain(p)
    BY <2>1, <2>5, ChildIs
  <2>6. HandTrue(c)'
    BY <1>1, <2>1, <2>4, <2>5 DEF HandTrue, Plain, Inlined
  <2> QED
    BY <2>1, <2>6 DEF SeenTrue
<1>6. CASE Readies(c) \/ Idles(c)
  <2>1. /\ goal'[c] = goal[c] /\ cur'[c] = cur[c] /\ idx'[c] = idx[c]
        /\ pc'[c] # "listed"
    BY <1>6 DEF Readies, Idles, Forgot
  <2> QED
    BY <1>1, <2>1 DEF HandTrue, SeenTrue, Plain, Inlined
<1> QED
  BY <1>2, <1>3, <1>4, <1>5, <1>6 DEF Effect

\* A channel that has finished has nothing in hand.
LEMMA IdleTrue ==
    ASSUME Typed', NEW c \in Channels, pc'[c] = "idle"
    PROVE  HandTrue(c)' /\ SeenTrue(c)'
<1>1. idx'[c] = 0 /\ goal'[c] \in Paths \cup {Root}
  BY DEF Typed, ChannelTyped, StageFits, ChannelOK
<1>2. Prefix(goal'[c], 0) = Root /\ Root \notin Paths
  <2>1. Paths \subseteq Seq(Names) /\ Root \in Seq(Names) /\ Root \notin Paths
    BY PathAssumption, RootIsIn
  <2> QED
    BY <1>1, <2>1, WholePrefix
<1>3. Prefix(goal'[c], idx'[c]) \notin Paths
  BY <1>1, <1>2
<1> QED
  BY <1>3 DEF HandTrue, SeenTrue

LEMMA CacheTrueStays ==
    ASSUME Typed, CacheTrue, setup' = setup,
           \A p \in Paths : resolved'[p] # None =>
              resolved'[p] = resolved[p] /\ (store[p] # Absent => store'[p] = store[p])
    PROVE  CacheTrue'
BY DEF CacheTrue, Inlined, InlineDirs, Plain

\* The remover's and the renamer's own change.
LEMMA CacheTrueGone ==
    ASSUME Typed, StoreInv, PlaceInv, AloneInv, GoneInv, Alone, LocsHold, setup' = setup,
           NEW c \in Channels, c \in setup.channels, Removes(c) \/ Renames(c)
    PROVE  CacheTrue'
<1>1. /\ pc[c] \in {"removing", "forgetTo", "renaming"} /\ Live(cur[c].loc) /\ resolved' = resolved
      /\ Renames(c) => pc[c] = "renaming"
  BY DEF Removes, Renames
<1>2. PathOf(cur[c].loc) = task[c].path
  BY <1>1, LocsLead, TargetIs
<1>3. \A q \in Paths : /\ Beneath(task[c].path, q) => resolved[q] = None
                       /\ Renames(c) /\ Beneath(task[c].to, q) => resolved[q] = None
  BY <1>1 DEF GoneInv
<1>4. \A q \in Paths : resolved[q] # None => store'[q] = store[q]
  <2>1. CASE Removes(c)
    BY <1>2, <1>3, <2>1, RemovesIs
  <2>2. CASE Renames(c)
    BY <1>2, <1>3, <2>2, RenamesIs, MoveIs
  <2> QED
    BY <2>1, <2>2
<1> QED
  BY <1>1, <1>4, CacheTrueStays DEF AloneInv

LEMMA CacheTrueStep ==
    ASSUME Typed, StoreInv, PlaceInv, AloneInv, GoneInv, Alone, LocsHold, setup' = setup,
           NEW c \in Channels, c \in setup.channels, Step(c)
    PROVE  CacheTrue'
<1>1. StoreStep(c) /\ CacheStep(c) /\ CacheTrue /\ SeenTrue(c)
  BY StepStores, StepRemembers DEF AloneInv
<1>2. CASE StoreStays
  <2> SUFFICES ASSUME NEW p \in Paths, resolved'[p] # None, ~Inlined(p)
               PROVE  store[p] # Absent /\ resolved'[p] = Plain(p)
    BY <1>2 DEF CacheTrue, Inlined, InlineDirs, Plain, StoreStays
  <2>1. CASE resolved'[p] = resolved[p]
    BY <1>1, <2>1 DEF CacheTrue
  <2>2. CASE /\ p = Here(c) /\ resolved'[p] = seen[c][NextName(c)]
             /\ pc[c] = "listed" /\ NextName(c) \in DOMAIN seen[c]
    BY <1>1, <2>2, ChildIs
  <2> QED
    BY <1>1, <2>1, <2>2, RemembersIs
<1>3. CASE resolved' = resolved /\ \E p \in Paths, isDir \in BOOLEAN : Appears(p, isDir)
  <2>1. PICK p \in Paths, isDir \in BOOLEAN : Appears(p, isDir)
    BY <1>3
  <2>2. store[p] = Absent /\ \A q \in Paths \ {p} : store'[q] = store[q]
    BY <2>1, PutIs
  <2> QED
    BY <1>1, <1>3, <2>2, CacheTrueStays
<1>4. CASE Removes(c) \/ Renames(c)
  BY <1>4, CacheTrueGone
<1> QED
  BY <1>1, <1>2, <1>3, <1>4 DEF StoreStep

LEMMA AloneInvStep ==
    ASSUME Typed, StoreInv, PlaceInv, AloneInv, GoneInv, [Next]_vars
    PROVE  AloneInv'
<1>1. /\ setup' = setup /\ InlineDirs' = InlineDirs /\ (Alone' <=> Alone) /\ (LocsHold' <=> LocsHold)
      /\ Typed'
  BY NextIs, TypedStep DEF InlineDirs, Alone, LocsHold, PathLocs
<1> SUFFICES ASSUME Alone, LocsHold
             PROVE  CacheTrue' /\ \A c \in setup.channels : HandTrue(c)' /\ SeenTrue(c)'
  BY <1>1 DEF AloneInv
<1>2. /\ CacheTrue /\ \A c \in setup.channels : c \in Channels /\ HandTrue(c) /\ SeenTrue(c)
  BY TasksThereAre DEF AloneInv, Typed
<1>3. CASE UNCHANGED vars
  <2>1. CacheTrue'
    BY <1>1, <1>2, <1>3 DEF vars, CacheTrue, Inlined, Plain
  <2>2. store' = store /\ pc' = pc /\ goal' = goal /\ idx' = idx /\ cur' = cur /\ seen' = seen
    BY <1>3 DEF vars
  <2>3. \A p \in Paths \cup {Root} : Listing(p)' = Listing(p)
    BY <1>1, <2>2 DEF Listing, Children, Shown, Plain
  <2>4. \A c \in setup.channels : HandTrue(c)' /\ SeenTrue(c)'
    BY <1>1, <1>2, <2>2, <2>3 DEF HandTrue, SeenTrue, Inlined, Plain
  <2> QED
    BY <2>1, <2>4
<1>4. ASSUME NEW c \in setup.channels, c \in Channels, Step(c)
      PROVE  CacheTrue' /\ HandTrue(c)' /\ SeenTrue(c)'
  <2>1. CacheTrue'
    BY <1>1, <1>4, CacheTrueStep
  <2>2. StoreStays \/ pc'[c] = "idle"
    <3>1. Removes(c) \/ Renames(c) => pc'[c] = "idle"
      BY <1>4 DEF Removes, Renames, Finish, Goto, Typed, Shapes
    <3> QED
      BY <1>4, <3>1, StepStores DEF StoreStep
  <2>3. CASE StoreStays
    BY <1>1, <1>2, <1>4, <2>1, <2>3, StepEffect, EffectTrue
  <2>4. CASE pc'[c] = "idle"
    BY <1>1, <1>4, <2>1, <2>4, IdleTrue
  <2> QED
    BY <2>2, <2>3, <2>4
<1>5. ASSUME NEW c \in setup.channels, c \in Channels, StoreStays, resolved' = resolved,
             NEW t \in Tasks, Begin(c, t)
      PROVE  CacheTrue' /\ HandTrue(c)' /\ SeenTrue(c)'
  <2>1. CacheTrue'
    BY <1>1, <1>2, <1>5 DEF StoreStays, CacheTrue, Inlined, Plain
  <2> DEFINE p == IF t.op = "stat" THEN Parent(t.path) ELSE t.path
  <2>2. p \in Paths \cup {Root}
    BY TasksThereAre, PathAssumption DEF Typed
  <2>3. Sets(c, p)
    BY <1>5, BeginEffect DEF Starts
  <2> HIDE DEF p
  <2> QED
    BY <1>1, <1>2, <1>5, <2>1, <2>2, <2>3, SetsTrue
<1>6. \A c, d \in setup.channels : c = d
  BY DEF Alone
<1>7. setup.channels # {}
  BY SetupAssumption DEF Typed
<1> QED
  BY <1>3, <1>4, <1>5, <1>6, <1>7, NextIs

LEMMA ReadiesIs ==
    ASSUME Typed, NEW c \in Channels, Step(c), pc'[c] \in {"removing", "forgetTo", "renaming"}
    PROVE  \/ /\ RemoveForgets(c) \/ RenameForgetsSource(c)
              /\ pc'[c] # "renaming"
              /\ \A q \in Paths : Beneath(task[c].path, q) => resolved'[q] = None
           \/ /\ RenameForgetsTarget(c)
              /\ \A q \in Paths : resolved'[q] = IF Beneath(task[c].to, q) THEN None ELSE resolved[q]
<1>1. CASE DescendsIntoFile(c) \/ ListsNothing(c) \/ FindsNoChild(c)
  <2>1. Missing(c)
    BY <1>1 DEF DescendsIntoFile, ListsNothing, FindsNoChild
  <2> QED
    BY <2>1, MissingIs DEF Ends, Sets
<1>2. CASE \E r \in Replies : Finish(c, r)
  BY <1>2, FinishEnds DEF Ends, Typed
<1>3. CASE ListsInline(c) \/ Lists(c)
  BY <1>3 DEF ListsInline, Lists, Goto, Typed, Shapes
<1>4. CASE TakesChild(c) /\ ~IsAnswer(c)
  BY <1>4 DEF TakesChild, Goto, Typed, Shapes
<1>5. CASE Commits(c)
  BY <1>5 DEF Commits
<1>6. CASE RemoveForgets(c) \/ RenameForgetsSource(c)
  BY <1>6 DEF RemoveForgets, RenameForgetsSource, Goto, Forget, Typed, Shapes
<1>7. CASE RenameForgetsTarget(c)
  BY <1>7 DEF RenameForgetsTarget, Forget
<1>8. CASE TakesChild(c) /\ IsAnswer(c)
  BY <1>2, <1>8 DEF TakesChild, Replies
<1>9. CASE ListFails(c) \/ WrongKind(c) \/ NoBackend(c) \/ ListReturns(c) \/ CallFails(c) \/ Opens(c)
           \/ CreatesOver(c) \/ CreatesChild(c) \/ NoParent(c) \/ MkdirFindsIt(c) \/ Mkdirs(c)
           \/ Removes(c) \/ Renames(c)
  BY <1>2, <1>9 DEF ListFails, WrongKind, NoBackend, ListReturns, CallFails, Opens, CreatesOver,
              CreatesChild, NoParent, MkdirFindsIt, Mkdirs, Removes, Renames, Replies
<1> QED
  BY <1>1, <1>3, <1>4, <1>5, <1>6, <1>7, <1>8, <1>9 DEF Step

LEMMA GoneInvStep == ASSUME Typed, GoneInv, [Next]_vars PROVE GoneInv'
<1>1. setup' = setup /\ (Alone' <=> Alone) /\ \A c \in setup.channels : c \in Channels
  BY NextIs, TasksThereAre DEF Alone, Typed
<1> SUFFICES ASSUME Alone, NEW c \in setup.channels, NEW q \in Paths
             PROVE  /\ pc'[c] \in {"removing", "forgetTo", "renaming"} /\ Beneath(task'[c].path, q)
                       => resolved'[q] = None
                    /\ pc'[c] = "renaming" /\ Beneath(task'[c].to, q) => resolved'[q] = None
  BY <1>1 DEF GoneInv
<1>2. pc[c] \in {"removing", "forgetTo", "renaming"} /\ Beneath(task[c].path, q)
      => resolved[q] = None
  BY DEF GoneInv
<1>3. CASE UNCHANGED vars
  BY <1>3 DEF vars, GoneInv
<1>4. CASE Step(c) /\ pc'[c] \in {"removing", "forgetTo", "renaming"}
  <2>1. CASE /\ RemoveForgets(c) \/ RenameForgetsSource(c)
             /\ pc'[c] # "renaming"
             /\ \A r \in Paths : Beneath(task[c].path, r) => resolved'[r] = None
    BY <2>1 DEF RemoveForgets, RenameForgetsSource
  <2>2. CASE /\ RenameForgetsTarget(c)
             /\ \A r \in Paths : resolved'[r] = IF Beneath(task[c].to, r) THEN None ELSE resolved[r]
    <3>1. pc[c] = "forgetTo" /\ task' = task
      BY <2>2 DEF RenameForgetsTarget
    <3> QED
      BY <1>2, <2>2, <3>1
  <2> QED
    BY <1>1, <1>4, <2>1, <2>2, ReadiesIs
<1>5. ASSUME NEW t \in Tasks, Begin(c, t) PROVE pc'[c] = "walk"
  BY <1>1, <1>5, BeginEffect DEF Starts, Sets
<1> QED
  BY <1>3, <1>4, <1>5, NextIs DEF Alone

-----------------------------------------------------------------------------
(* What the checks of VFS say, for any connection.                         *)
Inv == Typed /\ StoreInv /\ PlaceInv /\ AloneInv /\ GoneInv

LEMMA AlwaysInv == Spec => []Inv
<1>1. Init => Inv
  BY TypedInit, StoreInvInit, PlaceInvInit, AloneInit DEF Inv
<1>2. Inv /\ [Next]_vars => Inv'
  BY TypedStep, StoreInvStep, PlaceInvStep, AloneInvStep, GoneInvStep DEF Inv
<1> QED
  BY <1>1, <1>2, PTL DEF Spec

\* On a connection with one channel, what is remembered of a path that is not
\* in a directory listed inline is what the backend has there.
THEOREM WhatIsRememberedIsTrue == Spec => []CacheIsTrue
<1>1. Inv => CacheIsTrue
  BY InlinedIs DEF Inv, AloneInv, CacheTrue, CacheIsTrue, Typed
<1> QED
  BY <1>1, AlwaysInv, PTL

\* Whose operation ends, took the step.
LEMMA WhoEnds ==
    ASSUME Typed, [Next]_vars, NEW c \in setup.channels, pc[c] # "idle", pc'[c] = "idle"
    PROVE  c \in Channels /\ Step(c) /\ setup' = setup
<1>1. setup.channels \subseteq Channels
  BY TasksThereAre DEF Typed
<1>2. CASE UNCHANGED vars
  BY <1>2 DEF vars
<1>3. ASSUME NEW d \in setup.channels, Step(d) PROVE d = c
  BY <1>1, <1>3, StepEffect DEF Stays
<1>4. ASSUME NEW d \in setup.channels, NEW t \in Tasks, Begin(d, t) PROVE FALSE
  BY <1>1, <1>4, BeginEffect DEF Stays, Starts
<1> QED
  BY <1>1, <1>2, <1>3, <1>4, NextIs

\* Only the backend's own success ends an operation well.
LEMMA EndsWell ==
    ASSUME Typed, NEW c \in Channels, Step(c), pc'[c] = "idle", reply'[c] = "ok"
    PROVE  /\ pc[c] = "removing" => Removes(c)
           /\ pc[c] = "renaming" => Renames(c)
           /\ On(c, {"list"}) => ListReturns(c)
<1> SUFFICES ASSUME pc[c] \in {"removing", "renaming"} \/ On(c, {"list"})
             PROVE  /\ pc[c] = "removing" => Removes(c)
                    /\ pc[c] = "renaming" => Renames(c)
                    /\ On(c, {"list"}) => ListReturns(c)
  OBVIOUS
<1>1. pc[c] \in {"removing", "renaming", "walk"} /\ (pc[c] = "walk" => On(c, {"list"}))
  BY DEF On, Arrived
<1>2. pc[c] = "walk" => idx[c] = Len(goal[c]) /\ task[c].op = "list"
  BY <1>1 DEF On, Arrived
<1>3. ~Walking(c) /\ ~Statting(c)
  BY <1>2, GoalIs DEF Walking, Statting, Typed, ChannelTyped, StageFits, ChannelOK
<1>4. ASSUME NEW r, Finish(c, r) PROVE reply'[c] = r
  BY <1>4 DEF Finish, Typed, Shapes
<1>5. ~WrongKind(c) /\ ~CallFails(c)
  BY <1>4 DEF WrongKind, CallFails
<1>6. CASE pc[c] = "walk"
  BY <1>1, <1>3, <1>5, <1>6 DEF Step, DescendsIntoFile, ListsInline, Lists, ListsNothing, ListFails,
     NeedsListing, TakesChild, FindsNoChild, NoBackend, Opens, CreatesOver, CreatesChild, NoParent,
     Commits, MkdirFindsIt, Mkdirs, RemoveForgets, Removes, RenameForgetsSource,
     RenameForgetsTarget, Renames, On
<1>7. CASE pc[c] \in {"removing", "renaming"}
  BY <1>3, <1>5, <1>7 DEF Step, DescendsIntoFile, ListsInline, Lists, ListsNothing, ListFails,
     NeedsListing, TakesChild, FindsNoChild, NoBackend, Opens, CreatesOver, CreatesChild, NoParent,
     Commits, MkdirFindsIt, Mkdirs, RemoveForgets, Removes, RenameForgetsSource, ListReturns,
     RenameForgetsTarget, Renames, On, Arrived
<1> QED
  BY <1>1, <1>6, <1>7

\* A remove that succeeds takes away what its path names and nothing else,
\* however many channels there are, as long as locations lead to where they
\* were found.
THEOREM RemovesTheNamed == Spec => RemovesWhatItNames
<1>1. ASSUME Inv, [Next]_vars, LocsHold, NEW c \in setup.channels,
             pc[c] = "removing", pc'[c] = "idle", reply'[c] = "ok"
      PROVE  \A p \in Paths : store'[p] = IF Beneath(task[c].path, p) THEN Absent ELSE store[p]
  <2>1. c \in Channels /\ Step(c)
    BY <1>1, WhoEnds DEF Inv
  <2>2. Removes(c)
    BY <1>1, <2>1, EndsWell DEF Inv
  <2>3. PathOf(cur[c].loc) = task[c].path
    BY <1>1, <2>1, <2>2, LocsLead, TargetIs DEF Inv, Removes
  <2> QED
    BY <2>2, <2>3, RemovesIs
<1> DEFINE A == LocsHold => \A c \in setup.channels :
                  pc[c] = "removing" /\ pc'[c] = "idle" /\ reply'[c] = "ok" =>
                     \A p \in Paths :
                        store'[p] = IF Beneath(task[c].path, p) THEN Absent ELSE store[p]
<1>2. Inv /\ [Next]_vars => A
  BY <1>1
<1> QED
  BY <1>2, AlwaysInv, PTL DEF Spec, RemovesWhatItNames

\* On a connection with one channel, nothing a remove or a rename took away
\* is remembered once it has succeeded.
THEOREM WhatIsGoneIsForgotten == Spec => GoneIsForgottenAlone
<1>1. ASSUME Inv, [Next]_vars, Alone, NEW c \in setup.channels PROVE Forgets(c)
  <2> SUFFICES ASSUME pc[c] \in {"removing", "renaming"}, pc'[c] = "idle", reply'[c] = "ok",
                      NEW p \in Paths, Beneath(task[c].path, p)
               PROVE  resolved'[p] = None
    BY DEF Forgets
  <2>1. c \in Channels /\ Step(c)
    BY <1>1, WhoEnds DEF Inv
  <2>2. Removes(c) \/ Renames(c)
    BY <1>1, <2>1, EndsWell DEF Inv
  <2>3. resolved[p] = None
    BY <1>1 DEF Inv, GoneInv
  <2> QED
    BY <2>2, <2>3 DEF Removes, Renames
<1> DEFINE A == Alone => \A c \in setup.channels : Forgets(c)
<1>2. Inv /\ [Next]_vars => A
  BY <1>1
<1> QED
  BY <1>2, AlwaysInv, PTL DEF Spec, GoneIsForgottenAlone

\* A listing is what the directory holds, outside directories listed inline.
THEOREM ListingsAreFresh == Spec => ListingIsFresh
<1>1. ASSUME Inv, [Next]_vars, LocsHold, NEW c \in setup.channels,
             On(c, {"list"}), pc'[c] = "idle", reply'[c] = "ok", ~Inlined(task[c].path)
      PROVE  IsDir(task[c].path) /\ listing'[c] = Listing(task[c].path)
  <2>1. c \in Channels /\ Step(c)
    BY <1>1, WhoEnds DEF Inv, On, Arrived
  <2>2. ListReturns(c)
    BY <1>1, <2>1, EndsWell DEF Inv
  <2>3. /\ task[c].path \in Paths \cup {Root} /\ task[c].path \in Seq(Names)
        /\ goal[c] = task[c].path /\ idx[c] = Len(goal[c])
    <3>1. GoalFits(c) /\ task[c].op = "list" /\ idx[c] = Len(goal[c])
      BY <1>1, <2>1 DEF Inv, Typed, ChannelTyped, StageFits, On, Arrived
    <3> QED
      BY <1>1, <2>1, <3>1, GoalIs DEF Inv, GoalFits
  <2>4. Prefix(goal[c], idx[c]) = task[c].path
    BY <2>3, WholePrefix
  <2>5. cur[c].loc # NoLoc
    <3>1. CASE PathLocs
      <4>1. task[c].path \notin InlineDirs
        BY <1>1, <2>3, BeneathIs DEF Inlined
      <4> QED
        BY <1>1, <2>1, <2>4, <3>1, <4>1, PlaceLeads DEF Inv
    <3>2. CASE ~PathLocs
      BY <1>1, <2>1, <2>4, <3>2, HandLeads DEF Inv, AloneInv, LocsHold
    <3> QED
      BY <3>1, <3>2
  <2>6. /\ Live(cur[c].loc) /\ IsDir(PathOf(cur[c].loc))
        /\ listing' = [listing EXCEPT ![c] = Listing(PathOf(cur[c].loc))]
    BY <2>2, <2>5 DEF ListReturns
  <2>7. PathOf(cur[c].loc) = task[c].path
    BY <1>1, <2>1, <2>4, <2>6, LocsLead DEF Inv
  <2>8. listing'[c] = Listing(task[c].path)
    BY <1>1, <2>1, <2>6, <2>7 DEF Inv, Typed, Shapes
  <2> QED
    BY <2>6, <2>7, <2>8
<1> DEFINE A == LocsHold => \A c \in setup.channels :
                  On(c, {"list"}) /\ pc'[c] = "idle" /\ reply'[c] = "ok" /\ ~Inlined(task[c].path) =>
                     IsDir(task[c].path) /\ listing'[c] = Listing(task[c].path)
<1>2. Inv /\ [Next]_vars => A
  BY <1>1
<1> QED
  BY <1>2, AlwaysInv, PTL DEF Spec, ListingIsFresh

\* What leads to something that is there, is there.
LEMMA WayThere ==
    ASSUME Typed, StoreInv, NEW p \in Paths \cup {Root}, Exists(p), ~Inlined(p),
           NEW i \in 0..Len(p)
    PROVE  Exists(Prefix(p, i)) /\ ~Inlined(Prefix(p, i)) /\ (i < Len(p) => IsDir(Prefix(p, i)))
<1>1. p \in Seq(Names) /\ Len(p) \in Nat /\ Root \notin Paths
  <2>1. Paths \subseteq Seq(Names) /\ Root \in Seq(Names) /\ Root \notin Paths
    BY PathAssumption, RootIsIn
  <2> QED
    BY <2>1
<1>2. CASE i = Len(p)
  BY <1>1, <1>2, WholePrefix
<1>3. CASE i = 0
  <2>1. Prefix(p, i) = Root
    BY <1>1, <1>3, WholePrefix
  <2>2. ~Inlined(Root)
    <3>1. CASE p = Root
      BY <3>1
    <3>2. CASE p # Root
      BY <3>2, InlinedIs DEF Typed
    <3> QED
      BY <3>1, <3>2
  <2> QED
    BY <2>1, <2>2 DEF Exists, IsDir
<1>4. CASE i # 0 /\ i # Len(p)
  <2>1. i \in 1..Len(p) - 1 /\ p # Root
    BY <1>1, <1>4, RootIsIn
  <2>2. p \in Paths /\ store[p] # Absent
    BY <2>1 DEF Exists
  <2>3. Prefix(p, i) \in Paths /\ store[Prefix(p, i)] # Absent /\ store[Prefix(p, i)].dir
    BY <2>1, <2>2, PrefixesThere DEF StoreInv, AncestorsThere
  <2>4. ~Inlined(Prefix(p, i))
    BY <2>1, <2>2, InlinedIs DEF Typed
  <2> QED
    BY <2>3, <2>4 DEF Exists, IsDir
<1> QED
  BY <1>2, <1>3, <1>4

\* Where "no such file" comes from.
LEMMA SaysNotExist ==
    ASSUME Typed, NEW c \in Channels, Step(c), pc[c] # "idle", pc'[c] = "idle", reply'[c] = "notExist"
    PROVE  \/ DescendsIntoFile(c) \/ ListsNothing(c) \/ FindsNoChild(c) \/ CallFails(c) \/ NoParent(c)
<1>1. ASSUME NEW r, Finish(c, r) PROVE r = "notExist"
  BY <1>1 DEF Finish, Typed, Shapes
<1>2. CASE ListsInline(c) \/ Lists(c)
  BY <1>2 DEF ListsInline, Lists, Goto, Typed, Shapes
<1>3. CASE TakesChild(c)
  BY <1>1, <1>3 DEF TakesChild, Goto, Typed, Shapes
<1>4. CASE Commits(c)
  BY <1>4 DEF Commits
<1>5. CASE RemoveForgets(c) \/ RenameForgetsSource(c) \/ RenameForgetsTarget(c)
  BY <1>5 DEF RemoveForgets, RenameForgetsSource, RenameForgetsTarget, Goto, Typed, Shapes
<1>6. CASE ListFails(c) \/ WrongKind(c) \/ NoBackend(c) \/ ListReturns(c) \/ Opens(c)
           \/ CreatesOver(c) \/ CreatesChild(c) \/ MkdirFindsIt(c) \/ Mkdirs(c)
           \/ Removes(c) \/ Renames(c)
  BY <1>1, <1>6 DEF ListFails, WrongKind, NoBackend, ListReturns, Opens, CreatesOver,
              CreatesChild, MkdirFindsIt, Mkdirs, Removes, Renames
<1> QED
  BY <1>2, <1>3, <1>4, <1>5, <1>6 DEF Step

\* "No such file" is true, on a connection with one channel.
THEOREM NotFoundMeansNotThere == Spec => NotFoundIsTrue
<1>1. ASSUME Inv, [Next]_vars, NEW c \in setup.channels, Alone, LocsHold,
             pc[c] # "idle", pc'[c] = "idle", reply'[c] = "notExist",
             Exists(task[c].path), ~Inlined(task[c].path)
      PROVE  task[c].op = "rename" /\ ~Exists(Parent(task[c].to))
  <2>1. /\ c \in Channels /\ Step(c) /\ Typed /\ StoreInv
        /\ ChannelTyped(c) /\ StageFits(c) /\ GoalFits(c) /\ idx[c] \in 0..Len(goal[c])
        /\ HandTrue(c) /\ SeenTrue(c)
    BY <1>1, WhoEnds DEF Inv, AloneInv, Typed, ChannelTyped, ChannelOK, StageFits
  <2> DEFINE path == task[c].path
             p == Prefix(goal[c], idx[c])
  <2>2. /\ path \in Paths \cup {Root} /\ path \in Seq(Names) /\ Len(path) \in Nat
        /\ Len(goal[c]) \in Nat /\ Len(goal[c]) <= Len(path) /\ idx[c] \in 0..Len(path)
        /\ p = Prefix(path, idx[c])
    <3>1. /\ path \in Paths \cup {Root} /\ path \in Seq(Names) /\ Len(path) \in Nat
          /\ Len(goal[c]) \in Nat /\ Len(goal[c]) <= Len(path)
          /\ \A i \in 0..Len(goal[c]) : Prefix(goal[c], i) = Prefix(path, i)
      BY <2>1, GoalIs
    <3> QED
      BY <2>1, <3>1
  <2>3. Exists(p) /\ ~Inlined(p) /\ (idx[c] < Len(path) => IsDir(p))
    BY <1>1, <2>1, <2>2, WayThere
  <2>4. Live(cur[c].loc) /\ (idx[c] < Len(path) => cur[c].dir)
    BY <2>1, <2>3, HandLeads
  <2>5. ~DescendsIntoFile(c)
    <3>1. Walking(c) => idx[c] < Len(path)
      BY <2>1, <2>2 DEF Walking
    <3> QED
      BY <2>4, <3>1 DEF DescendsIntoFile
  <2>6. ~ListsNothing(c)
    BY <2>4 DEF ListsNothing
  <2>7. ~FindsNoChild(c)
    <3> SUFFICES ASSUME FindsNoChild(c) PROVE FALSE
      OBVIOUS
    <3>1. pc[c] = "listed" /\ NextName(c) \notin DOMAIN seen[c]
      BY DEF FindsNoChild
    <3>2. /\ Here(c) \in Paths /\ NextName(c) \in Names /\ Here(c) = Append(p, NextName(c))
          /\ Here(c) = Prefix(path, idx[c] + 1) /\ idx[c] + 1 \in 1..Len(path)
      BY <2>1, <3>1, HereIs
    <3>3. Exists(Here(c))
      <4>1. idx[c] + 1 \in 0..Len(path)
        BY <3>2
      <4> QED
        BY <1>1, <2>1, <2>2, <3>2, <4>1, WayThere
    <3>4. NextName(c) \in Children(p)
      BY <3>2, <3>3, RootIsIn DEF Exists, Children
    <3>5. p \in Paths \cup {Root}
      BY <2>1, ReachedIs
    <3>6. seen[c] = Listing(p)
      BY <2>1, <2>3, <3>1, <3>5 DEF SeenTrue
    <3> QED
      BY <3>1, <3>4, <3>6 DEF Listing
  <2>8. ~NoParent(c)
    <3> SUFFICES ASSUME NoParent(c) PROVE FALSE
      OBVIOUS
    <3>1. goal[c] # path /\ ~cur[c].dir /\ idx[c] = Len(goal[c]) /\ task[c].op \in {"create", "mkdir"}
      BY DEF NoParent, On, Arrived
    <3>2. goal[c] = Parent(path) /\ path # Root
      <4>1. task[c].op # "list" => path \in Paths
        BY <2>1, TasksThereAre DEF Typed, ChannelTyped, ChannelOK
      <4> QED
        BY <2>1, <3>1, <4>1, RootIsIn DEF GoalFits
    <3>3. Len(goal[c]) = Len(path) - 1 
      BY <2>2, <3>2, ParentOf
    <3>4. idx[c] < Len(path)
      BY <2>2, <3>1, <3>3
    <3> QED
      BY <2>4, <3>1, <3>4
  <2>9. CallFails(c)
    BY <1>1, <2>1, <2>5, <2>6, <2>7, <2>8, SaysNotExist
  <2>10. LacksTarget(c)
    BY <1>1, <2>1, <2>4, <2>9 DEF CallFails, Finish, Typed, Shapes
  <2> QED
    BY <2>1, <2>10 DEF LacksTarget, StageFits
<1> DEFINE A == \A c \in setup.channels :
                   /\ Alone /\ LocsHold
                   /\ pc[c] # "idle" /\ pc'[c] = "idle" /\ reply'[c] = "notExist"
                   =>  \/ ~Exists(task[c].path) \/ Inlined(task[c].path)
                       \/ task[c].op = "rename" /\ ~Exists(Parent(task[c].to))
<1>2. Inv /\ [Next]_vars => A
  BY <1>1
<1> QED
  BY <1>2, AlwaysInv, PTL DEF Spec, NotFoundIsTrue
=============================================================================
