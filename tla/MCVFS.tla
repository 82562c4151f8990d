------------------------------- MODULE MCVFS -------------------------------
(* Instances of VFS for TLC.  At the start a is a directory with one file  *)
(* in it, and b is a free name beside it.                                  *)
EXTENDS VFS, TLC

CONSTANTS a, b

TwoNames == {a, b}

\* Two names at the top, and one name beneath each.
SmallTree == {<<a>>, <<b>>, <<a, a>>, <<b, a>>}
OneBranch == {<<a>>, <<a, a>>}
TopDir == {<<a>>}
InnerFile == {<<a, a>>}

\* One channel, over a backend that assigns locations and keeps them in a
\* rename, or over one whose locations are paths and that lists what is at a,
\* when it has children, with them inline.
OneChannel ==
    {[channels |-> {c}, asked |-> SmallTree, inline |-> {}, pathLocs |-> FALSE] : c \in Channels}
    \cup
    {[channels |-> {c}, asked |-> SmallTree, inline |-> TopDir, pathLocs |-> TRUE] : c \in Channels}

\* Every channel, over a backend whose locations are paths.
Shared(asked) == [channels |-> Channels, asked |-> asked, inline |-> {}, pathLocs |-> TRUE]

EverySetup == OneChannel \cup {Shared(OneBranch)}
WideShared == {Shared(SmallTree)}

\* Channels are interchangeable; no property names one.
Interchangeable == Permutations(Channels)
=============================================================================
