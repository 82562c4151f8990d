------------------------------- MODULE MCScp -------------------------------
(***************************************************************************)
(* Instances of Scp for TLC.                                               *)
(***************************************************************************)
EXTENDS Scp

CONSTANTS a, b

\* A file, a directory with a file and a directory in it, and the root.
SmallTrees ==
    {[top |-> <<a>>, dirs |-> {}, files |-> {<<a>>}],
     [top |-> <<a>>, dirs |-> {<<a>>, <<a, a>>}, files |-> {<<a, b>>}],
     [top |-> <<a>>, dirs |-> {<<a>>, <<a, a>>}, files |-> {<<a, a, b>>}],
     [top |-> <<>>, dirs |-> {<<>>}, files |-> {<<a>>}]}

=============================================================================
