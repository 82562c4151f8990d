----------------------------- MODULE MCBackends -----------------------------
(* A place with two names and one member in a directory, two calls at a     *)
(* time, and one change from outside.                                       *)
EXTENDS Backends, TLC

CONSTANTS c1, c2

Symmetry == Permutations({c1, c2})

TwoNames == {"a", "b"}
OneMember == {"x"}
Alphabetical == <<"", "a", "b", "x">>

AtS3(granted, page, limit) ==
    [scheme |-> "s3", granted |-> granted, page |-> page, limit |-> limit]
OnDisk(granted) == [scheme |-> "file", granted |-> granted, page |-> 1, limit |-> 1]

\* Everything, only reading, and only some changes; pages and listings that
\* suffice and that do not.
Deployments ==
    {AtS3({}, 1, 2), AtS3({}, 2, 1), AtS3({"ListObjectsV2", "GetObject"}, 2, 2),
     AtS3({"PutObject", "CopyObject"}, 1, 1), AtS3({"DeleteObject", "ListObjectsV2"}, 1, 1),
     AtS3({"CopyObject", "DeleteObject"}, 1, 1),
     OnDisk({"r", "w"}), OnDisk({"r"}), OnDisk({"w"})}
JustS3 == {AtS3({}, 1, 2)}
=============================================================================
