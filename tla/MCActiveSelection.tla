-------------------------- MODULE MCActiveSelection --------------------------
(* Sources, groups and contents for the selection with a cache that is kept. *)
EXTENDS ActiveSelection
MCPartitionOf == <<"a", "a", "b">>
MCContents == { <<{2}, {1, 2}, {}>>, <<{}, {}, {2}>>, <<{1}, {2}, {1}>> }
=============================================================================
