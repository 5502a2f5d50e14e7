--------------------------- MODULE RemoteDataset ---------------------------
(***************************************************************************)
(* What publishers and the garbage collector promise to the readers of a   *)
(* published dataset: objects are written once, the pointer names          *)
(* generations that are whole, and nothing is taken from the generation it *)
(* names.                                                                  *)
(***************************************************************************)
CONSTANTS Generation, Object, None

VARIABLES
  latest,   \* catalog/latest.json: a generation and what it lists; or None
  objects   \* objects[g][o]: what is stored; or None

Whole(pointer) == \A o \in DOMAIN pointer.lists : objects[pointer.generation][o] = pointer.lists[o]

Init ==
  /\ latest = None
  /\ objects = [g \in Generation |-> [o \in Object |-> None]]

Upload(g, o) ==
  /\ objects[g][o] = None
  /\ objects' = [objects EXCEPT ![g][o] = objects'[g][o]]
  /\ UNCHANGED latest

Point ==
  /\ latest' # None /\ Whole(latest')
  /\ UNCHANGED objects

Remove(g, o) ==
  /\ latest # None /\ latest.generation # g
  /\ objects' = [objects EXCEPT ![g][o] = None]
  /\ UNCHANGED latest

Next == Point \/ \E g \in Generation, o \in Object : Upload(g, o) \/ Remove(g, o)

Spec == Init /\ [][Next]_<<latest, objects>>
=============================================================================
