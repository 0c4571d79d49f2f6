---------------------------- MODULE MCOrderedSet ----------------------------
(* An instance of OrderedSet: four items around a limit of two or three.   *)
EXTENDS OrderedSet, SequencesExt

MCOthers == BoundedSeq(T, 2)

=============================================================================
