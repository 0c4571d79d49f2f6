---------------------------- MODULE SerializerIO -----------------------------
(***************************************************************************)
(* serializer::SerializeToStream and ::SerializeToFiles (src/serializer/   *)
(* serializer_io.cpp): where the text of a module goes.  A path is the     *)
(* sequence of the names of directories under the root.                    *)
(***************************************************************************)
EXTENDS Sequences, SequencesExt

VARIABLES dirs,         \* the directories there are
          scope,
          top_clear,
          file          \* the open file, as a path, or none

ioVars == <<dirs, scope, top_clear, file>>

Stream == <<"stream">>
Closed == << >>

ToStream == [files |-> FALSE, to_top_dir |-> FALSE, flat |-> FALSE, do_clear_top |-> FALSE]
ToFiles(to_top_dir, flat, do_clear_top) ==
  [files |-> TRUE, to_top_dir |-> to_top_dir, flat |-> flat, do_clear_top |-> do_clear_top]

Outputs == {ToStream} \cup {ToFiles(t, f, c) : t \in BOOLEAN, f \in BOOLEAN, c \in BOOLEAN}

IOInit(io) ==
  /\ dirs = {<< >>} /\ scope = << >> /\ top_clear = FALSE
  /\ file = IF io.files THEN Closed ELSE Stream

(* The first push finds, or makes, the top directory. *)
top_dir(io, name) ==
  IF ~ top_clear THEN IF io.to_top_dir THEN <<name>> ELSE << >>
  ELSE IF ~ io.flat THEN Append(scope, name)
  ELSE IF io.to_top_dir THEN <<Append(scope, name)[1]>> ELSE << >>

(* Mutant: the top directory is made again by every push. *)
Cleared_always(io, dir) == {d \in dirs : ~ (io.do_clear_top /\ IsPrefix(dir, d))} \cup {dir}

Cleared(io, dir) ==
  IF top_clear THEN dirs
  ELSE {d \in dirs : ~ (io.do_clear_top /\ IsPrefix(dir, d))} \cup {dir}

(* A file in a directory that is not there is not opened, and nothing      *)
(* tells.                                                                  *)
hierarchy_push(io, name) ==
  IF ~ io.files THEN UNCHANGED ioVars
  ELSE LET dir == top_dir(io, name) IN
       /\ scope' = Append(scope, name)
       /\ dirs' = Cleared(io, dir)
       /\ top_clear' = TRUE
       /\ file' = IF dir \in dirs' THEN Append(dir, name) ELSE Closed

hierarchy_pop(io) ==
  IF ~ io.files THEN UNCHANGED ioVars
  ELSE scope' = Front(scope) /\ file' = Closed /\ UNCHANGED <<dirs, top_clear>>
=============================================================================
