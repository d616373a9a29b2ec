---------------------------- MODULE MCFileLogger ----------------------------
(* Two log files, small ones, with settings that differ in everything. *)
EXTENDS FileLogger, TLC

SmallConfigs ==
  {[name |-> "a", maxSize |-> 1, maxBackups |-> 2, minLevel |-> 0, bufferSize |-> 0],
   [name |-> "a", maxSize |-> 1, maxBackups |-> 1, minLevel |-> 2, bufferSize |-> 2],
   [name |-> "b", maxSize |-> 2, maxBackups |-> 0, minLevel |-> 2, bufferSize |-> 1]}

Interchangeable == Permutations(Writers)
=============================================================================
