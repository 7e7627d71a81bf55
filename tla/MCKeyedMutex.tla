---------------------------- MODULE MCKeyedMutex ----------------------------
(***************************************************************************)
(* Small sets of goroutines, keys and entries; their values are model      *)
(* values given in the configuration.                                      *)
(***************************************************************************)
EXTENDS KeyedMutex
=============================================================================
