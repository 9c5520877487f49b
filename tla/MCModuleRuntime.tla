-------------------------- MODULE MCModuleRuntime --------------------------
(***************************************************************************)
(* Instances of ModuleRuntime for TLC.                                      *)
(***************************************************************************)
EXTENDS ModuleRuntime, TLC

CONSTANTS c1, c2, c3, plain, timed

(* Every request has a deadline: correlations are interchangeable.          *)
AllTimed == [c \in Corr |-> timed]
Interchangeable == Permutations(Corr)

(* c1 has a deadline, the others have none.                                 *)
OneTimed == [c \in Corr |-> IF c = c1 THEN timed ELSE plain]

(* A reply of one fragment.                                                 *)
ShortResult == {[status |-> "OK", parts |-> 1]}

(* A reply of two fragments, a failure with a body, an unknown status and a *)
(* body over the limit.                                                     *)
AllResults == {[status |-> "OK", parts |-> 2],
               [status |-> "Internal", parts |-> 1],
               [status |-> "unknown", parts |-> 0],
               [status |-> "OK", parts |-> 3]}
=============================================================================
