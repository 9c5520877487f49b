---------------------------- MODULE MCSkillStore ----------------------------
(***************************************************************************)
(* Instances of SkillStore for TLC.                                         *)
(***************************************************************************)
EXTENDS SkillStore

CONSTANTS n1, n2, p1, p2, good, better, poisoned, unlinted

Rec(use, pinned, state) ==
  [use |-> use, view |-> 0, patch |-> 0, pinned |-> pinned, state |-> state,
   created |-> 0, used |-> Absent]

(* n1 is live and was used once, every other skill is archived.             *)
TheSnapshot ==
  [file    |-> [n \in Names |-> IF n = n1 THEN good ELSE Absent],
   archive |-> [n \in Names |-> IF n = n1 THEN Absent ELSE good],
   usage   |-> [n \in Names |-> IF n = n1 THEN Rec(1, FALSE, "active")
                                          ELSE Rec(0, FALSE, "archived")]]

(* A snapshot of skills that were never used.                               *)
UnusedSnapshot == [TheSnapshot EXCEPT !.usage = [n \in Names |-> Rec(0, FALSE, "active")]]
=============================================================================
