--------------------------- MODULE MCSkillCatalog ---------------------------
(***************************************************************************)
(* Instance of SkillCatalog for TLC.                                        *)
(***************************************************************************)
EXTENDS SkillCatalog

Text(name, mentions, kind) == [name |-> name, mentions |-> mentions, kind |-> kind]

MCNames == {"git", "ops", "web"}
MCTools == {"git", "Git", "rm"}
MCSlug  == [t \in MCTools |-> IF t = "rm" THEN "rm" ELSE "git"]
MCTexts == {Text("git", {}, "clean"), Text("ops", {"Git"}, "clean"), Text("ops", {}, "clean"),
            Text("ops", {}, "unlinted"), Text("git", {}, "poisoned"),
            Text("web", {"rm"}, "clean"), Text(Absent, {}, "clean")}

Placed(f) == [s \in Slots |-> IF s \in DOMAIN f THEN f[s] ELSE Absent]

(* What is put in place by hand: nothing, an empty file, one file or two of *)
(* the first two names anywhere, or a flat file of every name.              *)
Hand(n) == CHOOSE t \in MCTexts : t.name = n /\ t.kind = "clean" /\ (n = "git" \/ t.mentions # {})
Some == {s \in Slots : s[3] # "web"}
MCInstalled ==
  {Placed([s \in {x, y} |-> Hand(s[3])]) : x, y \in Some}
  \cup {Placed([s \in {x} |-> Empty]) : x \in Some}
  \cup {Placed([s \in {<<t[n], "flat", n>> : n \in MCNames} |-> Hand(s[3])]) :
          t \in [MCNames -> ToSet(Tiers)]}
  \cup {Placed(<<>>)}

Fixture(valid, violates, baseline, treatment) ==
  [valid |-> valid, violates |-> violates, baseline |-> baseline, treatment |-> treatment]
SomeFixtures == {Fixture(TRUE, TRUE, FALSE, TRUE), Fixture(TRUE, TRUE, TRUE, TRUE),
                 Fixture(TRUE, FALSE, FALSE, TRUE), Fixture(TRUE, TRUE, FALSE, FALSE),
                 Fixture(FALSE, TRUE, FALSE, TRUE)}
(* Up to MaxCases files of any kind, and one more than that.                *)
MCEvalDirs ==
  [n \in MCNames |-> IF n # "ops" THEN {} ELSE BoundedSeq(SomeFixtures, 2) \cup
     {<<Fixture(TRUE, TRUE, FALSE, TRUE)>> \o d : d \in TupleOf(SomeFixtures, 2)}]

MCRegistries == {<<>>, <<"git", Unnamed, "rm">>, <<"Git", "git">>, <<"rm", "Git">>}
MCThresholds == {<<0, 1>>, <<1, 3>>, <<1, 2>>, <<1, 1>>}
=============================================================================
