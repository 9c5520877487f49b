--------------------------- MODULE MCSkillsStage ---------------------------
(***************************************************************************)
(* Instance of SkillsStage for TLC.                                         *)
(***************************************************************************)
EXTENDS SkillsStage

Bare(w)   == [quoted |-> FALSE, text |-> <<w>>]
Quoted(t) == [quoted |-> TRUE, text |-> t]
Line(top, key, items) == [top |-> top, key |-> key, items |-> items, wide |-> FALSE]

Fence    == Line(TRUE, "fence", <<>>)
Triggers == Line(TRUE, "triggers", <<>>)

(* Values that hit and miss the subjects below in every way.                *)
Values == {<<Quoted(<<"git">>)>>, <<Quoted(<<"rm">>)>>, <<Quoted(<<>>), Bare("git")>>,
           <<Bare("git"), Quoted(<<"rm">>)>>, <<Quoted(<<"git", "push", "rm">>)>>}

Indented == {Line(FALSE, "tool", <<Bare("Bash")>>), Line(FALSE, "tool", <<Bare("Edit")>>)}
            \cup {Line(FALSE, "pattern", v) : v \in Values}
MCLines == Indented \cup {Fence, Triggers, Line(TRUE, "blank", <<>>), Line(TRUE, "other", <<>>),
                          Line(FALSE, "other", <<>>),
                          [Line(FALSE, "tool", <<Bare("Edit")>>) EXCEPT !.wide = TRUE]}

MCVocabulary == {"Bash", "git", "push"}

(* Every header of up to three lines and every block of three lines.        *)
Skills == {<<Fence>> \o h \o <<Fence>> : h \in BoundedSeq(MCLines, 3)}
          \cup {<<Fence, Triggers>> \o b \o <<Fence>> : b \in TupleOf(Indented, 3)}

(* An empty skill, one without frontmatter, and larger ones, of which only  *)
(* the last has its closing fence beyond the limit.                         *)
Odd == {<<>>, <<Triggers>>,
        <<Fence, Triggers, Fence, Triggers, Triggers, Triggers>>,
        <<Fence, Triggers, Fence, Triggers, Triggers, Triggers, Triggers>>,
        <<Fence, Triggers, Triggers, Triggers, Triggers, Triggers, Fence>>}

(* Tools and subjects at, below and above their limits.                     *)
MCQuestions ==
  [content : Skills, tool : {<<"Bash">>}, subject : {<<"git">>, <<"git", "push">>}]
  \cup [content : Odd, tool : BoundedSeq({"Bash"}, 3), subject : BoundedSeq({"git"}, 3)]
=============================================================================
