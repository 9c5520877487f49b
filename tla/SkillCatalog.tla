---------------------------- MODULE SkillCatalog ----------------------------
(***************************************************************************)
(* Which file a skill name stands for, and what is built on that: loading,  *)
(* listing, injection, authoring, support files, evaluation, the gate of a  *)
(* skill change and the proposals made for uncovered tools (skill.c).       *)
(*                                                                          *)
(* A name is looked up in the project, the user and the bundled directory,  *)
(* in each as <name>/SKILL.md and then as <name>.md.  Authoring only ever   *)
(* writes the project's <name>.md.  Calls are made one at a time; what they *)
(* do to the usage sidecar between two processes is the subject of          *)
(* SkillStore, here a call only says which sidecar it updated.              *)
(*                                                                          *)
(* Data: a text has the name in its frontmatter, the tools it mentions and  *)
(* whether lint and poison check let it through.                            *)
(***************************************************************************)
EXTENDS Integers, Sequences, FiniteSets, SequencesExt, FiniteSetsExt

CONSTANTS
  Names,       \* skill names
  Texts,       \* what a skill file holds: [name, mentions, kind]
  Empty,       \* an empty file
  Absent,      \* no file
  Installed,   \* the files put in place by hand, [Slots -> Files]
  Tools,       \* tool names of the registry
  Unnamed,     \* a registry entry without a name, or none that makes a skill name
  Slug,        \* [Tools -> names], skill_capability_slug
  Registries,  \* the tool registry snapshots, sequences of entries
  EvalDirs,    \* per name, what its eval directory may hold, in directory order
  Thresholds,  \* thresholds of the change gate, as fractions
  MaxSkills,   \* SKILL_MAX_SKILLS
  MaxCases,    \* SKILL_EVAL_MAX_CASES
  MaxCalls     \* bound: calls made

VARIABLES
  body,         \* the skill files
  support,      \* the support files, by the directory they are in
  proposal,     \* .changes: the tool each proposed skill is for
  activations,  \* s_skill_self_activations_total
  calls,        \* calls made
  last          \* the call that has just returned

vars == <<body, support, proposal, activations, calls, last>>

Tiers == <<"project", "user", "bundled">>
Forms == <<"dir", "flat">>
Slots == ToSet(Tiers) \X ToSet(Forms) \X Names
Files == Texts \cup {Empty, Absent}
Slugs == {Slug[t] : t \in Tools}
Flat(n) == <<"project", "flat", n>>

(* Where the support files of a slot are: beside its SKILL.md, or in the    *)
(* one directory all flat skills of the tier share.                         *)
Dirs == (ToSet(Tiers) \X Names) \cup (ToSet(Tiers) \X {Absent})
DirOf(slot) == <<slot[1], IF slot[2] = "dir" THEN slot[3] ELSE Absent>>

(* What an eval fixture says: whether it is valid, whether the recorded     *)
(* baseline shows the violation, and whether baseline and treatment comply. *)
Fixtures == [valid : BOOLEAN, violates : BOOLEAN, baseline : BOOLEAN, treatment : BOOLEAN]

ASSUME CatalogAssumption ==
  /\ IsFiniteSet(Names) /\ Absent \notin Names /\ Absent \notin Slots
  /\ Absent \notin Texts /\ Empty \notin Texts /\ Absent # Empty
  /\ \A c \in Texts : c.name \in Names \cup {Absent}
  /\ Installed \subseteq [Slots -> Files]
  /\ MaxSkills \in Nat \ {0} /\ MaxCases \in Nat \ {0} /\ MaxCalls \in Nat

ASSUME RegistryAssumption ==
  /\ Slug \in [Tools -> STRING] /\ Absent \notin Tools
  /\ \A registry \in Registries : registry \in Seq(Tools \cup {Unnamed})

ASSUME EvalAssumption ==
  /\ \A n \in Names : \A dir \in EvalDirs[n] : dir \in Seq(Fixtures)
  /\ \A th \in Thresholds : th[1] \in Int /\ th[2] \in Int

-----------------------------------------------------------------------------
(* Resolution, loading, listing.                                            *)

(* Mutant: the user's skills come before the project's.                     *)
SearchUserFirst(n) == <<<<"user", "dir", n>>, <<"user", "flat", n>>,
                        <<"project", "dir", n>>, <<"project", "flat", n>>,
                        <<"bundled", "dir", n>>, <<"bundled", "flat", n>>>>

Search(n) == <<<<"project", "dir", n>>, <<"project", "flat", n>>,
               <<"user", "dir", n>>, <<"user", "flat", n>>,
               <<"bundled", "dir", n>>, <<"bundled", "flat", n>>>>

(* skill_resolve_path *)
Resolved(n) ==
  LET i == SelectInSeq(Search(n), LAMBDA s : body[s] # Absent)
  IN  IF i = 0 THEN Absent ELSE Search(n)[i]

Found(n) == n \in Names /\ Resolved(n) # Absent

(* skill_load: an empty file is like none.                                  *)
Load(n) == IF ~Found(n) \/ body[Resolved(n)] = Empty THEN Absent ELSE body[Resolved(n)]

InTier(tier) == {n \in Names : \E form \in ToSet(Forms) : body[<<tier, form, n>>] # Absent}

(* Mutant: a name that is already listed takes up a place again.            *)
AddTierTwice(listed, tier) ==
  LET room == MaxSkills - Cardinality(listed)
      new  == InTier(tier)
  IN  IF Cardinality(new) <= room THEN {listed \cup new}
      ELSE {listed \cup some : some \in kSubset(room, new)}

(* Mutant: the last place of the caller's array is passed by one.           *)
AddTierOver(listed, tier) ==
  LET room == MaxSkills + 1 - Cardinality(listed)
      new  == InTier(tier) \ listed
  IN  IF Cardinality(new) <= room THEN {listed \cup new}
      ELSE {listed \cup some : some \in kSubset(room, new)}

(* One directory of skill_list: its names in directory order, while there   *)
(* is room.                                                                 *)
AddTier(listed, tier) ==
  LET room == MaxSkills - Cardinality(listed)
      new  == InTier(tier) \ listed
  IN  IF Cardinality(new) <= room THEN {listed \cup new}
      ELSE {listed \cup some : some \in kSubset(room, new)}

(* What skill_list may return.                                              *)
Listings ==
  UNION {UNION {AddTier(l2, "bundled") : l2 \in AddTier(l1, "user")} :
           l1 \in AddTier({}, "project")}

-----------------------------------------------------------------------------
(* Calls.                                                                   *)

Nothing == [op |-> "none", name |-> Absent, ok |-> TRUE, text |-> Absent,
            sidecar |-> Absent, listed |-> {}, made |-> {}, registry |-> <<>>,
            eval |-> Absent, dir |-> <<>>]
Call(op, n) == [Nothing EXCEPT !.op = op, !.name = n]

(* Every variable has its type; a listing fits the caller's array of         *)
(* SKILL_MAX_SKILLS entries.                                                *)
TypeOK ==
  /\ body \in [Slots -> Files]
  /\ support \in [Dirs -> Names \cup {Absent}]
  /\ proposal \in [Slugs -> Tools \cup {Absent}]
  /\ activations \in 0..MaxCalls /\ calls \in 0..MaxCalls
  /\ last.ok \in BOOLEAN
  /\ last.sidecar \in Slots \cup {Absent}
  /\ last.listed \in SUBSET Names /\ Cardinality(last.listed) <= MaxSkills

Init ==
  /\ body \in Installed
  /\ support = [d \in Dirs |-> Absent]
  /\ proposal = [s \in Slugs |-> Absent]
  /\ activations = 0 /\ calls = 0 /\ last = Nothing

Done(r) ==
  /\ last = Nothing
  /\ calls < MaxCalls /\ calls' = calls + 1
  /\ last' = r

Return ==
  /\ last # Nothing /\ last' = Nothing
  /\ UNCHANGED <<body, support, proposal, activations, calls>>

List(listed) ==
  /\ Done([Call("list", Absent) EXCEPT !.listed = listed])
  /\ UNCHANGED <<body, support, proposal, activations>>

(* Mutant: bundled skills have a sidecar like all others.                   *)
EventAlways(r, io) ==
  LET s == Resolved(r.name) IN
  IF s = Absent THEN [r EXCEPT !.ok = FALSE]
  ELSE [r EXCEPT !.ok = io, !.sidecar = IF io THEN s ELSE Absent]

(* skill_record_event: nothing is recorded for a bundled skill, which is a  *)
(* success.  io: the sidecar can be written.                                *)
Event(r, io) ==
  LET s == Resolved(r.name) IN
  IF s = Absent THEN [r EXCEPT !.ok = FALSE]
  ELSE IF s[1] = "bundled" THEN r
  ELSE [r EXCEPT !.ok = io, !.sidecar = IF io THEN s ELSE Absent]

(* skill_inject: the skill goes into the prompt whether or not its          *)
(* activation could be recorded.                                            *)
Inject(n, io) ==
  /\ LET r == [Call("inject", n) EXCEPT !.text = Load(n)]
     IN  Done(IF Load(n) = Absent THEN [r EXCEPT !.ok = FALSE]
              ELSE [Event(r, io) EXCEPT !.ok = TRUE])
  /\ activations' = IF Load(n) = Absent THEN activations ELSE activations + 1
  /\ UNCHANGED <<body, support, proposal>>

RecordView(n, io) ==
  /\ Done(Event(Call("view", n), io))
  /\ UNCHANGED <<body, support, proposal, activations>>

-----------------------------------------------------------------------------
(* Authoring.                                                               *)

PoisonFree(c)  == c.kind # "poisoned"
LintFree(n, c) == c.kind # "unlinted" /\ c.name = n

MayCreate(n, c) == PoisonFree(c) /\ LintFree(n, c) /\ body[Flat(n)] = Absent
MayEdit(n, c)   == body[Flat(n)] # Absent /\ LintFree(n, c)

(* A body is written and the sidecar of the skill updated, which a create   *)
(* does not look at.  fail: what cannot be written.                         *)
Author(op, n, c, may, fail) ==
  LET written == may /\ fail # "body" IN
  /\ body' = IF written THEN [body EXCEPT ![Flat(n)] = c] ELSE body
  /\ Done([Call(op, n) EXCEPT
            !.text = IF written THEN c ELSE Absent,
            !.ok = written /\ (op \in {"create", "import"} \/ fail = "none"),
            !.sidecar = IF written /\ fail = "none"
                        THEN IF body[<<"project", "dir", n>>] # Absent
                             THEN <<"project", "dir", n>> ELSE Flat(n)
                        ELSE Absent])
  /\ UNCHANGED <<support, proposal, activations>>

Create(n, c, fail) == Author("create", n, c, MayCreate(n, c), fail)

(* skill_import_content takes the name from the frontmatter.                *)
Import(c, fail) ==
  Author("import", c.name, c, c.name # Absent /\ MayCreate(c.name, c), fail)

Edit(n, c, fail) == Author("edit", n, c, MayEdit(n, c), fail)

(* skill_manage_patch changes the text the name resolves to and hands it to *)
(* edit, which writes the project's flat file.                              *)
Patch(n, c, fail) == Author("patch", n, c, Load(n) # Absent /\ MayEdit(n, c), fail)

(* skill_manage_write_file: the skill must be a flat one of the project, the *)
(* file goes into the directory all of them share.  ok: skill_support_path_ok *)
(* lets the path through.                                                   *)
WriteFile(n, ok, fail) ==
  LET written == body[Flat(n)] # Absent /\ ok /\ fail # "body" IN
  /\ support' = IF written THEN [support EXCEPT ![DirOf(Flat(n))] = n] ELSE support
  /\ Done([Call("write_file", n) EXCEPT
            !.ok = written /\ fail = "none",
            !.sidecar = IF written /\ fail = "none" THEN Resolved(n) ELSE Absent])
  /\ UNCHANGED <<body, proposal, activations>>

(* skill_support_file_load looks beside the file the name resolves to.      *)
SupportLoad(n) == IF Found(n) THEN support[DirOf(Resolved(n))] ELSE Absent

-----------------------------------------------------------------------------
(* Proposals for tools no skill covers.                                     *)

Mentioned(t, listed) == \E n \in listed : Load(n) # Absent /\ t \in Load(n).mentions

(* Mutant: only names are compared, not what the skills say.                *)
CoveredByName(t, listed) == Found(t) \/ Found(Slug[t])

(* skill_capability_tool_is_covered *)
Covered(t, listed) == Found(t) \/ Found(Slug[t]) \/ Mentioned(t, listed)

(* Mutant: a proposal is written although there is one.                     *)
StubOver(acc, t, listed, broken) ==
  IF t = Unnamed                    THEN [acc EXCEPT !.skipped = @ + 1]
  ELSE IF Covered(t, listed)        THEN [acc EXCEPT !.existing = @ + 1]
  ELSE IF Slug[t] \in broken        THEN [acc EXCEPT !.errors = @ + 1]
  ELSE [acc EXCEPT !.proposal[Slug[t]] = t, !.made = @ \cup {t}]

(* Mutant: the pass ends at the first tool that is covered.                 *)
StubUntilCovered(acc, t, listed, broken) ==
  IF t = Unnamed \/ acc.existing > 0 THEN [acc EXCEPT !.skipped = @ + 1]
  ELSE IF Covered(t, listed)         THEN [acc EXCEPT !.existing = @ + 1]
  ELSE IF acc.proposal[Slug[t]] # Absent THEN [acc EXCEPT !.skipped = @ + 1]
  ELSE IF Slug[t] \in broken         THEN [acc EXCEPT !.errors = @ + 1]
  ELSE [acc EXCEPT !.proposal[Slug[t]] = t, !.made = @ \cup {t}]

(* One entry of the registry.                                               *)
Stub(acc, t, listed, broken) ==
  IF t = Unnamed                         THEN [acc EXCEPT !.skipped = @ + 1]
  ELSE IF Covered(t, listed)             THEN [acc EXCEPT !.existing = @ + 1]
  ELSE IF acc.proposal[Slug[t]] # Absent THEN [acc EXCEPT !.skipped = @ + 1]
  ELSE IF Slug[t] \in broken             THEN [acc EXCEPT !.errors = @ + 1]
  ELSE [acc EXCEPT !.proposal[Slug[t]] = t, !.made = @ \cup {t}]

(* The pass over the entries of a snapshot.                                 *)
Stubbed(registry, listed, broken) ==
  LET after[i \in 0..Len(registry)] ==
        IF i = 0 THEN [proposal |-> proposal, made |-> {}, existing |-> 0, skipped |-> 0,
                       errors |-> 0]
        ELSE Stub(after[i - 1], registry[i], listed, broken)
  IN  after[Len(registry)]

(* skill_capability_autostub_from_json; the proposals of broken cannot be   *)
(* written.                                                                 *)
Autostub(registry, listed, broken) ==
  LET pass == Stubbed(registry, listed, broken) IN
  /\ proposal' = pass.proposal
  /\ Done([Call("autostub", Absent) EXCEPT !.ok = pass.errors = 0, !.made = pass.made,
                                           !.registry = registry])
  /\ UNCHANGED <<body, support, activations>>

(* A snapshot that is not usable, or .changes cannot be made.               *)
AutostubRefused ==
  /\ Done([Call("autostub", Absent) EXCEPT !.ok = FALSE])
  /\ UNCHANGED <<body, support, proposal, activations>>

-----------------------------------------------------------------------------
(* Evaluation.                                                              *)

(* One file of the directory, read while there are fewer than MaxCases.     *)
EvalOne(acc, f) ==
  IF acc.scenarios >= MaxCases THEN acc
  ELSE IF ~f.valid THEN [acc EXCEPT !.errors = @ + 1]
  ELSE [acc EXCEPT !.scenarios = @ + 1,
                   !.violations = @ + (IF f.violates THEN 1 ELSE 0),
                   !.baseline = @ + (IF f.baseline THEN 1 ELSE 0),
                   !.treatment = @ + (IF f.treatment THEN 1 ELSE 0)]

Evaluated(dir) ==
  LET after[i \in 0..Len(dir)] ==
        IF i = 0 THEN [scenarios |-> 0, errors |-> 0, violations |-> 0, baseline |-> 0,
                       treatment |-> 0]
        ELSE EvalOne(after[i - 1], dir[i])
  IN  after[Len(dir)]

(* Mutant: fixtures that cannot be used are passed over.                    *)
UsableAnyway(e) == e.scenarios > 0

Usable(e) == e.scenarios > 0 /\ e.errors = 0

Passed(e) == e.violations = e.scenarios /\ e.treatment = e.scenarios
             /\ e.treatment > e.baseline

(* skill_eval_run; dir is Absent when there is no eval directory.           *)
EvalRun(n, dir) ==
  /\ LET e == Evaluated(dir) IN
     Done([Call("eval", n) EXCEPT
            !.ok = Found(n) /\ dir # Absent /\ Usable(e),
            !.eval = IF Found(n) /\ dir # Absent THEN e ELSE Absent,
            !.dir = IF dir = Absent THEN <<>> ELSE dir])
  /\ UNCHANGED <<body, support, proposal, activations>>

(* skill_change_eval_gate_allows: what it may answer.  The delta is a       *)
(* quotient of doubles, so at the threshold itself rounding decides.        *)
GateAllows(payload, th) ==
  LET delta == payload.gain * th[2]
      limit == th[1] * payload.scenarios
  IN  IF ~payload.passed \/ delta < limit THEN {FALSE}
      ELSE IF delta > limit THEN {TRUE} ELSE BOOLEAN

(* The eval_result of a change that was evaluated, and of a fresh stub.     *)
EvalPayload(e) ==
  [passed |-> Passed(e), gain |-> e.treatment - e.baseline, scenarios |-> e.scenarios]
StubPayload == [passed |-> FALSE, gain |-> 0, scenarios |-> 0]

-----------------------------------------------------------------------------
Fails == {"none", "body", "sidecar"}

Next ==
  \/ \E listed \in Listings : List(listed)
  \/ \E n \in Names, io \in BOOLEAN : Inject(n, io) \/ RecordView(n, io)
  \/ \E n \in Names, c \in Texts, fail \in Fails :
       Create(n, c, fail) \/ Edit(n, c, fail) \/ Patch(n, c, fail)
  \/ \E c \in Texts, fail \in Fails : Import(c, fail)
  \/ \E n \in Names, ok \in BOOLEAN, fail \in Fails : WriteFile(n, ok, fail)
  \/ \E registry \in Registries, listed \in Listings, broken \in SUBSET Slugs :
       Autostub(registry, listed, broken)
  \/ AutostubRefused
  \/ \E n \in Names : \E dir \in EvalDirs[n] \cup {Absent} : EvalRun(n, dir)
  \/ Return

Spec == Init /\ [][Next]_vars

-----------------------------------------------------------------------------
(* Properties.                                                              *)

Visible == {n \in Names : Found(n)}
Rank(n) == SelectInSeq(Tiers, LAMBDA t : t = Resolved(n)[1])
HasDir(n) == body[<<"project", "dir", n>>] # Absent

(* All parts of all calls mean the same file by a name: what an authoring   *)
(* call reported as written is what the name stands for afterwards, over    *)
(* whatever the user and bundled directories hold, and a support file is    *)
(* found again; unless the project also has the skill as a directory, which *)
(* hides the file they write.  A sidecar that was updated is the one beside *)
(* the file the name stands for when the call returns, and never one of a   *)
(* bundled skill.                                                           *)
CallsAgreeOnFile ==
  /\ last.ok /\ last.op \in {"create", "import", "edit", "patch", "write_file"}
     /\ ~HasDir(last.name) =>
       IF last.op = "write_file" THEN SupportLoad(last.name) = last.name
                                 ELSE Load(last.name) = last.text
  /\ last.sidecar # Absent =>
       last.sidecar = Resolved(last.name) /\ last.sidecar[1] # "bundled"

(* A skill an authoring call has just written is the one its name stands    *)
(* for: skill.h says skill_path "Looks in: 1) <project_root>/.aimee/skills/ *)
(* <name>.md", which is the file they all write.                            *)
FlatFirst ==
  last.ok /\ last.op \in {"create", "import", "edit", "patch"} =>
    Resolved(last.name) = Flat(last.name)

(* skill_list leaves a name out only when it is full, whatever order the    *)
(* directories are read in and however often a name occurs, and then of the *)
(* last tier: no user skill while a project skill is missing, and so on.    *)
ListComplete ==
  last.op = "list" =>
    /\ last.listed \subseteq Visible
    /\ Cardinality(last.listed) = Min({MaxSkills, Cardinality(Visible)})
    /\ \A in \in last.listed, out \in Visible \ last.listed :
         Rank(in) <= Rank(out)

(* A pass proposes a skill only for a tool that no skill is named after and *)
(* none says anything about, in the text its name stands for; skills beyond *)
(* the limit of skill_list may be overlooked.                               *)
ProposedOnlyIfUncovered ==
  last.op = "autostub" => \A t \in last.made :
    ~Found(t) /\ ~Found(Slug[t])
    /\ (Cardinality(Visible) <= MaxSkills => ~Mentioned(t, Visible))

(* After a pass without errors every tool of the registry is covered or a   *)
(* proposal waits under its name, also when two tools share one.            *)
PassLeavesNoGap ==
  last.op = "autostub" /\ last.ok =>
    \A t \in ToSet(last.registry) \ {Unnamed} :
      Covered(t, Visible) \/ proposal[Slug[t]] # Absent

(* A proposal that waits for review is never replaced, neither by a later   *)
(* pass nor by another tool with the same name.                             *)
ProposalKept ==
  [][\A s \in Slugs : proposal[s] # Absent => proposal'[s] = proposal[s]]_vars

(* The gate lets through only what fixtures bear out: there is one, and of  *)
(* all of them (the first MaxCases at most) every one is valid, shows the   *)
(* violation in the baseline and compliance in the treatment, and the share *)
(* of baselines that did not comply reaches the threshold.  A fresh         *)
(* proposal is let through by no threshold.                                 *)
GateNeedsEvidence ==
  \A th \in Thresholds :
    /\ TRUE \notin GateAllows(StubPayload, th)
    /\ last.op = "eval" /\ last.ok /\ TRUE \in GateAllows(EvalPayload(last.eval), th) =>
         LET seen == 1..Min({MaxCases, Len(last.dir)})
             Lapsed(i) == ~last.dir[i].baseline
         IN  /\ seen # {} /\ \E i \in seen : Lapsed(i)
             /\ \A i \in seen : LET f == last.dir[i] IN
                                  f.valid /\ f.violates /\ f.treatment
             /\ Quantify(seen, Lapsed) * th[2] >= th[1] * Cardinality(seen)
=============================================================================
