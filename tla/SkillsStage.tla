---------------------------- MODULE SkillsStage ----------------------------
(***************************************************************************)
(* The two decisions of the skills process, from the C function that asks   *)
(* to the C function that returns the answer: whether a skill's trigger     *)
(* matches a tool call (event 7682) and whether the review nudge is due     *)
(* (event 7681).  The request is put into bytes by module_api.h, decided by *)
(* the Go handler (server-go/modules/skills/skills.go) or by its C twin     *)
(* (module_adapter.c, skill_trigger_policy.c), and the answer is read back. *)
(*                                                                          *)
(* Data: a text is a sequence of words, a skill a sequence of lines, and    *)
(* every length counts those.  A message keeps its magic, its version, the  *)
(* lengths it declares, the length it has and whether a zero byte is in it. *)
(***************************************************************************)
EXTENDS Integers, Sequences, SequencesExt

CONSTANTS
  Lines,       \* the lines a skill may be made of
  Vocabulary,  \* the words tools and subjects are made of
  Questions,   \* the skills, tools and subjects asked about
  ContentMax,  \* SKILL_MAX_SIZE, which is also AIMEE_SKILLS_TRIGGER_CONTENT_MAX
  ToolMax,     \* AIMEE_SKILLS_TRIGGER_TOOL_MAX
  SubjectMax,  \* AIMEE_SKILLS_TRIGGER_SUBJECT_MAX
  PatternMax,  \* the longest pattern compared
  Width,       \* bits of an int
  MaxFaults    \* bound: messages lost, damaged or cancelled in one call

ASSUME SizesAssumption ==
  /\ ContentMax \in Nat /\ ToolMax \in Nat /\ SubjectMax \in Nat
  /\ PatternMax \in Nat \ {0} /\ Width \in Nat \ {0} /\ MaxFaults \in Nat

ASSUME QuestionsAssumption ==
  Questions \subseteq [content : Seq(Lines), tool : Seq(Vocabulary), subject : Seq(Vocabulary)]

(* Arithmetic: the sign bit is half of the range.                           *)
ASSUME WidthAssumption ==
  2 ^ (Width - 1) \in Nat \ {0} /\ 2 ^ Width = 2 * 2 ^ (Width - 1)

VARIABLES
  provider,  \* g_skill_trigger_match_provider is installed
  pc,        \* idle, requested, replied, done
  ask,       \* what the call under way is about
  msg,       \* the bytes under way
  faults,    \* what went wrong during the call
  result     \* what the call returned

vars == <<provider, pc, ask, msg, faults, result>>

None == [stage |-> 0]
Ints == -(2 ^ (Width - 1))..(2 ^ (Width - 1) - 1)

-----------------------------------------------------------------------------
(* Frontmatter.  A line has a key, may be indented, and its value is a      *)
(* sequence of items, quoted or bare.  wide: the indent goes on with a      *)
(* space that is not ASCII.                                                 *)

Least(a, b) == IF a < b THEN a ELSE b
Words(line) == UNION {ToSet(line.items[i].text) : i \in DOMAIN line.items}

(* Mutant: a large skill is not cut off.                                    *)
LoadWhole(c) == c

(* skill_load reads up to ContentMax.                                       *)
Load(c) == SubSeq(c, 1, Least(Len(c), ContentMax))

(* The lines between the fences; the closing one follows a line of header.  *)
Fenced(c) == Len(c) > 0 /\ c[1].key = "fence"
             /\ \E i \in 3..Len(c) : c[i].key = "fence"
Header(c) ==
  LET end == CHOOSE i \in 3..Len(c) :
               c[i].key = "fence" /\ \A j \in 3..(i - 1) : c[j].key # "fence"
  IN  IF Fenced(c) THEN SubSeq(c, 2, end - 1) ELSE <<>>

(* value_contains_token: a word of the value is the whole of the text.      *)
HasToken(line, text) == \E w \in Words(line) : text = <<w>>

Patterns(line) == {line.items[i].text : i \in {j \in DOMAIN line.items :
                     line.items[j].quoted /\ line.items[j].text # <<>>}}

(* patterns_match: a quoted pattern is looked for, cut to PatternMax; only  *)
(* a value without one is searched for the subject as a token.              *)
PatternsMatch(line, subject) ==
  IF Patterns(line) # {}
  THEN \E p \in Patterns(line) :
         SubSeq(p, 1, Least(Len(p), PatternMax)) \in SubSeqs(subject)
  ELSE HasToken(line, subject)

(* What line_value makes of the key, and what bytes.TrimSpace does.         *)
CKey(line)  == IF line.wide THEN "other" ELSE line.key
GoKey(line) == line.key

Fresh == [in |-> FALSE, over |-> FALSE, sawTool |-> FALSE, tool |-> FALSE,
          sawPattern |-> FALSE, pattern |-> FALSE]

(* What an indented line of the block adds.                                 *)
Noted(s, line, key, tool, subject) ==
  LET isTool    == s.in /\ key = "tool"
      isPattern == s.in /\ key = "pattern"
  IN  [s EXCEPT !.sawTool    = @ \/ isTool,
                !.tool       = @ \/ (isTool /\ HasToken(line, tool)),
                !.sawPattern = @ \/ isPattern,
                !.pattern    = @ \/ (isPattern /\ PatternsMatch(line, subject))]

(* Mutant: the block goes on after the next key of the top level.           *)
ScannedOn(s, line, key, tool, subject) ==
  IF key = "blank" THEN s
  ELSE IF line.top THEN [s EXCEPT !.in = @ \/ key = "triggers"]
  ELSE Noted(s, line, key, tool, subject)

(* One turn of the loop over the header.                                    *)
Scanned(s, line, key, tool, subject) ==
  IF s.over \/ key = "blank" THEN s
  ELSE IF line.top /\ key = "triggers" THEN [s EXCEPT !.in = TRUE]
  ELSE IF line.top THEN [s EXCEPT !.over = s.in]
  ELSE Noted(s, line, key, tool, subject)

Verdict(s) == s.in /\ (s.sawTool => s.tool) /\ (s.sawPattern => s.pattern)

(* The loop over the lines, of which keys are the keys.                     *)
Scan(lines, keys, tool, subject) ==
  LET after[i \in 0..Len(lines)] ==
        IF i = 0 THEN Fresh ELSE Scanned(after[i - 1], lines[i], keys[i], tool, subject)
  IN  after[Len(lines)]

(* skill_trigger_policy_matches_content and triggerMatches.                 *)
CMatches(c, tool, subject) ==
  LET h == Header(c)
  IN  Verdict(Scan(h, [i \in DOMAIN h |-> CKey(h[i])], tool, subject))
GoMatches(c, tool, subject) ==
  LET h == Header(c)
  IN  Verdict(Scan(h, [i \in DOMAIN h |-> GoKey(h[i])], tool, subject))

(* Reference: the block is the indented lines under the first "triggers:"   *)
(* of the top level, up to the next other key of the top level; each of the *)
(* two conditions holds if no line states it or some line of it is met.     *)
Block(c) ==
  LET h == Header(c)
      starts == {i \in DOMAIN h : h[i].top /\ h[i].key = "triggers"}
      ends   == {i \in DOMAIN h : h[i].top /\ h[i].key \notin {"triggers", "blank"}}
  IN  {h[i] : i \in {j \in DOMAIN h : ~h[j].top /\
         \E s \in starts : s < j /\ \A e \in ends : e < Min(starts) \/ e > j}}
TriggersOn(c, tool, subject) ==
  LET lines(key) == {l \in Block(c) : l.key = key} IN
  /\ \E i \in DOMAIN Header(c) : Header(c)[i].top /\ Header(c)[i].key = "triggers"
  /\ lines("tool") # {} => \E l \in lines("tool") : HasToken(l, tool)
  /\ lines("pattern") # {} => \E l \in lines("pattern") : PatternsMatch(l, subject)

-----------------------------------------------------------------------------
(* Messages.                                                                *)

(* aimee_skills_put_u32 and the cast back to int.                           *)
U32(v) == v % 2 ^ Width

(* Mutant: the word is read without its sign.                               *)
S32Unsigned(u) == u

S32(u) == IF u >= 2 ^ (Width - 1) THEN u - 2 ^ Width ELSE u

HeaderLen == 20

(* aimee_skills_request_encode *)
ReviewRequest(count, interval) ==
  [stage |-> 1, magic |-> "STCX", version |-> 1, len |-> 16, nul |-> FALSE,
   count |-> U32(count), interval |-> U32(interval)]

(* aimee_skills_trigger_request_size refuses what it returns zero for.      *)
Encodable(c, tool, subject) ==
  tool # <<>> /\ Len(c) <= ContentMax /\ Len(tool) <= ToolMax /\ Len(subject) <= SubjectMax

TriggerRequest(c, tool, subject) ==
  [stage |-> 2, magic |-> "SKTQ", version |-> 1, nul |-> FALSE,
   len |-> HeaderLen + Len(c) + Len(tool) + Len(subject),
   clen |-> Len(c), tlen |-> Len(tool), slen |-> Len(subject),
   content |-> c, tool |-> tool, subject |-> subject]

Failed(status) == [stage |-> 0, status |-> status]
ReviewResponse(fire) ==
  [stage |-> 1, status |-> "OK", magic |-> "VIEW", version |-> 1, len |-> 8,
   value |-> IF fire THEN 1 ELSE 0]
TriggerResponse(match) ==
  [stage |-> 2, status |-> "OK", magic |-> "SKTR", version |-> 1, len |-> 12,
   value |-> IF match THEN 1 ELSE 0]

(* What a peer of another version, a cut or a mixed-up message looks like.  *)
Damaged(m) ==
  {[m EXCEPT !.magic = "none"], [m EXCEPT !.version = 2],
   [m EXCEPT !.len = @ - 1], [m EXCEPT !.len = @ + 1]}
  \cup (IF "nul" \in DOMAIN m THEN {[m EXCEPT !.nul = TRUE]} ELSE {[m EXCEPT !.value = 2]})

-----------------------------------------------------------------------------
(* The handlers.                                                            *)

Due(count, interval) == interval > 0 /\ count > 0 /\ count % interval = 0

(* handle_review and handleContext test the same bytes.                     *)
ReviewValid(m) == m.len = 16 /\ m.magic = "STCX" /\ m.version = 1

Review(m) == IF ReviewValid(m)
             THEN ReviewResponse(Due(S32(m.count), S32(m.interval)))
             ELSE Failed("InvalidRequest")

(* Mutant: a zero byte goes unnoticed.                                      *)
CDecodesAnyByte(m) ==
  /\ m.len >= HeaderLen /\ m.magic = "SKTQ" /\ m.version = 1
  /\ m.clen <= ContentMax /\ m.tlen # 0 /\ m.tlen <= ToolMax /\ m.slen <= SubjectMax
  /\ HeaderLen + m.clen + m.tlen + m.slen = m.len

(* aimee_skills_trigger_request_decode *)
CDecodes(m) ==
  /\ m.len >= HeaderLen /\ m.magic = "SKTQ" /\ m.version = 1
  /\ m.clen <= ContentMax /\ m.tlen # 0 /\ m.tlen <= ToolMax /\ m.slen <= SubjectMax
  /\ HeaderLen + m.clen + m.tlen + m.slen = m.len
  /\ ~m.nul

(* The first half of handleTrigger: the total is compared before the bytes. *)
GoDecodes(m) ==
  LET total == HeaderLen + m.clen + m.tlen + m.slen IN
  /\ m.len >= HeaderLen /\ m.magic = "SKTQ" /\ m.version = 1
  /\ ~(m.clen > ContentMax \/ m.tlen = 0 \/ m.tlen > ToolMax
        \/ m.slen > SubjectMax \/ total # m.len)
  /\ ~m.nul

CTrigger(m)  == IF CDecodes(m)
                THEN TriggerResponse(CMatches(m.content, m.tool, m.subject))
                ELSE Failed("InvalidRequest")
GoTrigger(m) == IF GoDecodes(m)
                THEN TriggerResponse(GoMatches(m.content, m.tool, m.subject))
                ELSE Failed("InvalidRequest")

(* aimee_module_handler looks at the cancel first, Handle at the stage.     *)
CHandler(m, stage, cancelled) ==
  IF cancelled THEN Failed("Cancelled")
  ELSE CASE stage = 1 -> Review(m) [] stage = 2 -> CTrigger(m)
         [] stage \notin {1, 2} -> Failed("InvalidRequest")
GoHandler(m, stage, cancelled) ==
  IF stage \notin {1, 2} THEN Failed("InvalidRequest")
  ELSE IF cancelled THEN Failed("Cancelled")
  ELSE IF stage = 1 THEN Review(m) ELSE GoTrigger(m)

-----------------------------------------------------------------------------
(* Calls.                                                                   *)

TypeOK ==
  /\ provider \in BOOLEAN
  /\ pc \in {"idle", "requested", "replied", "done"}
  /\ result \in {-1, 0, 1}
  /\ faults \in 0..MaxFaults
  /\ ask.stage \in {0, 1, 2} /\ msg.stage \in {0, ask.stage}
  /\ ask.stage = 1 => ask.count \in Ints /\ ask.interval \in Ints
  /\ ask.stage = 2 => Len(ask.content) <= ContentMax

Init ==
  /\ provider = FALSE
  /\ pc = "idle" /\ ask = None /\ msg = None /\ faults = 0 /\ result = 0

(* skill_trigger_register_match_provider, NULL to clear it.                 *)
Register ==
  /\ pc = "idle"
  /\ provider' = ~provider
  /\ UNCHANGED <<pc, ask, msg, faults, result>>

Ask(question, m, answer) ==
  /\ ask' = question /\ msg' = m
  /\ pc' = IF m = None THEN "done" ELSE "requested"
  /\ result' = answer

(* skill_trigger_matches up to the call of the provider: a skill that is    *)
(* missing or empty is a non-match, a request that cannot be made an error. *)
TriggerMatches(q) ==
  LET loaded == Load(q.content)
      able   == provider /\ Encodable(loaded, q.tool, q.subject)
  IN
  /\ pc = "idle"
  /\ Ask([stage |-> 2, content |-> loaded, tool |-> q.tool, subject |-> q.subject],
          IF loaded # <<>> /\ able THEN TriggerRequest(loaded, q.tool, q.subject) ELSE None,
          IF loaded = <<>> THEN 0 ELSE -1)
  /\ UNCHANGED <<provider, faults>>

(* The host asks whether a review is due.                                   *)
ReviewDue(count, interval) ==
  /\ pc = "idle"
  /\ Ask([stage |-> 1, count |-> count, interval |-> interval],
          ReviewRequest(count, interval), -1)
  /\ UNCHANGED <<provider, faults>>

Fault == faults < MaxFaults /\ faults' = faults + 1

Damage ==
  /\ pc \in {"requested", "replied"} /\ msg.stage # 0
  /\ Fault
  /\ msg' \in Damaged(msg)
  /\ UNCHANGED <<provider, pc, ask, result>>

(* No reply: the module is not there, refuses, or the deadline passes.      *)
Lose ==
  /\ pc = "requested"
  /\ Fault
  /\ pc' = "done" /\ msg' = None /\ result' = -1
  /\ UNCHANGED <<provider, ask>>

(* The supervised process is the Go handler.                                *)
Handle ==
  /\ pc = "requested"
  /\ msg' = GoHandler(msg, ask.stage, FALSE)
  /\ pc' = "replied"
  /\ UNCHANGED <<provider, ask, faults, result>>

HandleCancelled ==
  /\ pc = "requested"
  /\ Fault
  /\ msg' = GoHandler(msg, ask.stage, TRUE)
  /\ pc' = "replied"
  /\ UNCHANGED <<provider, ask, result>>

(* Mutant: any value is taken over.                                         *)
ReadableAnyValue(m) ==
  /\ m.stage # 0
  /\ IF m.stage = 1 THEN m.len = 8 /\ m.magic = "VIEW"
                    ELSE m.len = 12 /\ m.magic = "SKTR" /\ m.version = 1

(* A reply that is not OK has no body; aimee_skills_response_decode and     *)
(* aimee_skills_trigger_response_decode for the others.  A review response  *)
(* has no version.                                                          *)
Readable(m) ==
  /\ m.stage # 0
  /\ IF m.stage = 1 THEN m.len = 8 /\ m.magic = "VIEW"
                    ELSE m.len = 12 /\ m.magic = "SKTR" /\ m.version = 1
  /\ m.value <= 1

(* Mutant: a reply that cannot be read is no match.                         *)
ConcludedZero(m) == IF Readable(m) THEN m.value ELSE 0

Concluded(m) == IF Readable(m) THEN m.value ELSE -1

Conclude ==
  /\ pc = "replied"
  /\ result' = Concluded(msg)
  /\ pc' = "done" /\ msg' = None
  /\ UNCHANGED <<provider, ask, faults>>

Return ==
  /\ pc = "done"
  /\ pc' = "idle" /\ ask' = None /\ faults' = 0 /\ result' = 0
  /\ UNCHANGED <<provider, msg>>

Next ==
  \/ Register
  \/ \E q \in Questions : TriggerMatches(q)
  \/ \E count, interval \in Ints : ReviewDue(count, interval)
  \/ Damage \/ Lose \/ Handle \/ HandleCancelled \/ Conclude \/ Return

Spec == Init /\ [][Next]_vars

-----------------------------------------------------------------------------
(* Properties.                                                              *)

(* A definite answer of skill_trigger_matches is the right one, whatever    *)
(* happens to the messages: 1 only if the block of the loaded skill is met, *)
(* 0 only if it is not or there is no skill.  What a lost, damaged or       *)
(* refused message leads to is -1, never a silent non-match.                *)
DefiniteIsRight ==
  pc = "done" /\ ask.stage = 2 =>
    /\ result = 1 => TriggersOn(ask.content, ask.tool, ask.subject)
    /\ result = 0 => ask.content = <<>> \/ ~TriggersOn(ask.content, ask.tool, ask.subject)

(* Nothing the C side sends is refused by the Go side for its size: with a  *)
(* provider and no fault the answer is definite for every skill that loads, *)
(* however large, and every tool and subject within the limits.             *)
AnsweredWithinLimits ==
  pc = "done" /\ ask.stage = 2 /\ faults = 0 /\ provider
  /\ Len(ask.tool) \in 1..ToolMax /\ Len(ask.subject) <= SubjectMax => result # -1

(* The review nudge is due when the count is a positive multiple of a       *)
(* positive interval, for every pair of ints, negative ones included, after *)
(* their way through unsigned words; without a fault the host is told so.   *)
ReviewRight ==
  pc = "done" /\ ask.stage = 1 =>
    LET due == \E k \in Ints : k > 0 /\ ask.interval > 0 /\ ask.count = k * ask.interval
    IN  result = (IF faults > 0 /\ result = -1 THEN -1 ELSE IF due THEN 1 ELSE 0)

(* The C adapter is the wire and behaviour fixture of the Go handler: both  *)
(* give the same answer to every request, damaged or not, cancelled or not, *)
(* also when it comes to the wrong stage, for skills indented with ASCII    *)
(* space.  Only a cancelled request for an unknown stage gets two different *)
(* refusals, and the serving loop then replies Cancelled in either's place. *)
HandlersAgree ==
  pc = "requested" /\ (ask.stage = 2 => \A i \in DOMAIN ask.content : ~ask.content[i].wide) =>
    \A stage \in 1..3, cancelled \in BOOLEAN :
      ~(cancelled /\ stage = 3) =>
        CHandler(msg, stage, cancelled) = GoHandler(msg, stage, cancelled)
=============================================================================
