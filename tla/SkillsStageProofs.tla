-------------------------- MODULE SkillsStageProofs --------------------------
(***************************************************************************)
(* Theorems about SkillsStage, for skills, tools and subjects of any        *)
(* length, any limits and ints of any width.                                *)
(***************************************************************************)
EXTENDS SkillsStage, SequenceTheorems, Induction

-----------------------------------------------------------------------------
(* The header.                                                              *)

LEMMA HeaderLines ==
  ASSUME NEW c \in Seq(Lines), NEW h, h = Header(c)
  PROVE  /\ h \in Seq(Lines)
         /\ \A i \in 1..Len(h) : \E j \in 1..Len(c) : h[i] = c[j]
<1> DEFINE Closes(i) == c[i].key = "fence" /\ \A j \in 3..(i - 1) : c[j].key # "fence"
           end == CHOOSE i \in 3..Len(c) : Closes(i)
<1>1. h = IF Fenced(c) THEN SubSeq(c, 2, end - 1) ELSE <<>>
  BY DEF Header
<1>2. Len(c) \in Nat
  BY LenProperties
<1>3. CASE ~Fenced(c)
  BY <1>1, <1>3
<1>4. CASE Fenced(c)
  <2>1. PICK I : I = {i \in 3..Len(c) : c[i].key = "fence"}
    OBVIOUS
  <2>2. PICK m \in I : TRUE
    BY <1>4, <2>1 DEF Fenced
  <2>3. PICK k \in I : \A i \in I : k <= i
    BY <2>1, <2>2, LeastMember
  <2>4. k \in 3..Len(c) /\ Closes(k)
    BY <1>2, <2>1, <2>3
  <2> HIDE DEF Closes
  <2>5. end \in 3..Len(c)
    BY <2>4
  <2> HIDE DEF end
  <2>6. PICK e \in Int : e = end - 1
    BY <1>2, <2>5
  <2>7. h = SubSeq(c, 2, e) /\ 2 <= e /\ e < Len(c)
    BY <1>1, <1>2, <1>4, <2>5, <2>6
  <2>8. \A i \in 2..e : i \in 1..Len(c) /\ c[i] \in Lines
    BY <1>2, <2>7, LenProperties
  <2>9. /\ SubSeq(c, 2, e) \in Seq(Lines)
        /\ Len(SubSeq(c, 2, e)) = IF 2 <= e THEN e - 2 + 1 ELSE 0
        /\ \A i \in 1..(e - 2 + 1) : SubSeq(c, 2, e)[i] = c[2 + i - 1]
    BY <2>8, SubSeqProperties
  <2>10. Len(h) = e - 2 + 1 /\ \A i \in 1..Len(h) : h[i] = c[2 + i - 1] /\ 2 + i - 1 \in 1..Len(c)
    BY <1>2, <2>7, <2>9
  <2> QED
    BY <2>7, <2>9, <2>10
<1> QED
  BY <1>3, <1>4

-----------------------------------------------------------------------------
(* The loop over the header.                                                *)

States == [in : BOOLEAN, over : BOOLEAN, sawTool : BOOLEAN, tool : BOOLEAN,
           sawPattern : BOOLEAN, pattern : BOOLEAN]

(* What one line does, flag by flag.                                        *)
LEMMA ScanStep ==
  ASSUME NEW s \in States, NEW line, NEW key, NEW tool, NEW subject, NEW r,
         r = Scanned(s, line, key, tool, subject)
  PROVE  /\ r \in States
         /\ r.in <=> s.in \/ (~s.over /\ line.top /\ key = "triggers")
         /\ r.over <=> s.over \/ (s.in /\ line.top /\ key \notin {"triggers", "blank"})
         /\ r.sawTool <=> s.sawTool \/ (s.in /\ ~s.over /\ ~line.top /\ key = "tool")
         /\ r.tool <=> s.tool \/ (s.in /\ ~s.over /\ ~line.top /\ key = "tool" /\ HasToken(line, tool))
         /\ r.sawPattern <=> s.sawPattern \/ (s.in /\ ~s.over /\ ~line.top /\ key = "pattern")
         /\ r.pattern <=> s.pattern \/ (s.in /\ ~s.over /\ ~line.top /\ key = "pattern"
                                          /\ PatternsMatch(line, subject))
<1>1. /\ s.in \in BOOLEAN /\ s.over \in BOOLEAN /\ s.sawTool \in BOOLEAN /\ s.tool \in BOOLEAN
      /\ s.sawPattern \in BOOLEAN /\ s.pattern \in BOOLEAN
  BY DEF States
<1>2. CASE s.over \/ key = "blank"
  <2>1. r = s
    BY <1>2 DEF Scanned
  <2> QED
    BY <1>1, <1>2, <2>1
<1>3. CASE ~s.over /\ key # "blank" /\ line.top /\ key = "triggers"
  <2>1. r = [s EXCEPT !.in = TRUE]
    BY <1>3 DEF Scanned
  <2>2. /\ r \in States /\ r.in = TRUE /\ r.over = s.over /\ r.sawTool = s.sawTool /\ r.tool = s.tool
        /\ r.sawPattern = s.sawPattern /\ r.pattern = s.pattern
    BY <2>1 DEF States
  <2> QED
    BY <1>1, <1>3, <2>2
<1>4. CASE ~s.over /\ key # "blank" /\ line.top /\ key # "triggers"
  <2>1. r = [s EXCEPT !.over = s.in]
    BY <1>4 DEF Scanned
  <2>2. /\ r \in States /\ r.in = s.in /\ r.over = s.in /\ r.sawTool = s.sawTool /\ r.tool = s.tool
        /\ r.sawPattern = s.sawPattern /\ r.pattern = s.pattern
    BY <2>1 DEF States
  <2> QED
    BY <1>1, <1>4, <2>2
<1>5. CASE ~s.over /\ key # "blank" /\ ~line.top
  <2>1. PICK a \in BOOLEAN, b \in BOOLEAN, x \in BOOLEAN, y \in BOOLEAN :
          /\ a = (s.sawTool \/ (s.in /\ key = "tool"))
          /\ b = (s.tool \/ ((s.in /\ key = "tool") /\ HasToken(line, tool)))
          /\ x = (s.sawPattern \/ (s.in /\ key = "pattern"))
          /\ y = (s.pattern \/ ((s.in /\ key = "pattern") /\ PatternsMatch(line, subject)))
    BY <1>1
  <2>2. r = [s EXCEPT !.sawTool = a, !.tool = b, !.sawPattern = x, !.pattern = y]
    BY <1>5, <2>1 DEF Scanned, Noted
  <2>3. /\ r \in States /\ r.in = s.in /\ r.over = s.over /\ r.sawTool = a /\ r.tool = b
        /\ r.sawPattern = x /\ r.pattern = y
    BY <2>2 DEF States
  <2> QED
    BY <1>1, <1>5, <2>1, <2>3
<1> QED
  BY <1>1, <1>2, <1>3, <1>4, <1>5

(* The loop is a run of Scanned over the lines.                             *)
LEMMA ScanRuns ==
  ASSUME NEW h \in Seq(Lines), NEW keys, NEW tool, NEW subject
  PROVE  \E after \in [0..Len(h) -> States] :
           /\ after[0] = Fresh
           /\ \A i \in 1..Len(h) : after[i] = Scanned(after[i - 1], h[i], keys[i], tool, subject)
           /\ Scan(h, keys, tool, subject) = after[Len(h)]
<1> DEFINE n == Len(h)
           Def(g) == [i \in 0..n |-> IF i = 0 THEN Fresh
                                     ELSE Scanned(g[i - 1], h[i], keys[i], tool, subject)]
           Go == [p \in (1..n) \X States |-> Scanned(p[2], h[p[1]], keys[p[1]], tool, subject)]
           after == CHOOSE g : g = Def(g)
<1>0. n \in Nat
  BY LenProperties
<1>1. Scan(h, keys, tool, subject) = after[n]
  BY DEF Scan
<1>2. Fresh \in States
  BY DEF Fresh, States
<1>3. IsLoop(Go, n, States)
  BY <1>0, ScanStep DEF IsLoop
<1>4. PICK f : /\ f \in [0..n -> States] /\ f[0] = Fresh
               /\ \A i \in 1..n : f[i] = Go[<<i, f[i - 1]>>]
  <2> HIDE DEF n, Go
  <2>1. PICK f : IsRun(f, Go, n, States, Fresh)
    BY <1>0, <1>2, <1>3, LoopRuns
  <2> QED
    BY <2>1 DEF IsRun
<1>5. \A i \in 1..n : f[i] = Scanned(f[i - 1], h[i], keys[i], tool, subject)
  <2> SUFFICES ASSUME NEW i \in 1..n PROVE f[i] = Scanned(f[i - 1], h[i], keys[i], tool, subject)
    OBVIOUS
  <2>1. f[i - 1] \in States
    BY <1>0, <1>4
  <2> QED
    BY <1>4, <2>1
<1>6. f = Def(f)
  BY <1>0, <1>4, <1>5
<1>7. after = Def(after)
  <2> HIDE DEF Def
  <2> QED
    BY <1>6
<1> HIDE DEF after
<1>8. after[0] = Fresh /\ \A i \in 1..n : after[i] = Scanned(after[i - 1], h[i], keys[i], tool, subject)
  BY <1>0, <1>7
<1>9. DOMAIN after = 0..n /\ after = [i \in 0..n |-> after[i]]
  BY <1>7
<1>10. 0..n \subseteq {i \in 0..n : after[i] \in States}
  <2> DEFINE S == {i \in 0..n : after[i] \in States}
  <2>1. 0 \in S
    BY <1>0, <1>2, <1>8
  <2>2. ASSUME NEW i \in 0..(n - 1), i \in S PROVE i + 1 \in S
    <3>1. i + 1 \in 1..n /\ i + 1 \in 0..n /\ (i + 1) - 1 = i
      BY <1>0
    <3>2. after[i + 1] = Scanned(after[i], h[i + 1], keys[i + 1], tool, subject)
      BY <1>8, <3>1
    <3> QED
      BY <1>0, <2>2, <3>1, <3>2, ScanStep
  <2> HIDE DEF S, n
  <2>3. 0..n \subseteq S
    BY <1>0, <2>1, <2>2, UpTo
  <2> QED
    BY <2>3 DEF S
<1>11. after \in [0..n -> States]
  BY <1>9, <1>10
<1> QED
  BY <1>1, <1>8, <1>11

(* Where the block is: a line opens it, and the next one of the top level   *)
(* that is not blank ends it.                                               *)
Starts(h) == {i \in 1..Len(h) : h[i].top /\ h[i].key = "triggers"}
Ends(h)   == {i \in 1..Len(h) : h[i].top /\ h[i].key \notin {"triggers", "blank"}}
Started(h, i) == \E m \in Starts(h) : m <= i
Ended(h, i)   == \E e \in Ends(h) : e <= i /\ Started(h, e)
Open(h, j)    == ~h[j].top /\ Started(h, j) /\ ~Ended(h, j)

(* What the loop has found after i lines.                                   *)
Found(h, s, i, tool, subject) ==
  /\ s.in <=> Started(h, i)
  /\ s.over <=> Ended(h, i)
  /\ s.sawTool <=> \E j \in 1..i : Open(h, j) /\ h[j].key = "tool"
  /\ s.tool <=> \E j \in 1..i : Open(h, j) /\ h[j].key = "tool" /\ HasToken(h[j], tool)
  /\ s.sawPattern <=> \E j \in 1..i : Open(h, j) /\ h[j].key = "pattern"
  /\ s.pattern <=> \E j \in 1..i : Open(h, j) /\ h[j].key = "pattern" /\ PatternsMatch(h[j], subject)

LEMMA FoundStep ==
  ASSUME NEW h \in Seq(Lines), NEW i \in 0..(Len(h) - 1), NEW tool, NEW subject,
         NEW s \in States, Found(h, s, i, tool, subject),
         NEW r, r = Scanned(s, h[i + 1], h[i + 1].key, tool, subject)
  PROVE  Found(h, r, i + 1, tool, subject)
<1> DEFINE l == h[i + 1]
           k == i + 1
<1>0. Len(h) \in Nat /\ i \in Nat /\ k \in 1..Len(h)
  BY LenProperties
<1>1. Started(h, k) <=> Started(h, i) \/ (l.top /\ l.key = "triggers")
  BY <1>0 DEF Started, Starts
<1>2. Started(h, k) /\ ~(l.top /\ l.key = "triggers") => Started(h, i)
  BY <1>1
<1>3. Ended(h, k) <=> Ended(h, i) \/ (Started(h, i) /\ l.top /\ l.key \notin {"triggers", "blank"})
  <2>1. k \in Ends(h) <=> l.top /\ l.key \notin {"triggers", "blank"}
    BY <1>0 DEF Ends
  <2>2. \A e \in Ends(h) : e \in 1..Len(h)
    BY DEF Ends
  <2>3. Ended(h, k) <=> Ended(h, i) \/ (k \in Ends(h) /\ Started(h, k))
    <3> HIDE DEF l
    <3> QED
      BY <1>0, <2>2 DEF Ended
  <2>4. k \in Ends(h) => (Started(h, k) <=> Started(h, i))
    BY <1>1, <2>1
  <2> HIDE DEF k, l
  <2> QED
    BY <2>1, <2>3, <2>4
<1>4. Ended(h, i) => Started(h, i)
  BY <1>0 DEF Ended, Started, Ends, Starts
<1>5. Open(h, k) <=> Started(h, i) /\ ~Ended(h, i) /\ ~l.top
  BY <1>1, <1>3 DEF Open
<1>6. \A j : j \in 1..k <=> j \in 1..i \/ j = k
  BY <1>0
<1>7. /\ r.in <=> s.in \/ (~s.over /\ l.top /\ l.key = "triggers")
      /\ r.over <=> s.over \/ (s.in /\ l.top /\ l.key \notin {"triggers", "blank"})
      /\ r.sawTool <=> s.sawTool \/ (s.in /\ ~s.over /\ ~l.top /\ l.key = "tool")
      /\ r.tool <=> s.tool \/ (s.in /\ ~s.over /\ ~l.top /\ l.key = "tool" /\ HasToken(l, tool))
      /\ r.sawPattern <=> s.sawPattern \/ (s.in /\ ~s.over /\ ~l.top /\ l.key = "pattern")
      /\ r.pattern <=> s.pattern \/ (s.in /\ ~s.over /\ ~l.top /\ l.key = "pattern"
                                       /\ PatternsMatch(l, subject))
  BY ScanStep
<1>8. (s.in <=> Started(h, i)) /\ (s.over <=> Ended(h, i))
  BY DEF Found
<1>9. h[k] = l
  OBVIOUS
<1> HIDE DEF l, k
<1>10. (r.in <=> Started(h, k)) /\ (r.over <=> Ended(h, k))
  BY <1>1, <1>3, <1>4, <1>7, <1>8
<1>11. r.sawTool <=> \E j \in 1..k : Open(h, j) /\ h[j].key = "tool"
  BY <1>5, <1>6, <1>7, <1>8, <1>9 DEF Found
<1>12. r.tool <=> \E j \in 1..k : Open(h, j) /\ h[j].key = "tool" /\ HasToken(h[j], tool)
  BY <1>5, <1>6, <1>7, <1>8, <1>9 DEF Found
<1>13. r.sawPattern <=> \E j \in 1..k : Open(h, j) /\ h[j].key = "pattern"
  BY <1>5, <1>6, <1>7, <1>8, <1>9 DEF Found
<1>14. r.pattern <=> \E j \in 1..k : Open(h, j) /\ h[j].key = "pattern" /\ PatternsMatch(h[j], subject)
  BY <1>5, <1>6, <1>7, <1>8, <1>9 DEF Found
<1>15. Found(h, r, k, tool, subject)
  BY <1>10, <1>11, <1>12, <1>13, <1>14 DEF Found
<1> QED
  BY <1>15 DEF k


(* After all lines.                                                         *)
LEMMA ScanFound ==
  ASSUME NEW h \in Seq(Lines), NEW tool, NEW subject, NEW s,
         s = Scan(h, [i \in DOMAIN h |-> GoKey(h[i])], tool, subject)
  PROVE  s \in States /\ Found(h, s, Len(h), tool, subject)
<1>1. PICK keys : keys = [i \in DOMAIN h |-> GoKey(h[i])]
  OBVIOUS
<1>2. PICK after \in [0..Len(h) -> States] :
        /\ after[0] = Fresh
        /\ \A i \in 1..Len(h) : after[i] = Scanned(after[i - 1], h[i], keys[i], tool, subject)
        /\ Scan(h, keys, tool, subject) = after[Len(h)]
  BY ScanRuns
<1>3. PICK n \in Nat : n = Len(h)
  BY LenProperties
<1>4. DOMAIN h = 1..n /\ \A i \in 1..n : keys[i] = h[i].key
  BY <1>1, <1>3, LenProperties DEF GoKey
<1> DEFINE S == {i \in 0..n : Found(h, after[i], i, tool, subject)}
<1>5. 0 \in S
  <2>1. ~Started(h, 0) /\ ~Ended(h, 0)
    BY <1>3 DEF Started, Ended, Starts, Ends
  <2>2. after[0] = Fresh /\ \A j \in 1..0 : FALSE
    BY <1>2
  <2>3. Found(h, Fresh, 0, tool, subject)
    BY <2>1, <2>2 DEF Found, Fresh
  <2> QED
    BY <1>3, <2>2, <2>3
<1>6. ASSUME NEW i \in 0..(n - 1), i \in S PROVE i + 1 \in S
  <2>1. i + 1 \in 1..n /\ i + 1 \in 0..n /\ (i + 1) - 1 = i /\ i \in 0..n
    BY <1>3
  <2>2. after[i] \in States /\ after[i + 1] = Scanned(after[i], h[i + 1], h[i + 1].key, tool, subject)
    BY <1>2, <1>3, <1>4, <2>1
  <2>3. Found(h, after[i], i, tool, subject)
    BY <1>6
  <2>4. Found(h, after[i + 1], i + 1, tool, subject)
    BY <1>3, <2>2, <2>3, FoundStep
  <2> QED
    BY <2>1, <2>4
<1>7. n \in S
  <2> HIDE DEF S
  <2>1. 0..n \subseteq S
    BY <1>3, <1>5, <1>6, UpTo
  <2> QED
    BY <1>3, <2>1
<1>8. s = after[n] /\ after[n] \in States
  BY <1>1, <1>2, <1>3
<1> QED
  BY <1>3, <1>7, <1>8

(* The block as TriggersOn finds it.                                        *)
LEMMA BlockLines ==
  ASSUME NEW c \in Seq(Lines), NEW h, h = Header(c)
  PROVE  Block(c) = {h[j] : j \in {i \in 1..Len(h) : Open(h, i)}}
<1>0. h \in Seq(Lines) /\ Len(h) \in Nat /\ DOMAIN h = 1..Len(h)
  BY HeaderLines, LenProperties
<1> DEFINE starts == Starts(h)
           ends == Ends(h)
           Within(j) == ~h[j].top /\ \E s \in starts : s < j /\ \A e \in ends : e < Min(starts) \/ e > j
<1>1. Block(c) = {h[i] : i \in {j \in 1..Len(h) : Within(j)}}
  BY <1>0 DEF Block, Starts, Ends
<1>2. ASSUME NEW j \in 1..Len(h) PROVE Within(j) <=> Open(h, j)
  <2>1. starts \in SUBSET Nat /\ \A s \in starts : s \in 1..Len(h) /\ h[s].top /\ h[s].key = "triggers"
    BY <1>0 DEF Starts
  <2>2. \A e \in ends : e \in 1..Len(h) /\ h[e].top /\ h[e].key # "triggers"
    BY DEF Ends
  <2> HIDE DEF starts, ends
  <2>3. CASE starts = {}
    BY <2>3 DEF Open, Started, starts
  <2>4. CASE starts # {}
    <3>1. PICK m \in starts : \A i \in starts : m <= i
      BY <2>1, <2>4, LeastMember
    <3>2. Min(starts) = m
      <4>1. Min(starts) \in starts /\ \A i \in starts : Min(starts) <= i
        BY <3>1 DEF Min
      <4>2. Min(starts) <= m /\ m <= Min(starts) /\ m \in Nat /\ Min(starts) \in Nat
        BY <2>1, <3>1, <4>1
      <4> QED
        BY <4>2
    <3>3. \A i \in 1..Len(h) : Started(h, i) <=> m <= i
      BY <1>0, <2>1, <3>1 DEF Started, starts
    <3>4. ~h[j].top => (Started(h, j) <=> \E s \in starts : s < j)
      <4> SUFFICES ASSUME ~h[j].top PROVE Started(h, j) <=> \E s \in starts : s < j
        OBVIOUS
      <4>1. \A s \in starts : s # j
        BY <2>1
      <4> QED
        BY <1>0, <2>1, <4>1 DEF Started, starts
    <3>5. (\A e \in ends : e < m \/ e > j) <=> ~Ended(h, j)
      <4>1. \A e \in ends : Started(h, e) <=> m <= e
        BY <2>2, <3>3
      <4>2. Ended(h, j) <=> \E e \in ends : e <= j /\ Started(h, e)
        BY DEF Ended, ends
      <4>3. \A e \in ends : e \in Nat /\ m \in Nat /\ j \in Nat
        BY <1>0, <2>1, <2>2
      <4>4. Ended(h, j) <=> \E e \in ends : e <= j /\ m <= e
        BY <4>1, <4>2
      <4>5. \A e \in ends : (e < m \/ e > j) <=> ~(e <= j /\ m <= e)
        BY <4>3
      <4> QED
        BY <4>4, <4>5
    <3>6. Within(j) <=> ~h[j].top /\ (\E s \in starts : s < j) /\ (\A e \in ends : e < m \/ e > j)
      BY <3>2
    <3> HIDE DEF Within
    <3> QED
      BY <3>4, <3>5, <3>6 DEF Open
  <2> QED
    BY <2>3, <2>4
<1> HIDE DEF Within
<1> QED
  BY <1>1, <1>2

(* The Go handler decides as TriggersOn says.                               *)
LEMMA GoIsRight ==
  ASSUME NEW c \in Seq(Lines), NEW tool, NEW subject
  PROVE  GoMatches(c, tool, subject) <=> TriggersOn(c, tool, subject)
<1>1. PICK h : h = Header(c)
  OBVIOUS
<1>0. h \in Seq(Lines) /\ Len(h) \in Nat /\ DOMAIN h = 1..Len(h)
  BY <1>1, HeaderLines, LenProperties
<1>2. PICK s : s = Scan(h, [i \in DOMAIN h |-> GoKey(h[i])], tool, subject)
  OBVIOUS
<1>3. s \in States /\ Found(h, s, Len(h), tool, subject)
  BY <1>0, <1>2, ScanFound
<1>4. GoMatches(c, tool, subject) <=> Verdict(s)
  BY <1>1, <1>2 DEF GoMatches
<1>5. Block(c) = {h[j] : j \in {i \in 1..Len(h) : Open(h, i)}}
  BY <1>1, BlockLines
<1> DEFINE B == Block(c)
           tools == {l \in B : l.key = "tool"}
           patterns == {l \in B : l.key = "pattern"}
<1>6. TriggersOn(c, tool, subject) <=>
        /\ \E i \in 1..Len(h) : h[i].top /\ h[i].key = "triggers"
        /\ tools # {} => \E l \in tools : HasToken(l, tool)
        /\ patterns # {} => \E l \in patterns : PatternsMatch(l, subject)
  BY <1>0, <1>1 DEF TriggersOn
<1>7. s.in <=> \E i \in 1..Len(h) : h[i].top /\ h[i].key = "triggers"
  BY <1>0, <1>3 DEF Found, Started, Starts
<1>8. /\ (s.sawTool <=> tools # {})
      /\ (s.tool <=> \E l \in tools : HasToken(l, tool))
  BY <1>3, <1>5 DEF Found
<1>9. /\ (s.sawPattern <=> patterns # {})
      /\ (s.pattern <=> \E l \in patterns : PatternsMatch(l, subject))
  BY <1>3, <1>5 DEF Found
<1> HIDE DEF tools, patterns
<1> QED
  BY <1>4, <1>6, <1>7, <1>8, <1>9 DEF Verdict

(* The C twin decides like the Go handler when no line is wide.             *)
LEMMA TwinsAgree ==
  ASSUME NEW c \in Seq(Lines), NEW tool, NEW subject, \A i \in DOMAIN c : ~c[i].wide
  PROVE  CMatches(c, tool, subject) = GoMatches(c, tool, subject)
<1>1. PICK h : h = Header(c)
  OBVIOUS
<1>2. DOMAIN h = 1..Len(h) /\ DOMAIN c = 1..Len(c)
  BY <1>1, HeaderLines, LenProperties
<1>3. \A i \in DOMAIN h : CKey(h[i]) = GoKey(h[i])
  BY <1>1, <1>2, HeaderLines DEF CKey, GoKey
<1>4. [i \in DOMAIN h |-> CKey(h[i])] = [i \in DOMAIN h |-> GoKey(h[i])]
  BY <1>3
<1> QED
  BY <1>1, <1>4 DEF CMatches, GoMatches


-----------------------------------------------------------------------------
(* Words and remainders.                                                    *)

LEMMA Divides ==
  ASSUME NEW v \in Int, NEW M \in Nat \ {0}
  PROVE  /\ v % M \in 0..(M - 1) /\ v \div M \in Int
         /\ v = M * (v \div M) + (v % M)
  OBVIOUS

(* A quotient and a remainder in range are the quotient and the remainder.  *)
LEMMA Remainder ==
  ASSUME NEW v \in Int, NEW M \in Nat \ {0}, NEW q \in Int, NEW r \in 0..(M - 1), v = M * q + r
  PROVE  v % M = r
<1>1. PICK x \in Int, y \in 0..(M - 1) : x = v \div M /\ y = v % M
  BY Divides
<1>2. M * x + y = M * q + r
  BY <1>1, Divides
<1>3. M * (x - q) = r - y
  BY <1>2
<1>4. PICK d \in Int : d = x - q
  OBVIOUS
<1>5. M * d = r - y /\ r - y < M /\ r - y > -M
  BY <1>3, <1>4
<1>6. CASE d >= 1
  <2>1. M * d >= M
    BY <1>6
  <2> QED
    BY <1>5, <2>1
<1>7. CASE d <= -1
  <2>1. M * d <= -M
    BY <1>7
  <2> QED
    BY <1>5, <2>1
<1>8. CASE d = 0
  BY <1>1, <1>5, <1>8
<1> QED
  BY <1>6, <1>7, <1>8

(* Every int comes back from the unsigned word it is sent as.               *)
LEMMA WordsSurvive ==
  ASSUME NEW v \in Ints
  PROVE  S32(U32(v)) = v
<1>1. PICK P \in Nat \ {0} : P = 2 ^ (Width - 1)
  BY WidthAssumption
<1>2. 2 ^ Width = 2 * P
  BY <1>1, WidthAssumption
<1>3. v \in Int /\ -P <= v /\ v <= P - 1
  BY <1>1 DEF Ints
<1>4. PICK M \in Nat \ {0} : M = 2 * P
  OBVIOUS
<1>5. CASE v >= 0
  <2>1. v = M * 0 + v /\ v \in 0..(M - 1)
    BY <1>3, <1>4, <1>5
  <2>2. v % M = v
    BY <1>3, <2>1, Remainder
  <2> QED
    BY <1>1, <1>2, <1>3, <1>4, <2>2 DEF S32, U32
<1>6. CASE v < 0
  <2>1. v = M * (-1) + (v + M) /\ v + M \in 0..(M - 1)
    BY <1>3, <1>4, <1>6
  <2>2. v % M = v + M
    BY <1>3, <2>1, Remainder
  <2> QED
    BY <1>1, <1>2, <1>3, <1>4, <2>2 DEF S32, U32
<1> QED
  BY <1>3, <1>5, <1>6

(* A count is due exactly when it is a positive multiple of the interval.   *)
LEMMA DueIsMultiple ==
  ASSUME NEW count \in Ints, NEW interval \in Ints
  PROVE  Due(count, interval) <=>
           \E k \in Ints : k > 0 /\ interval > 0 /\ count = k * interval
<1>1. PICK P \in Nat \ {0} : P = 2 ^ (Width - 1)
  BY WidthAssumption
<1>2. Ints = (-P)..(P - 1)
  BY <1>1 DEF Ints
<1>3. ASSUME Due(count, interval)
      PROVE  \E k \in Ints : k > 0 /\ interval > 0 /\ count = k * interval
  <2>1. interval > 0 /\ count > 0 /\ count % interval = 0 /\ interval \in Nat \ {0} /\ count \in Int
    BY <1>2, <1>3 DEF Due
  <2>2. PICK k \in Int : k = count \div interval
    BY <2>1, Divides
  <2>3. count = interval * k
    BY <2>1, <2>2, Divides
  <2>4. k > 0
    <3>1. CASE k <= 0
      <4>1. interval * k <= 0
        BY <2>1, <3>1
      <4> QED
        BY <2>1, <2>3, <4>1
    <3> QED
      BY <3>1
  <2>5. k <= count
    <3>1. interval * k >= k
      BY <2>1, <2>4
    <3> QED
      BY <2>3, <3>1
  <2>6. k \in Ints
    BY <1>2, <2>4, <2>5
  <2>7. count = k * interval
    BY <2>1, <2>3
  <2> QED
    BY <2>1, <2>4, <2>6, <2>7
<1>4. ASSUME NEW k \in Ints, k > 0, interval > 0, count = k * interval
      PROVE  Due(count, interval)
  <2>1. interval \in Nat \ {0} /\ k \in Int /\ count \in Int
    BY <1>2, <1>4
  <2>2. count = interval * k + 0 /\ 0 \in 0..(interval - 1)
    BY <1>4, <2>1
  <2>3. count % interval = 0
    BY <2>1, <2>2, Remainder
  <2>4. count > 0
    <3>1. k * interval >= interval
      BY <1>4, <2>1
    <3> QED
      BY <1>4, <2>1, <3>1
  <2> QED
    BY <1>4, <2>3, <2>4 DEF Due
<1> QED
  BY <1>3, <1>4


-----------------------------------------------------------------------------
(* What is under way during a call about a, of which f messages went wrong. *)

Skills == Seq(Lines)
Texts  == Seq(Vocabulary)
Values == {0, 1, 2}

TriggerAsks == [stage : {2}, content : Skills, tool : Texts, subject : Texts]
ReviewAsks  == [stage : {1}, count : Ints, interval : Ints]

TriggerMsgs == [stage : {2}, magic : {"SKTQ", "none"}, version : Int, nul : BOOLEAN, len : Int,
                clen : Nat, tlen : Nat, slen : Nat,
                content : Skills, tool : Texts, subject : Texts]
ReviewMsgs == [stage : {1}, magic : {"STCX", "none"}, version : Int, len : Int, nul : BOOLEAN,
               count : Int, interval : Int]
Replies == [stage : {1, 2}, status : {"OK"}, magic : {"VIEW", "SKTR", "none"}, version : Int,
            len : Int, value : Values]

IsTrigger(a) == a \in TriggerAsks /\ Len(a.content) <= ContentMax
IsReview(a)  == a \in ReviewAsks

AsksTrigger(m, a) ==
  m \in TriggerMsgs /\ m.content = a.content /\ m.tool = a.tool /\ m.subject = a.subject
AsksReview(m, a) == m \in ReviewMsgs /\ m.count = U32(a.count) /\ m.interval = U32(a.interval)

(* Damage never touches what a request is about, so a request is refused or *)
(* it is answered as the one that was sent.                                 *)
IsRequest(m, a, f) ==
  \/ IsTrigger(a) /\ AsksTrigger(m, a) /\ (f = 0 => GoDecodes(m))
  \/ IsReview(a) /\ AsksReview(m, a) /\ (f = 0 => ReviewValid(m))

RightTrigger(a, v) == /\ v = 1 => TriggersOn(a.content, a.tool, a.subject)
                      /\ v = 0 => ~TriggersOn(a.content, a.tool, a.subject)
RightReview(a, v)  == (v = 1 => Due(a.count, a.interval)) /\ (v = 0 => ~Due(a.count, a.interval))
Right(a, v) == (a.stage = 2 => RightTrigger(a, v)) /\ (a.stage = 1 => RightReview(a, v))

IsReply(m, a, f) ==
  /\ IsTrigger(a) \/ IsReview(a)
  /\ \/ m.stage = 0 /\ f > 0
     \/ m \in Replies /\ m.stage = a.stage /\ Right(a, m.value) /\ (f = 0 => Readable(m))

IsResult(r, a, f, able) ==
  /\ \/ /\ IsTrigger(a)
        /\ (a.content = <<>> /\ r = 0) \/ RightTrigger(a, r)
        /\ able /\ f = 0 /\ Len(a.tool) \in 1..ToolMax /\ Len(a.subject) <= SubjectMax => r # -1
     \/ IsReview(a) /\ RightReview(a, r) /\ (r = -1 => f > 0)

(* The inductive invariant.                                                 *)
SessionInv ==
  /\ provider \in BOOLEAN /\ faults \in 0..MaxFaults /\ result \in {-1, 0, 1}
  /\ \/ pc = "idle" /\ ask = None /\ msg = None /\ faults = 0
     \/ pc = "requested" /\ IsRequest(msg, ask, faults)
     \/ pc = "replied" /\ IsReply(msg, ask, faults)
     \/ pc = "done" /\ msg = None /\ IsResult(result, ask, faults, provider)

LEMMA AskStages ==
  ASSUME NEW a
  PROVE  (IsTrigger(a) => a.stage = 2) /\ (IsReview(a) => a.stage = 1)
  BY DEF IsTrigger, IsReview, TriggerAsks, ReviewAsks

LEMMA RequestStages ==
  ASSUME NEW m, NEW a, NEW f, IsRequest(m, a, f)
  PROVE  /\ m.stage = a.stage /\ a.stage \in {1, 2}
         /\ (IsTrigger(a) \/ IsReview(a))
         /\ a.stage = 2 => IsTrigger(a) /\ AsksTrigger(m, a) /\ (f = 0 => GoDecodes(m))
         /\ a.stage = 1 => IsReview(a) /\ AsksReview(m, a) /\ (f = 0 => ReviewValid(m))
<1>1. AsksTrigger(m, a) => m.stage = 2
  BY DEF AsksTrigger, TriggerMsgs
<1>2. AsksReview(m, a) => m.stage = 1
  BY DEF AsksReview, ReviewMsgs
<1> QED
  BY <1>1, <1>2, AskStages DEF IsRequest

(* A request that went wrong is still about the same.                       *)
LEMMA DamagedRequest ==
  ASSUME NEW m, NEW a, NEW f \in Nat, IsRequest(m, a, f), NEW d \in Damaged(m)
  PROVE  IsRequest(d, a, f + 1)
<1>0. f + 1 # 0
  OBVIOUS
<1>1. CASE a.stage = 2
  <2>1. IsTrigger(a) /\ AsksTrigger(m, a)
    BY <1>1, RequestStages
  <2>2. m \in TriggerMsgs /\ "nul" \in DOMAIN m /\ m.len \in Int
    BY <2>1 DEF AsksTrigger, TriggerMsgs
  <2>3. \/ d = [m EXCEPT !.magic = "none"] \/ d = [m EXCEPT !.version = 2]
        \/ d = [m EXCEPT !.len = m.len - 1] \/ d = [m EXCEPT !.len = m.len + 1]
        \/ d = [m EXCEPT !.nul = TRUE]
    BY <2>2 DEF Damaged
  <2>4. d \in TriggerMsgs /\ d.content = m.content /\ d.tool = m.tool /\ d.subject = m.subject
    <3>1. CASE d = [m EXCEPT !.magic = "none"]
      BY <2>2, <3>1 DEF TriggerMsgs
    <3>2. CASE d = [m EXCEPT !.version = 2]
      BY <2>2, <3>2 DEF TriggerMsgs
    <3>3. CASE d = [m EXCEPT !.len = m.len - 1]
      BY <2>2, <3>3 DEF TriggerMsgs
    <3>4. CASE d = [m EXCEPT !.len = m.len + 1]
      BY <2>2, <3>4 DEF TriggerMsgs
    <3>5. CASE d = [m EXCEPT !.nul = TRUE]
      BY <2>2, <3>5 DEF TriggerMsgs
    <3> QED
      BY <2>3, <3>1, <3>2, <3>3, <3>4, <3>5
  <2> QED
    BY <1>0, <2>1, <2>4 DEF AsksTrigger, IsRequest
<1>2. CASE a.stage = 1
  <2>1. IsReview(a) /\ AsksReview(m, a)
    BY <1>2, RequestStages
  <2>2. m \in ReviewMsgs /\ "nul" \in DOMAIN m /\ m.len \in Int
    BY <2>1 DEF AsksReview, ReviewMsgs
  <2>3. \/ d = [m EXCEPT !.magic = "none"] \/ d = [m EXCEPT !.version = 2]
        \/ d = [m EXCEPT !.len = m.len - 1] \/ d = [m EXCEPT !.len = m.len + 1]
        \/ d = [m EXCEPT !.nul = TRUE]
    BY <2>2 DEF Damaged
  <2>4. d \in ReviewMsgs /\ d.count = m.count /\ d.interval = m.interval
    <3>1. CASE d = [m EXCEPT !.magic = "none"]
      BY <2>2, <3>1 DEF ReviewMsgs
    <3>2. CASE d = [m EXCEPT !.version = 2]
      BY <2>2, <3>2 DEF ReviewMsgs
    <3>3. CASE d = [m EXCEPT !.len = m.len - 1]
      BY <2>2, <3>3 DEF ReviewMsgs
    <3>4. CASE d = [m EXCEPT !.len = m.len + 1]
      BY <2>2, <3>4 DEF ReviewMsgs
    <3>5. CASE d = [m EXCEPT !.nul = TRUE]
      BY <2>2, <3>5 DEF ReviewMsgs
    <3> QED
      BY <2>3, <3>1, <3>2, <3>3, <3>4, <3>5
  <2> QED
    BY <1>0, <2>1, <2>4 DEF AsksReview, IsRequest
<1> QED
  BY <1>1, <1>2, RequestStages

(* A reply that went wrong says the same or cannot be read.                 *)
LEMMA DamagedReply ==
  ASSUME NEW m, NEW a, NEW f \in Nat, IsReply(m, a, f), m.stage # 0, NEW d \in Damaged(m)
  PROVE  IsReply(d, a, f + 1)
<1>0. f + 1 # 0
  OBVIOUS
<1>1. m \in Replies /\ m.stage = a.stage /\ Right(a, m.value) /\ (IsTrigger(a) \/ IsReview(a))
  BY DEF IsReply
<1>2. "nul" \notin DOMAIN m /\ m.len \in Int
  BY <1>1 DEF Replies
<1>3. \/ d = [m EXCEPT !.magic = "none"] \/ d = [m EXCEPT !.version = 2]
      \/ d = [m EXCEPT !.len = m.len - 1] \/ d = [m EXCEPT !.len = m.len + 1]
      \/ d = [m EXCEPT !.value = 2]
  BY <1>2 DEF Damaged
<1>4. d \in Replies /\ d.stage = m.stage /\ (d.value = m.value \/ d.value = 2)
  <2>1. CASE d = [m EXCEPT !.magic = "none"]
    BY <1>1, <1>2, <2>1 DEF Replies
  <2>2. CASE d = [m EXCEPT !.version = 2]
    BY <1>1, <1>2, <2>2 DEF Replies
  <2>3. CASE d = [m EXCEPT !.len = m.len - 1]
    BY <1>1, <1>2, <2>3 DEF Replies
  <2>4. CASE d = [m EXCEPT !.len = m.len + 1]
    BY <1>1, <1>2, <2>4 DEF Replies
  <2>5. CASE d = [m EXCEPT !.value = 2]
    <3>1. 2 \in Values
      BY DEF Values
    <3> QED
      BY <1>1, <2>5, <3>1 DEF Replies
  <2> QED
    BY <1>3, <2>1, <2>2, <2>3, <2>4, <2>5
<1>5. Right(a, d.value)
  BY <1>1, <1>4 DEF Right, RightTrigger, RightReview
<1> QED
  BY <1>0, <1>1, <1>4, <1>5 DEF IsReply

LEMMA RefusalStage ==
  ASSUME NEW status
  PROVE  Failed(status).stage = 0
  BY DEF Failed

(* A response as a handler makes it.                                        *)
LEMMA WholeReply ==
  ASSUME NEW w, NEW r, r = TriggerResponse(w) \/ r = ReviewResponse(w)
  PROVE  /\ r \in Replies /\ Readable(r)
         /\ r = TriggerResponse(w) => r.stage = 2
         /\ r = ReviewResponse(w) => r.stage = 1
         /\ w => r.value = 1
         /\ ~w => r.value = 0
<1>1. PICK v \in Values : (w => v = 1) /\ (~w => v = 0) /\ v <= 1 /\ v = (IF w THEN 1 ELSE 0)
  BY DEF Values
<1>2. CASE r = TriggerResponse(w)
  <2>1. r = [stage |-> 2, status |-> "OK", magic |-> "SKTR", version |-> 1, len |-> 12, value |-> v]
    BY <1>1, <1>2 DEF TriggerResponse
  <2>2. r.stage = 2 /\ r.value = v /\ r \in Replies
    BY <2>1 DEF Replies
  <2>3. r.len = 12 /\ r.magic = "SKTR" /\ r.version = 1
    BY <2>1
  <2>4. r # ReviewResponse(w)
    BY <2>2 DEF ReviewResponse
  <2> QED
    BY <1>1, <2>2, <2>3, <2>4 DEF Readable
<1>3. CASE r = ReviewResponse(w)
  <2>1. r = [stage |-> 1, status |-> "OK", magic |-> "VIEW", version |-> 1, len |-> 8, value |-> v]
    BY <1>1, <1>3 DEF ReviewResponse
  <2>2. r.stage = 1 /\ r.value = v /\ r \in Replies
    BY <2>1 DEF Replies
  <2>3. r.len = 8 /\ r.magic = "VIEW"
    BY <2>1
  <2>4. r # TriggerResponse(w)
    BY <2>2 DEF TriggerResponse
  <2> QED
    BY <1>1, <2>2, <2>3, <2>4 DEF Readable
<1> QED
  BY <1>2, <1>3

(* The handler answers a request truly or, something having gone wrong,     *)
(* refuses it.                                                              *)
LEMMA GoAnswers ==
  ASSUME NEW m, NEW a, NEW f \in Nat, IsRequest(m, a, f), NEW r
  PROVE  r = GoHandler(m, a.stage, FALSE) => IsReply(r, a, f)
<1>1. ASSUME a.stage = 2, r = GoTrigger(m)
      PROVE  IsReply(r, a, f)
  <2>1. IsTrigger(a) /\ AsksTrigger(m, a) /\ (f = 0 => GoDecodes(m))
    BY <1>1, RequestStages
  <2>3. CASE GoDecodes(m)
    <3>1. a.content \in Seq(Lines) /\ m.content = a.content /\ m.tool = a.tool /\ m.subject = a.subject
      BY <2>1 DEF IsTrigger, TriggerAsks, AsksTrigger, Skills
    <3>2. PICK w : w = GoMatches(a.content, a.tool, a.subject)
      OBVIOUS
    <3>3. w <=> TriggersOn(a.content, a.tool, a.subject)
      BY <3>1, <3>2, GoIsRight
    <3>4. r = TriggerResponse(w)
      BY <1>1, <2>3, <3>1, <3>2 DEF GoTrigger
    <3>5. /\ r \in Replies /\ r.stage = 2 /\ Readable(r)
          /\ w => r.value = 1
          /\ ~w => r.value = 0
      BY <3>4, WholeReply
    <3>6. RightTrigger(a, r.value)
      BY <3>3, <3>5 DEF RightTrigger
    <3> QED
      BY <1>1, <2>1, <3>5, <3>6 DEF IsReply, Right
  <2>4. CASE ~GoDecodes(m)
    <3>1. r = Failed("InvalidRequest") /\ f # 0
      BY <1>1, <2>1, <2>4 DEF GoTrigger
    <3> QED
      BY <2>1, <3>1, RefusalStage DEF IsReply
  <2> QED
    BY <2>3, <2>4
<1>2. ASSUME a.stage = 1, r = Review(m)
      PROVE  IsReply(r, a, f)
  <2>1. IsReview(a) /\ AsksReview(m, a) /\ (f = 0 => ReviewValid(m))
    BY <1>2, RequestStages
  <2>3. CASE ReviewValid(m)
    <3>1. a.count \in Ints /\ a.interval \in Ints
      BY <2>1 DEF IsReview, ReviewAsks
    <3>2. S32(m.count) = a.count /\ S32(m.interval) = a.interval
      BY <2>1, <3>1, WordsSurvive DEF AsksReview
    <3>3. PICK w : w = Due(a.count, a.interval)
      OBVIOUS
    <3>4. r = ReviewResponse(w)
      BY <1>2, <2>3, <3>2, <3>3 DEF Review
    <3>5. /\ r \in Replies /\ r.stage = 1 /\ Readable(r)
          /\ w => r.value = 1
          /\ ~w => r.value = 0
      BY <3>4, WholeReply
    <3>6. RightReview(a, r.value)
      BY <3>3, <3>5 DEF RightReview
    <3> QED
      BY <1>2, <2>1, <3>5, <3>6 DEF IsReply, Right
  <2>4. CASE ~ReviewValid(m)
    <3>1. r = Failed("InvalidRequest") /\ f # 0
      BY <1>2, <2>1, <2>4 DEF Review
    <3> QED
      BY <2>1, <3>1, RefusalStage DEF IsReply
  <2> QED
    BY <2>3, <2>4
<1> QED
  BY <1>1, <1>2, RequestStages DEF GoHandler

(* What the caller makes of a reply is right, and definite unless something *)
(* went wrong.                                                              *)
LEMMA RepliesConclude ==
  ASSUME NEW m, NEW a, NEW f \in Nat, NEW able, IsReply(m, a, f), NEW r, r = Concluded(m)
  PROVE  r \in {-1, 0, 1} /\ IsResult(r, a, f, able)
<1>0. IsTrigger(a) \/ IsReview(a)
  BY DEF IsReply
<1>1. CASE ~Readable(m)
  <2>1. r = -1
    BY <1>1 DEF Concluded
  <2>2. f > 0
    BY <1>1 DEF IsReply
  <2> QED
    BY <1>0, <2>1, <2>2 DEF IsResult, RightTrigger, RightReview
<1>2. CASE Readable(m)
  <2>1. m \in Replies /\ Right(a, m.value)
    BY <1>2 DEF IsReply, Readable
  <2>2. m.value \in {0, 1, 2} /\ m.value <= 1
    BY <1>2, <2>1 DEF Replies, Values, Readable
  <2>3. r = m.value /\ r \in {0, 1}
    BY <1>2, <2>2 DEF Concluded
  <2>4. CASE IsTrigger(a)
    <3>1. RightTrigger(a, r)
      BY <2>1, <2>3, <2>4, AskStages DEF Right
    <3> QED
      BY <2>3, <2>4, <3>1 DEF IsResult
  <2>5. CASE IsReview(a)
    <3>1. RightReview(a, r)
      BY <2>1, <2>3, <2>5, AskStages DEF Right
    <3> QED
      BY <2>3, <2>5, <3>1 DEF IsResult
  <2> QED
    BY <1>0, <2>4, <2>5
<1> QED
  BY <1>1, <1>2

-----------------------------------------------------------------------------
(* The session invariant holds at first and is kept.                        *)

(* A call that is asked about c, with a provider or without.                *)
LEMMA TriggerAsked ==
  ASSUME NEW q \in Questions, NEW c, c = Load(q.content)
  PROVE  c \in Skills /\ Len(c) <= ContentMax /\ q.tool \in Texts /\ q.subject \in Texts
<1>1. q.content \in Seq(Lines) /\ q.tool \in Texts /\ q.subject \in Texts
  BY QuestionsAssumption DEF Texts
<1>2. PICK n \in Nat : n = Len(q.content)
  BY <1>1, LenProperties
<1>3. PICK k \in Nat : k = Least(n, ContentMax)
  BY <1>2, SizesAssumption DEF Least
<1>4. k <= n /\ k <= ContentMax
  BY <1>2, <1>3, SizesAssumption DEF Least
<1>5. c = SubSeq(q.content, 1, k)
  BY <1>2, <1>3 DEF Load
<1>6. c \in Seq(Lines) /\ Len(c) = k
  BY <1>1, <1>2, <1>4, <1>5
<1> QED
  BY <1>1, <1>4, <1>6 DEF Skills

LEMMA SentTrigger ==
  ASSUME NEW c \in Skills, NEW t \in Texts, NEW s \in Texts, Encodable(c, t, s),
         NEW a, a = [stage |-> 2, content |-> c, tool |-> t, subject |-> s],
         NEW m, m = TriggerRequest(c, t, s)
  PROVE  m # None /\ IsRequest(m, a, 0)
<1>1. Len(c) \in Nat /\ Len(t) \in Nat /\ Len(s) \in Nat /\ Len(t) # 0
  BY LenProperties, EmptySeq DEF Encodable, Skills, Texts
<1>2. PICK lc \in Nat, lt \in Nat, ls \in Nat : lc = Len(c) /\ lt = Len(t) /\ ls = Len(s)
  BY <1>1
<1>3. lc <= ContentMax /\ lt # 0 /\ lt <= ToolMax /\ ls <= SubjectMax
  BY <1>1, <1>2 DEF Encodable
<1>4. PICK n \in Int : n = HeaderLen + lc + lt + ls /\ n >= HeaderLen
  BY DEF HeaderLen
<1>5. m = [stage |-> 2, magic |-> "SKTQ", version |-> 1, nul |-> FALSE, len |-> n,
           clen |-> lc, tlen |-> lt, slen |-> ls, content |-> c, tool |-> t, subject |-> s]
  BY <1>2, <1>4 DEF TriggerRequest
<1>6. m \in TriggerMsgs
  BY <1>5 DEF TriggerMsgs
<1>7. m.stage = 2 /\ m.content = c /\ m.tool = t /\ m.subject = s
  BY <1>5
<1>8. GoDecodes(m)
  BY <1>3, <1>4, <1>5, SizesAssumption DEF GoDecodes
<1>9. IsTrigger(a) /\ a.content = c /\ a.tool = t /\ a.subject = s
  BY <1>2, <1>3 DEF IsTrigger, TriggerAsks
<1> QED
  BY <1>6, <1>7, <1>8, <1>9 DEF IsRequest, AsksTrigger, None

LEMMA SentReview ==
  ASSUME NEW count \in Ints, NEW interval \in Ints,
         NEW a, a = [stage |-> 1, count |-> count, interval |-> interval],
         NEW m, m = ReviewRequest(count, interval)
  PROVE  m # None /\ IsRequest(m, a, 0)
<1>1. Ints \subseteq Int /\ 2 ^ Width \in Nat \ {0}
  <2>1. PICK P \in Nat \ {0} : P = 2 ^ (Width - 1) /\ 2 ^ Width = 2 * P
    BY WidthAssumption
  <2> QED
    BY <2>1 DEF Ints
<1>2. PICK x \in Int, y \in Int : x = U32(count) /\ y = U32(interval)
  <2>1. PICK M \in Nat \ {0} : M = 2 ^ Width
    BY <1>1
  <2>2. count % M \in Int /\ interval % M \in Int
    BY <1>1, Divides
  <2> QED
    BY <2>1, <2>2 DEF U32
<1>3. m = [stage |-> 1, magic |-> "STCX", version |-> 1, len |-> 16, nul |-> FALSE,
           count |-> x, interval |-> y]
  BY <1>2 DEF ReviewRequest
<1>4. m \in ReviewMsgs
  BY <1>3 DEF ReviewMsgs
<1>5. m.stage = 1 /\ m.count = x /\ m.interval = y /\ ReviewValid(m)
  BY <1>3 DEF ReviewValid
<1>6. IsReview(a) /\ a.count = count /\ a.interval = interval
  BY DEF IsReview, ReviewAsks
<1> QED
  BY <1>2, <1>4, <1>5, <1>6 DEF IsRequest, AsksReview, None

LEMMA SessionInit ==
  Init => SessionInv
<1> SUFFICES ASSUME Init
             PROVE  SessionInv
  OBVIOUS
<1>0. provider \in BOOLEAN
  BY DEF Init
<1>1. faults \in 0..MaxFaults /\ result \in {-1, 0, 1}
  BY SizesAssumption DEF Init
<1>2. pc = "idle" /\ ask = None /\ msg = None /\ faults = 0
  BY DEF Init
<1> QED
  BY <1>0, <1>1, <1>2 DEF SessionInv

LEMMA SessionNext ==
  SessionInv /\ [Next]_vars => SessionInv'
<1> SUFFICES ASSUME SessionInv, [Next]_vars
             PROVE  SessionInv'
  OBVIOUS
<1>0. provider \in BOOLEAN /\ faults \in Nat /\ faults \in 0..MaxFaults /\ result \in {-1, 0, 1}
      /\ MaxFaults \in Nat
  BY SizesAssumption DEF SessionInv
<1>1. CASE Register
  BY <1>1 DEF Register, SessionInv
<1>2. ASSUME NEW q \in Questions, TriggerMatches(q)
      PROVE  SessionInv'
  <2>1. PICK c : c = Load(q.content)
    OBVIOUS
  <2>2. c \in Skills /\ Len(c) <= ContentMax /\ q.tool \in Texts /\ q.subject \in Texts
    BY <2>1, TriggerAsked
  <2>3. PICK a : a = [stage |-> 2, content |-> c, tool |-> q.tool, subject |-> q.subject]
    OBVIOUS
  <2>4. IsTrigger(a) /\ a.content = c /\ a.tool = q.tool /\ a.subject = q.subject
    BY <2>2, <2>3 DEF IsTrigger, TriggerAsks
  <2>5. PICK m : m = IF c # <<>> /\ provider /\ Encodable(c, q.tool, q.subject)
                     THEN TriggerRequest(c, q.tool, q.subject) ELSE None
    OBVIOUS
  <2>6. PICK r : r = IF c = <<>> THEN 0 ELSE -1
    OBVIOUS
  <2>7. /\ ask' = a /\ msg' = m /\ result' = r
        /\ pc' = IF m = None THEN "done" ELSE "requested"
        /\ provider' = provider /\ faults' = faults /\ faults = 0
    BY <1>2, <2>1, <2>3, <2>5, <2>6 DEF TriggerMatches, Ask, SessionInv
  <2>8. result' \in {-1, 0, 1}
    BY <2>6, <2>7
  <2>9. CASE c # <<>> /\ provider /\ Encodable(c, q.tool, q.subject)
    <3>1. m = TriggerRequest(c, q.tool, q.subject)
      BY <2>5, <2>9
    <3>2. m # None /\ IsRequest(m, a, 0)
      BY <2>2, <2>3, <2>9, <3>1, SentTrigger
    <3> QED
      BY <1>0, <2>7, <2>8, <3>2 DEF SessionInv
  <2>10. CASE ~(c # <<>> /\ provider /\ Encodable(c, q.tool, q.subject))
    <3>1. m = None
      BY <2>5, <2>10
    <3>2. CASE c = <<>>
      <4>1. IsResult(r, a, 0, provider)
        BY <2>4, <2>6, <3>2 DEF IsResult
      <4> QED
        BY <1>0, <2>7, <2>8, <3>1, <4>1 DEF SessionInv
    <3>3. CASE c # <<>>
      <4>1. r = -1
        BY <2>6, <3>3
      <4>2. RightTrigger(a, r)
        BY <4>1 DEF RightTrigger
      <4>3. ~(provider /\ Len(a.tool) \in 1..ToolMax /\ Len(a.subject) <= SubjectMax)
        <5>1. q.tool = <<>> => Len(q.tool) = 0
          OBVIOUS
        <5> QED
          BY <2>2, <2>4, <2>10, <3>3, <5>1, SizesAssumption DEF Encodable
      <4>4. IsResult(r, a, 0, provider)
        BY <2>4, <4>2, <4>3 DEF IsResult
      <4> QED
        BY <1>0, <2>7, <2>8, <3>1, <4>4 DEF SessionInv
    <3> QED
      BY <3>2, <3>3
  <2> QED
    BY <2>9, <2>10
<1>3. ASSUME NEW count \in Ints, NEW interval \in Ints, ReviewDue(count, interval)
      PROVE  SessionInv'
  <2>1. PICK a, m : /\ a = [stage |-> 1, count |-> count, interval |-> interval]
                    /\ m = ReviewRequest(count, interval)
    OBVIOUS
  <2>2. m # None /\ IsRequest(m, a, 0)
    BY <2>1, SentReview
  <2>3. /\ ask' = a /\ msg' = m /\ result' = -1 /\ pc' = "requested"
        /\ provider' = provider /\ faults' = faults /\ faults = 0
    BY <1>3, <2>1, <2>2 DEF ReviewDue, Ask, SessionInv
  <2> QED
    BY <1>0, <2>2, <2>3 DEF SessionInv
<1>4. CASE Damage
  <2>1. /\ faults' = faults + 1 /\ faults' \in 0..MaxFaults
        /\ provider' = provider /\ pc' = pc /\ ask' = ask /\ result' = result
    BY <1>0, <1>4 DEF Damage, Fault
  <2>2. PICK d \in Damaged(msg) : msg' = d
    BY <1>4 DEF Damage
  <2>3. CASE pc = "requested"
    <3>1. IsRequest(msg, ask, faults)
      BY <2>3 DEF SessionInv
    <3>2. IsRequest(d, ask, faults + 1)
      BY <1>0, <3>1, DamagedRequest
    <3> QED
      BY <1>0, <2>1, <2>2, <2>3, <3>2 DEF SessionInv
  <2>4. CASE pc = "replied"
    <3>1. IsReply(msg, ask, faults) /\ msg.stage # 0
      BY <1>4, <2>4 DEF SessionInv, Damage
    <3>2. IsReply(d, ask, faults + 1)
      BY <1>0, <3>1, DamagedReply
    <3> QED
      BY <1>0, <2>1, <2>2, <2>4, <3>2 DEF SessionInv
  <2> QED
    BY <1>4, <2>3, <2>4 DEF Damage
<1>5. CASE Lose
  <2>1. /\ faults' = faults + 1 /\ faults' \in 0..MaxFaults /\ faults' > 0
        /\ provider' = provider /\ pc' = "done" /\ ask' = ask /\ result' = -1 /\ msg' = None
    BY <1>0, <1>5 DEF Lose, Fault
  <2>2. IsTrigger(ask) \/ IsReview(ask)
    <3>1. IsRequest(msg, ask, faults)
      BY <1>5 DEF Lose, SessionInv
    <3> QED
      BY <3>1, RequestStages
  <2>3. IsResult(-1, ask, faults', provider)
    BY <1>0, <2>1, <2>2 DEF IsResult, RightTrigger, RightReview
  <2> QED
    BY <1>0, <2>1, <2>3 DEF SessionInv
<1>6. CASE Handle
  <2>1. /\ msg' = GoHandler(msg, ask.stage, FALSE) /\ pc' = "replied"
        /\ provider' = provider /\ ask' = ask /\ faults' = faults /\ result' = result
    BY <1>6 DEF Handle
  <2>2. IsRequest(msg, ask, faults)
    BY <1>6 DEF Handle, SessionInv
  <2>3. IsReply(msg', ask, faults)
    BY <1>0, <2>1, <2>2, GoAnswers
  <2> QED
    BY <1>0, <2>1, <2>3 DEF SessionInv
<1>7. CASE HandleCancelled
  <2>1. /\ msg' = GoHandler(msg, ask.stage, TRUE) /\ pc' = "replied"
        /\ faults' = faults + 1 /\ faults' \in 0..MaxFaults /\ faults' > 0
        /\ provider' = provider /\ ask' = ask /\ result' = result
    BY <1>0, <1>7 DEF HandleCancelled, Fault
  <2>2. IsRequest(msg, ask, faults)
    BY <1>7 DEF HandleCancelled, SessionInv
  <2>3. msg' = Failed("Cancelled") /\ (IsTrigger(ask) \/ IsReview(ask))
    BY <2>1, <2>2, RequestStages DEF GoHandler
  <2>4. IsReply(msg', ask, faults')
    BY <2>1, <2>3, RefusalStage DEF IsReply
  <2> QED
    BY <1>0, <2>1, <2>4 DEF SessionInv
<1>8. CASE Conclude
  <2>1. /\ result' = Concluded(msg) /\ pc' = "done" /\ msg' = None
        /\ provider' = provider /\ ask' = ask /\ faults' = faults
    BY <1>8 DEF Conclude
  <2>2. IsReply(msg, ask, faults)
    BY <1>8 DEF Conclude, SessionInv
  <2>3. result' \in {-1, 0, 1} /\ IsResult(result', ask, faults, provider)
    BY <1>0, <2>1, <2>2, RepliesConclude
  <2> QED
    BY <1>0, <2>1, <2>3 DEF SessionInv
<1>9. CASE Return
  BY <1>0, <1>9 DEF Return, SessionInv
<1>10. CASE UNCHANGED vars
  BY <1>10 DEF vars, SessionInv
<1> QED
  BY <1>1, <1>2, <1>3, <1>4, <1>5, <1>6, <1>7, <1>8, <1>9, <1>10 DEF Next

LEMMA SessionHolds ==
  Spec => []SessionInv
  BY SessionInit, SessionNext, PTL DEF Spec

LEMMA DoneStages ==
  ASSUME SessionInv, pc = "done"
  PROVE  /\ IsResult(result, ask, faults, provider) /\ (IsTrigger(ask) \/ IsReview(ask))
         /\ ask.stage = 2 => IsTrigger(ask)
         /\ ask.stage = 1 => IsReview(ask)
<1>1. IsResult(result, ask, faults, provider)
  BY DEF SessionInv
<1> QED
  BY <1>1, AskStages DEF IsResult

-----------------------------------------------------------------------------
(* Every call is about a skill cut to SKILL_MAX_SIZE or about two ints, and *)
(* the message under way belongs to its stage or is a refusal: no step of   *)
(* skill_trigger_matches, of the codec of module_api.h or of Handle mixes   *)
(* up the two events.                                                       *)
THEOREM TypeCorrect ==
  Spec => []TypeOK
<1>1. ASSUME SessionInv
      PROVE  TypeOK
  <2>1. /\ provider \in BOOLEAN /\ faults \in 0..MaxFaults /\ result \in {-1, 0, 1}
        /\ pc \in {"idle", "requested", "replied", "done"}
    BY <1>1 DEF SessionInv
  <2>2. None.stage = 0
    BY DEF None
  <2>3. IsTrigger(ask) => ask.stage = 2 /\ Len(ask.content) <= ContentMax
    BY AskStages DEF IsTrigger
  <2>4. IsReview(ask) => ask.stage = 1 /\ ask.count \in Ints /\ ask.interval \in Ints
    BY DEF IsReview, ReviewAsks
  <2>5. CASE pc = "idle" /\ ask = None /\ msg = None
    BY <2>1, <2>2, <2>5 DEF TypeOK
  <2>6. CASE pc = "requested" /\ IsRequest(msg, ask, faults)
    BY <2>1, <2>3, <2>4, <2>6, RequestStages DEF TypeOK
  <2>7. CASE pc = "replied" /\ IsReply(msg, ask, faults)
    <3>1. (IsTrigger(ask) \/ IsReview(ask)) /\ msg.stage \in {0, ask.stage}
      BY <2>7 DEF IsReply
    <3> QED
      BY <2>1, <2>3, <2>4, <3>1 DEF TypeOK
  <2>8. CASE pc = "done" /\ msg = None
    BY <1>1, <2>1, <2>2, <2>3, <2>4, <2>8, DoneStages DEF TypeOK
  <2> QED
    BY <1>1, <2>5, <2>6, <2>7, <2>8 DEF SessionInv
<1> QED
  BY <1>1, SessionHolds, PTL

(* Whatever is lost, damaged, refused or cancelled on the way, and for      *)
(* every skill, tool and subject: skill_trigger_matches returns 1 only if   *)
(* the trigger block of the skill is met and 0 only if it is not or the     *)
(* skill is missing.                                                        *)
THEOREM DefiniteAnswersAreRight ==
  Spec => []DefiniteIsRight
<1>1. ASSUME SessionInv
      PROVE  DefiniteIsRight
  <2>1. ASSUME pc = "done", ask.stage = 2
        PROVE  (ask.content = <<>> /\ result = 0) \/ RightTrigger(ask, result)
    BY <1>1, <2>1, DoneStages, AskStages DEF IsResult
  <2> QED
    BY <2>1 DEF DefiniteIsRight, RightTrigger
<1> QED
  BY <1>1, SessionHolds, PTL

(* The limits of the C encoder and of the Go decoder are the same: with a   *)
(* provider and without a fault the answer is definite for every skill that *)
(* loads and every tool and subject within the limits of module_api.h.      *)
THEOREM AnsweredIfWithinLimits ==
  Spec => []AnsweredWithinLimits
<1>1. ASSUME SessionInv
      PROVE  AnsweredWithinLimits
  BY <1>1, DoneStages, AskStages DEF IsResult, AnsweredWithinLimits
<1> QED
  BY <1>1, SessionHolds, PTL

(* The review nudge is due exactly on the positive multiples of a positive  *)
(* interval, for every pair of ints of any width after their way through    *)
(* aimee_skills_put_u32 and back, and only a fault keeps the host from      *)
(* hearing so.                                                              *)
THEOREM ReviewsAreRight ==
  Spec => []ReviewRight
<1>1. ASSUME SessionInv
      PROVE  ReviewRight
  <2>1. SUFFICES ASSUME pc = "done", ask.stage = 1
                 PROVE  ReviewRight
    BY DEF ReviewRight
  <2>2. PICK due : due = \E k \in Ints : k > 0 /\ ask.interval > 0 /\ ask.count = k * ask.interval
    OBVIOUS
  <2>3. IsReview(ask) /\ RightReview(ask, result) /\ (result = -1 => faults > 0)
    BY <1>1, <2>1, DoneStages, AskStages DEF IsResult
  <2>4. ask.count \in Ints /\ ask.interval \in Ints
    BY <2>3 DEF IsReview, ReviewAsks
  <2>5. due <=> Due(ask.count, ask.interval)
    BY <2>2, <2>4, DueIsMultiple
  <2>6. result \in {-1, 0, 1}
    BY <1>1 DEF SessionInv
  <2>7. result = (IF faults > 0 /\ result = -1 THEN -1 ELSE IF due THEN 1 ELSE 0)
    BY <2>3, <2>5, <2>6 DEF RightReview
  <2> QED
    BY <2>2, <2>7 DEF ReviewRight
<1> QED
  BY <1>1, SessionHolds, PTL

(* The C adapter and the Go handler give the same answer to every request   *)
(* that can be under way, damaged or not, cancelled or not, at any stage,   *)
(* for every skill without a space that is not ASCII in an indent.          *)
THEOREM TwinsGiveSameAnswer ==
  Spec => []HandlersAgree
<1>1. ASSUME SessionInv, pc = "requested",
             ask.stage = 2 => \A i \in DOMAIN ask.content : ~ask.content[i].wide,
             NEW stage \in 1..3, NEW cancelled \in BOOLEAN, ~(cancelled /\ stage = 3)
      PROVE  CHandler(msg, stage, cancelled) = GoHandler(msg, stage, cancelled)
  <2>1. IsRequest(msg, ask, faults)
    BY <1>1 DEF SessionInv
  <2>2. CASE stage = 2 /\ ~cancelled
    <3>1. CTrigger(msg) = GoTrigger(msg)
      <4>1. CASE ask.stage = 1
        <5>1. msg.magic \in {"STCX", "none"}
          BY <2>1, <4>1, RequestStages DEF AsksReview, ReviewMsgs
        <5>2. ~CDecodes(msg) /\ ~GoDecodes(msg)
          BY <5>1 DEF CDecodes, GoDecodes
        <5> QED
          BY <5>2 DEF CTrigger, GoTrigger
      <4>2. CASE ask.stage = 2
        <5>1. IsTrigger(ask) /\ AsksTrigger(msg, ask)
          BY <2>1, <4>2, RequestStages
        <5>2. /\ msg.clen \in Nat /\ msg.tlen \in Nat /\ msg.slen \in Nat /\ msg.len \in Int
          BY <5>1 DEF AsksTrigger, TriggerMsgs
        <5>3. CDecodes(msg) <=> GoDecodes(msg)
          BY <5>2, SizesAssumption DEF CDecodes, GoDecodes
        <5>4. msg.content = ask.content /\ ask.content \in Seq(Lines)
          BY <5>1 DEF AsksTrigger, IsTrigger, TriggerAsks, Skills
        <5>5. CMatches(msg.content, msg.tool, msg.subject) = GoMatches(msg.content, msg.tool, msg.subject)
          BY <1>1, <4>2, <5>4, TwinsAgree
        <5> QED
          BY <5>3, <5>5 DEF CTrigger, GoTrigger
      <4> QED
        BY <2>1, <4>1, <4>2, RequestStages
    <3> QED
      BY <2>2, <3>1 DEF CHandler, GoHandler
  <2>3. CASE stage = 1 /\ ~cancelled
    BY <2>3 DEF CHandler, GoHandler
  <2>4. CASE stage = 3 /\ ~cancelled
    BY <2>4 DEF CHandler, GoHandler
  <2>5. CASE cancelled
    <3>1. stage \in {1, 2}
      BY <1>1, <2>5
    <3> QED
      BY <2>5, <3>1 DEF CHandler, GoHandler
  <2> QED
    BY <1>1, <2>2, <2>3, <2>4, <2>5
<1>2. ASSUME SessionInv
      PROVE  HandlersAgree
  BY <1>1, <1>2 DEF HandlersAgree
<1> QED
  BY <1>2, SessionHolds, PTL

=============================================================================
