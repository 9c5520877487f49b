------------------------- MODULE SkillCatalogProofs -------------------------
(***************************************************************************)
(* Theorems about SkillCatalog, for any number of names, texts, tools and   *)
(* calls, and any directory trees.                                          *)
(***************************************************************************)
EXTENDS SkillCatalog, FiniteSetTheorems, SequenceTheorems, Induction

-----------------------------------------------------------------------------
(* Resolution.                                                              *)

LEMMA TierNames ==
  /\ ToSet(Tiers) = {"project", "user", "bundled"} /\ ToSet(Forms) = {"dir", "flat"}
  /\ Slots = {"project", "user", "bundled"} \X {"dir", "flat"} \X Names
<1>1. DOMAIN Tiers = 1..3 /\ Tiers[1] = "project" /\ Tiers[2] = "user" /\ Tiers[3] = "bundled"
  BY DEF Tiers
<1>2. DOMAIN Forms = 1..2 /\ Forms[1] = "dir" /\ Forms[2] = "flat"
  BY DEF Forms
<1>3. ToSet(Tiers) = {"project", "user", "bundled"}
  BY <1>1 DEF ToSet
<1>4. ToSet(Forms) = {"dir", "flat"}
  BY <1>2 DEF ToSet
<1> QED
  BY <1>3, <1>4 DEF Slots

LEMMA LeastIndex ==
  ASSUME NEW I, I \subseteq Nat, NEW k \in I, \A i \in I : k <= i
  PROVE  Min(I) = k
<1>1. \E x \in I : \A y \in I : x =< y
  OBVIOUS
<1>2. Min(I) \in I /\ \A y \in I : Min(I) =< y
  BY <1>1 DEF Min
<1>3. Min(I) =< k /\ k =< Min(I) /\ k \in Nat /\ Min(I) \in Nat
  BY <1>2
<1> QED
  BY <1>3

(* The file a name stands for when the slots hold b: the first of six.      *)
Lookup(b, n) ==
  IF b[<<"project", "dir", n>>] # Absent THEN <<"project", "dir", n>>
  ELSE IF b[<<"project", "flat", n>>] # Absent THEN <<"project", "flat", n>>
  ELSE IF b[<<"user", "dir", n>>] # Absent THEN <<"user", "dir", n>>
  ELSE IF b[<<"user", "flat", n>>] # Absent THEN <<"user", "flat", n>>
  ELSE IF b[<<"bundled", "dir", n>>] # Absent THEN <<"bundled", "dir", n>>
  ELSE IF b[<<"bundled", "flat", n>>] # Absent THEN <<"bundled", "flat", n>>
  ELSE Absent

LEMMA FirstSlot ==
  ASSUME NEW b, NEW n
  PROVE  (LET i == SelectInSeq(Search(n), LAMBDA t : b[t] # Absent)
          IN  IF i = 0 THEN Absent ELSE Search(n)[i]) = Lookup(b, n)
<1> DEFINE s == Search(n)
           I == {i \in 1..Len(s) : b[s[i]] # Absent}
           r == IF I # {} THEN Min(I) ELSE 0
           R == LET i == SelectInSeq(Search(n), LAMBDA t : b[t] # Absent)
                IN  IF i = 0 THEN Absent ELSE Search(n)[i]
<1> SUFFICES R = Lookup(b, n)
  OBVIOUS
<1>1. R = IF r = 0 THEN Absent ELSE s[r]
  BY DEF SelectInSeq
<1>2. /\ Len(s) = 6
      /\ s[1] = <<"project", "dir", n>> /\ s[2] = <<"project", "flat", n>>
      /\ s[3] = <<"user", "dir", n>> /\ s[4] = <<"user", "flat", n>>
      /\ s[5] = <<"bundled", "dir", n>> /\ s[6] = <<"bundled", "flat", n>>
  BY DEF Search
<1> HIDE DEF s, R
<1>3. \A i : i \in I <=> i \in {1, 2, 3, 4, 5, 6} /\ b[s[i]] # Absent
  BY <1>2
<1>4. I \subseteq Nat
  OBVIOUS
<1> HIDE DEF I
<1>5. CASE I = {}
  BY <1>1, <1>2, <1>3, <1>5 DEF Lookup
<1>6. ASSUME NEW k \in {1, 2, 3, 4, 5, 6}, b[s[k]] # Absent,
             \A j \in 1..(k - 1) : b[s[j]] = Absent
      PROVE  R = s[k]
  <2>1. k \in I /\ \A i \in I : k <= i
    BY <1>3, <1>4, <1>6
  <2>2. Min(I) = k
    BY <1>4, <2>1, LeastIndex
  <2> QED
    BY <1>1, <2>1, <2>2
<1>7. CASE b[s[1]] # Absent
  BY <1>2, <1>6, <1>7 DEF Lookup
<1>8. CASE b[s[1]] = Absent /\ b[s[2]] # Absent
  BY <1>2, <1>6, <1>8 DEF Lookup
<1>9. CASE b[s[1]] = Absent /\ b[s[2]] = Absent /\ b[s[3]] # Absent
  BY <1>2, <1>6, <1>9 DEF Lookup
<1>10. CASE /\ b[s[1]] = Absent /\ b[s[2]] = Absent /\ b[s[3]] = Absent
            /\ b[s[4]] # Absent
  BY <1>2, <1>6, <1>10 DEF Lookup
<1>11. CASE /\ b[s[1]] = Absent /\ b[s[2]] = Absent /\ b[s[3]] = Absent
            /\ b[s[4]] = Absent /\ b[s[5]] # Absent
  BY <1>2, <1>6, <1>11 DEF Lookup
<1>12. CASE /\ b[s[1]] = Absent /\ b[s[2]] = Absent /\ b[s[3]] = Absent
            /\ b[s[4]] = Absent /\ b[s[5]] = Absent /\ b[s[6]] # Absent
  BY <1>2, <1>6, <1>12 DEF Lookup
<1>13. I = {} <=> \A i \in {1, 2, 3, 4, 5, 6} : b[s[i]] = Absent
  BY <1>3
<1> QED
  BY <1>5, <1>7, <1>8, <1>9, <1>10, <1>11, <1>12, <1>13

(* skill_resolve_path in six steps, now and after a step.                   *)
LEMMA Resolves ==
  ASSUME NEW n
  PROVE  Resolved(n) = Lookup(body, n) /\ Resolved(n)' = Lookup(body', n)
<1>1. Resolved(n) = Lookup(body, n)
  BY FirstSlot DEF Resolved, SelectInSeq
<1>2. Resolved(n)' = Lookup(body', n)
  BY FirstSlot DEF Resolved, SelectInSeq
<1> QED
  BY <1>1, <1>2

(* What Resolved is good for: a name resolves to a slot that is there.      *)
LEMMA ResolvedSlot ==
  ASSUME NEW n \in Names
  PROVE  /\ Resolved(n) \in Slots \cup {Absent}
         /\ Resolved(n) # Absent => body[Resolved(n)] # Absent /\ Resolved(n)[3] = n
         /\ Resolved(n) # Absent <=> \E t \in {"project", "user", "bundled"}, f \in {"dir", "flat"} :
                                       body[<<t, f, n>>] # Absent
<1>1. \A t \in {"project", "user", "bundled"}, f \in {"dir", "flat"} :
        /\ <<t, f, n>> \in Slots /\ <<t, f, n>> # Absent /\ <<t, f, n>>[3] = n
  BY TierNames, CatalogAssumption
<1>2. \/ Resolved(n) = Absent
      \/ \E t \in {"project", "user", "bundled"}, f \in {"dir", "flat"} :
           Resolved(n) = <<t, f, n>> /\ body[<<t, f, n>>] # Absent
  BY Resolves DEF Lookup
<1>3. Resolved(n) = Absent => \A t \in {"project", "user", "bundled"}, f \in {"dir", "flat"} :
                                body[<<t, f, n>>] = Absent
  BY <1>1, Resolves DEF Lookup
<1> QED
  BY <1>1, <1>2, <1>3

-----------------------------------------------------------------------------
(* The pass for uncovered tools.                                            *)

Proposals == [Slugs -> Tools \cup {Absent}]
Accounts == [proposal : Proposals, made : SUBSET Tools, existing : Nat, skipped : Nat, errors : Nat]
Entries == Tools \cup {Unnamed}
Fresh == [proposal |-> proposal, made |-> {}, existing |-> 0, skipped |-> 0, errors |-> 0]

(* What one entry of the registry does to the account of a pass.            *)
LEMMA StubStep ==
  ASSUME NEW acc \in Accounts, NEW t \in Entries, NEW listed, NEW broken, NEW r,
         r = Stub(acc, t, listed, broken)
  PROVE  /\ r \in Accounts
         /\ \A s \in Slugs : acc.proposal[s] # Absent => r.proposal[s] = acc.proposal[s]
         /\ \A m \in r.made \ acc.made : m \in Tools /\ ~Covered(m, listed)
         /\ r.errors = 0 => acc.errors = 0
         /\ r.errors = 0 /\ t # Unnamed => Covered(t, listed) \/ r.proposal[Slug[t]] # Absent
<1>1. CASE t = Unnamed
  <2>1. r = [acc EXCEPT !.skipped = @ + 1]
    BY <1>1 DEF Stub
  <2> QED
    BY <1>1, <2>1 DEF Accounts
<1> SUFFICES ASSUME t # Unnamed PROVE
         /\ r \in Accounts
         /\ \A s \in Slugs : acc.proposal[s] # Absent => r.proposal[s] = acc.proposal[s]
         /\ \A m \in r.made \ acc.made : m \in Tools /\ ~Covered(m, listed)
         /\ r.errors = 0 => acc.errors = 0
         /\ r.errors = 0 => Covered(t, listed) \/ r.proposal[Slug[t]] # Absent
  BY <1>1
<1>t. t \in Tools /\ Slug[t] \in Slugs /\ t # Absent
  BY RegistryAssumption DEF Entries, Slugs
<1>2. CASE Covered(t, listed)
  <2>1. r = [acc EXCEPT !.existing = @ + 1]
    BY <1>2 DEF Stub
  <2> QED
    BY <1>2, <2>1 DEF Accounts
<1>3. CASE ~Covered(t, listed) /\ acc.proposal[Slug[t]] # Absent
  <2>1. r = [acc EXCEPT !.skipped = @ + 1]
    BY <1>3 DEF Stub
  <2> QED
    BY <1>3, <2>1 DEF Accounts
<1>4. CASE ~Covered(t, listed) /\ acc.proposal[Slug[t]] = Absent /\ Slug[t] \in broken
  <2>1. r = [acc EXCEPT !.errors = @ + 1]
    BY <1>4 DEF Stub
  <2>2. r \in Accounts /\ r.proposal = acc.proposal /\ r.made = acc.made /\ r.errors = acc.errors + 1
        /\ acc.errors \in Nat
    BY <2>1 DEF Accounts
  <2> QED
    BY <2>2
<1>5. CASE ~Covered(t, listed) /\ acc.proposal[Slug[t]] = Absent /\ Slug[t] \notin broken
  <2>1. r = [acc EXCEPT !.proposal[Slug[t]] = t, !.made = @ \cup {t}]
    BY <1>5 DEF Stub
  <2>2. /\ r.proposal = [acc.proposal EXCEPT ![Slug[t]] = t] /\ r.made = acc.made \cup {t}
        /\ r.errors = acc.errors /\ acc.proposal \in Proposals
    BY <2>1 DEF Accounts
  <2>3. r.proposal \in Proposals /\ r.proposal[Slug[t]] = t
        /\ \A s \in Slugs \ {Slug[t]} : r.proposal[s] = acc.proposal[s]
    BY <1>t, <2>2 DEF Proposals
  <2>4. r \in Accounts
    <3>1. r = [acc EXCEPT !.proposal = r.proposal, !.made = r.made]
      BY <2>1, <2>2 DEF Accounts
    <3>2. r.proposal \in Proposals /\ r.made \in SUBSET Tools
      BY <1>t, <2>2, <2>3 DEF Accounts
    <3> QED
      BY <3>1, <3>2 DEF Accounts
  <2> QED
    BY <1>t, <1>5, <2>2, <2>3, <2>4
<1> QED
  BY <1>2, <1>3, <1>4, <1>5

(* The pass is a run of Stub over the entries.                              *)
LEMMA StubbedRuns ==
  ASSUME proposal \in Proposals, NEW registry \in Seq(Entries), NEW listed, NEW broken
  PROVE  \E after \in [0..Len(registry) -> Accounts] :
           /\ after[0] = Fresh
           /\ \A i \in 1..Len(registry) : after[i] = Stub(after[i - 1], registry[i], listed, broken)
           /\ Stubbed(registry, listed, broken) = after[Len(registry)]
<1> DEFINE n == Len(registry)
           Def(g) == [i \in 0..n |-> IF i = 0 THEN Fresh
                                     ELSE Stub(g[i - 1], registry[i], listed, broken)]
           Go == [p \in (1..n) \X Accounts |-> Stub(p[2], registry[p[1]], listed, broken)]
           after == CHOOSE g : g = Def(g)
<1>0. n \in Nat /\ \A i \in 1..n : registry[i] \in Entries
  BY LenProperties
<1>1. Stubbed(registry, listed, broken) = after[n]
  BY DEF Stubbed, Fresh
<1>2. Fresh \in Accounts
  BY DEF Fresh, Accounts
<1>3. IsLoop(Go, n, Accounts)
  BY <1>0, StubStep DEF IsLoop
<1>4. PICK f : /\ f \in [0..n -> Accounts] /\ f[0] = Fresh
               /\ \A i \in 1..n : f[i] = Go[<<i, f[i - 1]>>]
  <2> HIDE DEF n, Go
  <2>1. PICK f : IsRun(f, Go, n, Accounts, Fresh)
    BY <1>0, <1>2, <1>3, LoopRuns
  <2> QED
    BY <2>1 DEF IsRun
<1>5. \A i \in 1..n : f[i] = Stub(f[i - 1], registry[i], listed, broken)
  <2> SUFFICES ASSUME NEW i \in 1..n PROVE f[i] = Stub(f[i - 1], registry[i], listed, broken)
    OBVIOUS
  <2>1. f[i - 1] \in Accounts
    BY <1>0, <1>4
  <2> QED
    BY <1>4, <2>1
<1>6. f = Def(f)
  BY <1>0, <1>4, <1>5
<1>7. after = Def(after)
  <2> HIDE DEF Def
  <2> QED
    BY <1>6
<1> HIDE DEF after
<1>8. after[0] = Fresh /\ \A i \in 1..n : after[i] = Stub(after[i - 1], registry[i], listed, broken)
  BY <1>0, <1>7
<1>9. DOMAIN after = 0..n /\ after = [i \in 0..n |-> after[i]]
  BY <1>7
<1>10. 0..n \subseteq {i \in 0..n : after[i] \in Accounts}
  <2> DEFINE S == {i \in 0..n : after[i] \in Accounts}
  <2>1. 0 \in S
    BY <1>0, <1>2, <1>8
  <2>2. ASSUME NEW i \in 0..(n - 1), i \in S PROVE i + 1 \in S
    <3>1. i + 1 \in 1..n /\ i + 1 \in 0..n /\ (i + 1) - 1 = i
      BY <1>0
    <3>2. after[i + 1] = Stub(after[i], registry[i + 1], listed, broken)
      BY <1>8, <3>1
    <3> QED
      BY <1>0, <2>2, <3>1, <3>2, StubStep
  <2> HIDE DEF S, n
  <2>3. 0..n \subseteq S
    BY <1>0, <2>1, <2>2, UpTo
  <2> QED
    BY <2>3 DEF S
<1>11. after \in [0..n -> Accounts]
  BY <1>9, <1>10
<1> QED
  BY <1>1, <1>8, <1>11


-----------------------------------------------------------------------------
(* Listings.                                                                *)

(* One directory of a listing: nothing is lost, nothing comes from          *)
(* elsewhere, it fits, and names are left out only when it is full.         *)
LEMMA AddTierSpec ==
  ASSUME NEW listed \in SUBSET Names, Cardinality(listed) <= MaxSkills, NEW tier,
         NEW l \in AddTier(listed, tier)
  PROVE  /\ listed \subseteq l /\ l \subseteq listed \cup InTier(tier) /\ l \in SUBSET Names
         /\ Cardinality(l) <= MaxSkills
         /\ InTier(tier) \subseteq l \/ Cardinality(l) = MaxSkills
<1> DEFINE new == InTier(tier) \ listed
           room == MaxSkills - Cardinality(listed)
<1>1. InTier(tier) \subseteq Names /\ new \in SUBSET Names
  BY DEF InTier
<1>2. MaxSkills \in Nat /\ IsFiniteSet(Names)
  BY CatalogAssumption
<1>3. IsFiniteSet(listed) /\ Cardinality(listed) \in Nat
  BY <1>2, FS_Subset, FS_CardinalityType
<1>4. ASSUME NEW some \in SUBSET new
      PROVE  Cardinality(listed \cup some) = Cardinality(listed) + Cardinality(some)
             /\ Cardinality(some) \in Nat
  <2>1. IsFiniteSet(some) /\ listed \cap some = {}
    BY <1>1, <1>2, FS_Subset
  <2>2. Cardinality(listed \cup some) = Cardinality(listed) + Cardinality(some) - Cardinality({})
    BY <1>3, <2>1, FS_Union
  <2> QED
    BY <1>3, <2>1, <2>2, FS_EmptySet, FS_CardinalityType
<1>5. CASE Cardinality(new) <= room
  <2>1. l = listed \cup new
    BY <1>5 DEF AddTier
  <2>2. Cardinality(l) <= MaxSkills
    BY <1>2, <1>3, <1>4, <1>5, <2>1
  <2> QED
    BY <1>1, <2>1, <2>2
<1>6. CASE ~(Cardinality(new) <= room)
  <2>1. PICK some \in SUBSET new : Cardinality(some) = room /\ l = listed \cup some
    BY <1>6 DEF AddTier, kSubset
  <2>2. Cardinality(l) = MaxSkills
    BY <1>2, <1>3, <1>4, <2>1
  <2> QED
    BY <1>1, <1>2, <2>1, <2>2
<1> QED
  BY <1>5, <1>6

(* A listing is made in three stages.                                       *)
LEMMA ListingStages ==
  ASSUME NEW l \in Listings
  PROVE  /\ l \in SUBSET Names /\ Cardinality(l) <= MaxSkills
         /\ \E l1 \in SUBSET Names, l2 \in SUBSET Names :
              /\ l1 \subseteq InTier("project")
              /\ l2 \subseteq l1 \cup InTier("user")
              /\ l \subseteq l2 \cup InTier("bundled")
              /\ l1 \subseteq l2 /\ l2 \subseteq l
              /\ InTier("project") \subseteq l1 \/ Cardinality(l1) = MaxSkills
              /\ InTier("user") \subseteq l2 \/ Cardinality(l2) = MaxSkills
              /\ InTier("bundled") \subseteq l \/ Cardinality(l) = MaxSkills
<1>0. PICK l1 \in AddTier({}, "project") : \E l2 \in AddTier(l1, "user") : l \in AddTier(l2, "bundled")
  BY DEF Listings
<1>1. PICK l2 \in AddTier(l1, "user") : l \in AddTier(l2, "bundled")
  BY <1>0
<1>2. Cardinality({}) <= MaxSkills
  BY CatalogAssumption, FS_EmptySet
<1>3. /\ l1 \subseteq InTier("project") /\ l1 \in SUBSET Names /\ Cardinality(l1) <= MaxSkills
      /\ InTier("project") \subseteq l1 \/ Cardinality(l1) = MaxSkills
  BY <1>1, <1>2, AddTierSpec
<1>4. /\ l1 \subseteq l2 /\ l2 \subseteq l1 \cup InTier("user") /\ l2 \in SUBSET Names
      /\ Cardinality(l2) <= MaxSkills
      /\ InTier("user") \subseteq l2 \/ Cardinality(l2) = MaxSkills
  BY <1>1, <1>3, AddTierSpec
<1>5. /\ l2 \subseteq l /\ l \subseteq l2 \cup InTier("bundled") /\ l \in SUBSET Names
      /\ Cardinality(l) <= MaxSkills
      /\ InTier("bundled") \subseteq l \/ Cardinality(l) = MaxSkills
  BY <1>1, <1>4, AddTierSpec
<1> QED
  BY <1>3, <1>4, <1>5

-----------------------------------------------------------------------------
(* Types.                                                                   *)

(* An activation is a call.                                                 *)
TypeInv == TypeOK /\ activations <= calls

(* What TypeOK says of the call that has just returned.                     *)
CallOK(r) == /\ r.ok \in BOOLEAN /\ r.sidecar \in Slots \cup {Absent}
             /\ r.listed \in SUBSET Names /\ Cardinality(r.listed) <= MaxSkills

LEMMA CallFields ==
  ASSUME NEW op, NEW n
  PROVE  /\ Call(op, n).op = op /\ Call(op, n).name = n /\ Call(op, n).ok = TRUE
         /\ Call(op, n).text = Absent /\ Call(op, n).sidecar = Absent
         /\ Call(op, n).listed = {} /\ Call(op, n).made = {} /\ Call(op, n).registry = <<>>
  BY DEF Call, Nothing

LEMMA NothingOK == CallOK(Nothing)
  BY FS_EmptySet, CatalogAssumption DEF CallOK, Nothing

(* A call that lists nothing has a small enough listing.                    *)
LEMMA UnlistedOK ==
  ASSUME NEW r, r.ok \in BOOLEAN, r.sidecar \in Slots \cup {Absent}, r.listed = {}
  PROVE  CallOK(r)
  BY FS_EmptySet, CatalogAssumption DEF CallOK

LEMMA TypeStep ==
  ASSUME TypeInv, CallOK(last'), body' \in [Slots -> Files],
         support' \in [Dirs -> Names \cup {Absent}], proposal' \in [Slugs -> Tools \cup {Absent}],
         calls < MaxCalls, calls' = calls + 1,
         activations' = activations \/ activations' = activations + 1
  PROVE  TypeInv'
<1>1. MaxCalls \in Nat /\ activations \in 0..MaxCalls /\ calls \in 0..MaxCalls /\ activations <= calls
  BY CatalogAssumption DEF TypeInv, TypeOK
<1>2. activations' \in 0..MaxCalls /\ calls' \in 0..MaxCalls /\ activations' <= calls'
  BY <1>1
<1> QED
  BY <1>2 DEF TypeInv, TypeOK, CallOK

-----------------------------------------------------------------------------
(* What each kind of call leaves behind.                                    *)

Returned == last' = Nothing /\ UNCHANGED <<body, support, proposal, activations, calls>>

Listed ==
  /\ last'.op = "list" /\ last'.ok = TRUE /\ last'.sidecar = Absent
  /\ last'.listed \in Listings
  /\ UNCHANGED <<body, support, proposal, activations>>

Used(n) ==
  /\ last'.op \in {"inject", "view"} /\ last'.name = n /\ last'.ok \in BOOLEAN
  /\ last'.listed = {}
  /\ last'.sidecar # Absent => /\ last'.sidecar = Resolved(n) /\ Resolved(n) # Absent
                               /\ Resolved(n)[1] # "bundled"
  /\ activations' = activations \/ activations' = activations + 1
  /\ UNCHANGED <<body, support, proposal>>

Authored(n, c) ==
  /\ last'.op \in {"create", "import", "edit", "patch"} /\ last'.name = n
  /\ last'.ok \in BOOLEAN /\ last'.listed = {}
  /\ \/ body' = body /\ last'.ok = FALSE /\ last'.sidecar = Absent
     \/ /\ n \in Names /\ body' = [body EXCEPT ![Flat(n)] = c] /\ last'.text = c
        /\ last'.sidecar \in {Absent, IF body[<<"project", "dir", n>>] # Absent
                                      THEN <<"project", "dir", n>> ELSE Flat(n)}
  /\ UNCHANGED <<support, proposal, activations>>

Filed(n) ==
  /\ last'.op = "write_file" /\ last'.name = n /\ last'.ok \in BOOLEAN /\ last'.listed = {}
  /\ \/ last'.ok = FALSE /\ last'.sidecar = Absent /\ support' \in {support, [support EXCEPT ![DirOf(Flat(n))] = n]}
     \/ /\ body[Flat(n)] # Absent /\ support' = [support EXCEPT ![DirOf(Flat(n))] = n]
        /\ last'.sidecar = Resolved(n)
  /\ UNCHANGED <<body, proposal, activations>>

Stubs(registry, listed, broken) ==
  /\ last'.op = "autostub" /\ last'.sidecar = Absent /\ last'.listed = {}
  /\ last'.registry = registry
  /\ last'.ok = (Stubbed(registry, listed, broken).errors = 0)
  /\ last'.made = Stubbed(registry, listed, broken).made
  /\ proposal' = Stubbed(registry, listed, broken).proposal
  /\ UNCHANGED <<body, support, activations>>

Refused ==
  /\ last'.op = "autostub" /\ last'.sidecar = Absent /\ last'.listed = {}
  /\ last'.ok = FALSE /\ last'.made = {}
  /\ UNCHANGED <<body, support, proposal, activations>>

Judged(n, dir) ==
  /\ last'.op = "eval" /\ last'.sidecar = Absent /\ last'.listed = {} /\ last'.ok \in BOOLEAN
  /\ last'.ok => /\ dir # Absent /\ last'.dir = dir /\ last'.eval = Evaluated(dir)
                 /\ Usable(Evaluated(dir))
  /\ UNCHANGED <<body, support, proposal, activations>>

Shown(op, n, text) ==
  [op |-> op, name |-> n, ok |-> TRUE, text |-> text, sidecar |-> Absent, listed |-> {},
   made |-> {}, registry |-> <<>>, eval |-> Absent, dir |-> <<>>]

LEMMA CallShown ==
  ASSUME NEW op, NEW n, NEW text
  PROVE  /\ Call(op, n) = Shown(op, n, Absent)
         /\ [Call(op, n) EXCEPT !.text = text] = Shown(op, n, text)
<1>1. ASSUME NEW r, r = Call(op, n) PROVE r = Shown(op, n, Absent)
  BY <1>1 DEF Call, Nothing, Shown
<1>2. ASSUME NEW r, r = [Call(op, n) EXCEPT !.text = text] PROVE r = Shown(op, n, text)
  BY <1>2 DEF Call, Nothing, Shown
<1> QED
  BY <1>1, <1>2

LEMMA EventOutcome ==
  ASSUME NEW n \in Names, NEW io \in BOOLEAN, NEW op, NEW text, NEW r, NEW e,
         r = Shown(op, n, text), e = Event(r, io)
  PROVE  /\ e.op = op /\ e.name = n /\ e.ok \in BOOLEAN /\ e.listed = {}
         /\ e.sidecar # Absent => /\ e.sidecar = Resolved(n) /\ Resolved(n) # Absent
                                  /\ Resolved(n)[1] # "bundled"
         /\ [e EXCEPT !.ok = TRUE].op = op /\ [e EXCEPT !.ok = TRUE].name = n
         /\ [e EXCEPT !.ok = TRUE].ok = TRUE /\ [e EXCEPT !.ok = TRUE].listed = {}
         /\ [e EXCEPT !.ok = TRUE].sidecar = e.sidecar
<1>1. /\ r.name = n /\ r.sidecar = Absent /\ r.op = op /\ r.ok = TRUE /\ r.listed = {}
  BY DEF Shown
<1>2. CASE Resolved(n) = Absent
  <2>1. e = [r EXCEPT !.ok = FALSE]
    BY <1>1, <1>2 DEF Event
  <2> QED
    BY <1>1, <2>1 DEF Shown
<1>3. CASE Resolved(n) # Absent /\ Resolved(n)[1] = "bundled"
  <2>1. e = r
    BY <1>1, <1>3 DEF Event
  <2> QED
    BY <1>1, <1>3, <2>1 DEF Shown
<1>4. CASE Resolved(n) # Absent /\ Resolved(n)[1] # "bundled"
  <2>1. CASE io = TRUE
    <3>1. e = [r EXCEPT !.ok = TRUE, !.sidecar = Resolved(n)]
      BY <1>1, <1>4, <2>1 DEF Event
    <3> QED
      BY <1>1, <1>4, <3>1 DEF Shown
  <2>2. CASE io = FALSE
    <3>1. e = [r EXCEPT !.ok = FALSE, !.sidecar = Absent]
      BY <1>1, <1>4, <2>2 DEF Event
    <3> QED
      BY <1>1, <3>1 DEF Shown
  <2> QED
    BY <2>1, <2>2
<1> QED
  BY <1>2, <1>3, <1>4

LEMMA UsedOutcome ==
  ASSUME NEW n \in Names, NEW io \in BOOLEAN, Inject(n, io) \/ RecordView(n, io)
  PROVE  Used(n)
<1>1. CASE RecordView(n, io)
  <2>1. last' = Event(Call("view", n), io) /\ UNCHANGED <<body, support, proposal, activations>>
    BY <1>1 DEF RecordView, Done
  <2>2. Call("view", n) = Shown("view", n, Absent)
    BY CallShown
  <2>3. /\ last'.op = "view" /\ last'.name = n /\ last'.ok \in BOOLEAN /\ last'.listed = {}
        /\ last'.sidecar # Absent => /\ last'.sidecar = Resolved(n) /\ Resolved(n) # Absent
                                     /\ Resolved(n)[1] # "bundled"
    BY <2>1, <2>2, EventOutcome
  <2> QED
    BY <2>1, <2>3 DEF Used
<1>2. CASE Inject(n, io)
  <2> DEFINE r == [Call("inject", n) EXCEPT !.text = Load(n)]
  <2>1. /\ last' = IF Load(n) = Absent THEN [r EXCEPT !.ok = FALSE]
                   ELSE [Event(r, io) EXCEPT !.ok = TRUE]
        /\ activations' = activations \/ activations' = activations + 1
        /\ UNCHANGED <<body, support, proposal>>
    BY <1>2 DEF Inject, Done
  <2>2. /\ [r EXCEPT !.ok = FALSE].op = "inject" /\ [r EXCEPT !.ok = FALSE].name = n
        /\ [r EXCEPT !.ok = FALSE].ok = FALSE /\ [r EXCEPT !.ok = FALSE].listed = {}
        /\ [r EXCEPT !.ok = FALSE].sidecar = Absent
    BY DEF Call, Nothing
  <2>3. PICK e : e = Event(r, io)
    OBVIOUS
  <2>r. r = Shown("inject", n, Load(n))
    BY CallShown
  <2>4. /\ [e EXCEPT !.ok = TRUE].op = "inject" /\ [e EXCEPT !.ok = TRUE].name = n
        /\ [e EXCEPT !.ok = TRUE].ok = TRUE /\ [e EXCEPT !.ok = TRUE].listed = {}
        /\ [e EXCEPT !.ok = TRUE].sidecar = e.sidecar
        /\ e.sidecar # Absent => /\ e.sidecar = Resolved(n) /\ Resolved(n) # Absent
                                 /\ Resolved(n)[1] # "bundled"
    BY <2>3, <2>r, EventOutcome
  <2> HIDE DEF r
  <2>5. CASE Load(n) = Absent
    BY <2>1, <2>2, <2>5 DEF Used
  <2>6. CASE Load(n) # Absent
    <3>1. last' = [e EXCEPT !.ok = TRUE]
      BY <2>1, <2>3, <2>6
    <3> QED
      BY <2>1, <2>4, <3>1 DEF Used
  <2> QED
    BY <2>5, <2>6
<1> QED
  BY <1>1, <1>2

LEMMA AuthoredOutcome ==
  ASSUME NEW op \in {"create", "import", "edit", "patch"}, NEW n, NEW c, NEW may \in BOOLEAN,
         NEW fail, may => n \in Names, Author(op, n, c, may, fail)
  PROVE  Authored(n, c)
<1> DEFINE dir == <<"project", "dir", n>>
           text == IF may /\ fail # "body" THEN c ELSE Absent
           ok == (may /\ fail # "body") /\ (op \in {"create", "import"} \/ fail = "none")
           sidecar == IF (may /\ fail # "body") /\ fail = "none"
                      THEN IF body[dir] # Absent THEN dir ELSE Flat(n)
                      ELSE Absent
<1>1. /\ body' = IF may /\ fail # "body" THEN [body EXCEPT ![Flat(n)] = c] ELSE body
      /\ last' = [Call(op, n) EXCEPT !.text = text, !.ok = ok, !.sidecar = sidecar]
      /\ UNCHANGED <<support, proposal, activations>>
  BY DEF Author, Done
<1>2. PICK okv \in BOOLEAN : okv = ok
  OBVIOUS
<1>3. PICK sc : sc = sidecar
  OBVIOUS
<1>4. PICK tx : tx = text
  OBVIOUS
<1>5. last' = [Call(op, n) EXCEPT !.text = tx, !.ok = okv, !.sidecar = sc]
  BY <1>1, <1>2, <1>3, <1>4
<1>6. last'.op = op /\ last'.name = n /\ last'.ok = okv /\ last'.listed = {}
      /\ last'.sidecar = sc /\ last'.text = tx
  <2>1. last' = [Shown(op, n, Absent) EXCEPT !.text = tx, !.ok = okv, !.sidecar = sc]
    BY <1>5, CallShown
  <2> QED
    BY <2>1 DEF Shown
<1>7. CASE may /\ fail # "body"
  <2>1. n \in Names /\ body' = [body EXCEPT ![Flat(n)] = c] /\ tx = c
        /\ sc \in {Absent, IF body[dir] # Absent THEN dir ELSE Flat(n)}
    BY <1>1, <1>3, <1>4, <1>7
  <2> QED
    BY <1>1, <1>2, <1>6, <2>1 DEF Authored
<1>8. CASE ~(may /\ fail # "body")
  <2>1. body' = body /\ okv = FALSE /\ sc = Absent
    BY <1>1, <1>2, <1>3, <1>8
  <2> QED
    BY <1>1, <1>2, <1>6, <2>1 DEF Authored
<1> QED
  BY <1>7, <1>8

LEMMA AuthoringOutcome ==
  ASSUME NEW c \in Texts, NEW fail,
         \/ Import(c, fail)
         \/ \E n \in Names : Create(n, c, fail) \/ Edit(n, c, fail) \/ Patch(n, c, fail)
  PROVE  \E n \in Names \cup {Absent} : Authored(n, c)
<1>1. CASE Import(c, fail)
  <2>1. PICK n \in Names \cup {Absent} : n = c.name
    BY CatalogAssumption
  <2>2. PICK may \in BOOLEAN : may = (c.name # Absent /\ MayCreate(c.name, c))
    OBVIOUS
  <2>3. Author("import", n, c, may, fail) /\ (may => n \in Names)
    BY <1>1, <2>1, <2>2 DEF Import
  <2> QED
    BY <2>3, AuthoredOutcome
<1>2. ASSUME NEW n \in Names, Create(n, c, fail) PROVE Authored(n, c)
  <2>1. PICK may \in BOOLEAN : may = MayCreate(n, c)
    BY DEF MayCreate
  <2>2. Author("create", n, c, may, fail)
    BY <1>2, <2>1 DEF Create
  <2> QED
    BY <2>2, AuthoredOutcome
<1>3. ASSUME NEW n \in Names, Edit(n, c, fail) PROVE Authored(n, c)
  <2>1. PICK may \in BOOLEAN : may = MayEdit(n, c)
    BY DEF MayEdit
  <2>2. Author("edit", n, c, may, fail)
    BY <1>3, <2>1 DEF Edit
  <2> QED
    BY <2>2, AuthoredOutcome
<1>4. ASSUME NEW n \in Names, Patch(n, c, fail) PROVE Authored(n, c)
  <2>1. PICK may \in BOOLEAN : may = (Load(n) # Absent /\ MayEdit(n, c))
    OBVIOUS
  <2>2. Author("patch", n, c, may, fail)
    BY <1>4, <2>1 DEF Patch
  <2> QED
    BY <2>2, AuthoredOutcome
<1> QED
  BY <1>1, <1>2, <1>3, <1>4

LEMMA FiledOutcome ==
  ASSUME NEW n \in Names, NEW ok \in BOOLEAN, NEW fail, WriteFile(n, ok, fail)
  PROVE  Filed(n)
<1> DEFINE written == body[Flat(n)] # Absent /\ ok /\ fail # "body"
<1>1. /\ support' = IF written THEN [support EXCEPT ![DirOf(Flat(n))] = n] ELSE support
      /\ last' = [Call("write_file", n) EXCEPT
                   !.ok = written /\ fail = "none",
                   !.sidecar = IF written /\ fail = "none" THEN Resolved(n) ELSE Absent]
      /\ UNCHANGED <<body, proposal, activations>>
  BY DEF WriteFile, Done
<1>2. PICK okv \in BOOLEAN : okv = (written /\ fail = "none")
  OBVIOUS
<1>3. PICK sc : sc = IF written /\ fail = "none" THEN Resolved(n) ELSE Absent
  OBVIOUS
<1>4. last' = [Call("write_file", n) EXCEPT !.ok = okv, !.sidecar = sc]
  BY <1>1, <1>2, <1>3
<1>5. /\ last'.op = "write_file" /\ last'.name = n /\ last'.ok = okv /\ last'.listed = {}
      /\ last'.sidecar = sc
  <2>1. last' = [Shown("write_file", n, Absent) EXCEPT !.ok = okv, !.sidecar = sc]
    BY <1>4, CallShown
  <2> QED
    BY <2>1 DEF Shown
<1>6. CASE okv = TRUE
  BY <1>1, <1>2, <1>3, <1>5, <1>6 DEF Filed
<1>7. CASE okv = FALSE
  BY <1>1, <1>2, <1>3, <1>5, <1>7 DEF Filed
<1> QED
  BY <1>6, <1>7

LEMMA ListedOutcome ==
  ASSUME NEW listed \in Listings, List(listed)
  PROVE  Listed
<1>1. last' = [Call("list", Absent) EXCEPT !.listed = listed]
      /\ UNCHANGED <<body, support, proposal, activations>>
  BY DEF List, Done
<1>2. last'.op = "list" /\ last'.ok = TRUE /\ last'.sidecar = Absent /\ last'.listed = listed
  <2>1. last' = [Shown("list", Absent, Absent) EXCEPT !.listed = listed]
    BY <1>1, CallShown
  <2> QED
    BY <2>1 DEF Shown
<1> QED
  BY <1>1, <1>2 DEF Listed

LEMMA StubsOutcome ==
  ASSUME NEW registry, NEW listed, NEW broken, Autostub(registry, listed, broken)
  PROVE  Stubs(registry, listed, broken)
<1>1. PICK pass : pass = Stubbed(registry, listed, broken)
  OBVIOUS
<1>2. PICK ok \in BOOLEAN : ok = (pass.errors = 0)
  OBVIOUS
<1>3. /\ proposal' = pass.proposal
      /\ last' = [Call("autostub", Absent) EXCEPT !.ok = ok, !.made = pass.made, !.registry = registry]
      /\ UNCHANGED <<body, support, activations>>
  BY <1>1, <1>2 DEF Autostub, Done
<1>4. /\ last'.op = "autostub" /\ last'.sidecar = Absent /\ last'.listed = {} /\ last'.ok = ok
      /\ last'.made = pass.made /\ last'.registry = registry
  <2>1. last' = [Shown("autostub", Absent, Absent) EXCEPT !.ok = ok, !.made = pass.made,
                                                          !.registry = registry]
    BY <1>3, CallShown
  <2> QED
    BY <2>1 DEF Shown
<1> QED
  BY <1>1, <1>2, <1>3, <1>4 DEF Stubs

LEMMA RefusedOutcome ==
  ASSUME AutostubRefused
  PROVE  Refused
<1>1. last' = [Call("autostub", Absent) EXCEPT !.ok = FALSE]
      /\ UNCHANGED <<body, support, proposal, activations>>
  BY DEF AutostubRefused, Done
<1>2. /\ last'.op = "autostub" /\ last'.sidecar = Absent /\ last'.listed = {}
      /\ last'.ok = FALSE /\ last'.made = {}
  <2>1. last' = [Shown("autostub", Absent, Absent) EXCEPT !.ok = FALSE]
    BY <1>1, CallShown
  <2> QED
    BY <2>1 DEF Shown
<1> QED
  BY <1>1, <1>2 DEF Refused

LEMMA JudgedOutcome ==
  ASSUME NEW n, NEW dir, EvalRun(n, dir)
  PROVE  Judged(n, dir)
<1>1. PICK e : e = Evaluated(dir)
  OBVIOUS
<1>2. PICK ok \in BOOLEAN : ok = (Found(n) /\ dir # Absent /\ Usable(e))
  OBVIOUS
<1>3. PICK v, d : /\ v = (IF Found(n) /\ dir # Absent THEN e ELSE Absent)
                  /\ d = (IF dir = Absent THEN <<>> ELSE dir)
  OBVIOUS
<1>4. /\ last' = [Call("eval", n) EXCEPT !.ok = ok, !.eval = v, !.dir = d]
      /\ UNCHANGED <<body, support, proposal, activations>>
  BY <1>1, <1>2, <1>3 DEF EvalRun, Done
<1>5. /\ last'.op = "eval" /\ last'.sidecar = Absent /\ last'.listed = {} /\ last'.ok = ok
      /\ last'.eval = v /\ last'.dir = d
  <2>1. last' = [Shown("eval", n, Absent) EXCEPT !.ok = ok, !.eval = v, !.dir = d]
    BY <1>4, CallShown
  <2> QED
    BY <2>1 DEF Shown
<1>6. ok => dir # Absent /\ d = dir /\ v = e /\ Usable(e)
  BY <1>2, <1>3
<1> QED
  BY <1>1, <1>2, <1>4, <1>5, <1>6 DEF Judged

LEMMA Outcomes ==
  ASSUME Next
  PROVE  \/ Returned
         \/ /\ calls < MaxCalls /\ calls' = calls + 1
            /\ \/ Listed
               \/ \E n \in Names : Used(n) \/ Filed(n)
               \/ \E n \in Names \cup {Absent}, c \in Texts : Authored(n, c)
               \/ \E registry \in Registries, listed \in Listings, broken \in SUBSET Slugs :
                    Stubs(registry, listed, broken)
               \/ Refused
               \/ \E n \in Names : \E dir \in EvalDirs[n] \cup {Absent} : Judged(n, dir)
<1> DEFINE Counted == calls < MaxCalls /\ calls' = calls + 1
<1>1. ASSUME NEW listed \in Listings, List(listed) PROVE Counted /\ Listed
  BY <1>1, ListedOutcome DEF List, Done
<1>2. ASSUME NEW n \in Names, NEW io \in BOOLEAN, Inject(n, io) \/ RecordView(n, io)
      PROVE  Counted /\ Used(n)
  BY <1>2, UsedOutcome DEF Inject, RecordView, Done
<1>3. ASSUME NEW c \in Texts, NEW fail,
             \/ Import(c, fail)
             \/ \E n \in Names : Create(n, c, fail) \/ Edit(n, c, fail) \/ Patch(n, c, fail)
      PROVE  Counted /\ \E n \in Names \cup {Absent} : Authored(n, c)
  BY <1>3, AuthoringOutcome DEF Import, Create, Edit, Patch, Author, Done
<1>4. ASSUME NEW n \in Names, NEW ok \in BOOLEAN, NEW fail, WriteFile(n, ok, fail)
      PROVE  Counted /\ Filed(n)
  BY <1>4, FiledOutcome DEF WriteFile, Done
<1>5. ASSUME NEW registry \in Registries, NEW listed \in Listings, NEW broken \in SUBSET Slugs,
             Autostub(registry, listed, broken)
      PROVE  Counted /\ Stubs(registry, listed, broken)
  <2>1. Counted
    BY <1>5 DEF Autostub, Done
  <2> QED
    BY <1>5, <2>1, StubsOutcome
<1>6. ASSUME AutostubRefused PROVE Counted /\ Refused
  BY <1>6, RefusedOutcome DEF AutostubRefused, Done
<1>7. ASSUME NEW n \in Names, NEW dir \in EvalDirs[n] \cup {Absent}, EvalRun(n, dir)
      PROVE  Counted /\ Judged(n, dir)
  BY <1>7, JudgedOutcome DEF EvalRun, Done
<1>8. ASSUME Return PROVE Returned
  BY <1>8 DEF Return, Returned
<1> HIDE DEF Counted
<1>9. \/ \E listed \in Listings : List(listed)
      \/ \E n \in Names, io \in BOOLEAN : Inject(n, io) \/ RecordView(n, io)
      \/ \E c \in Texts, fail \in Fails :
           \/ Import(c, fail)
           \/ \E n \in Names : Create(n, c, fail) \/ Edit(n, c, fail) \/ Patch(n, c, fail)
      \/ \E n \in Names, ok \in BOOLEAN, fail \in Fails : WriteFile(n, ok, fail)
      \/ \E registry \in Registries, listed \in Listings, broken \in SUBSET Slugs :
           Autostub(registry, listed, broken)
      \/ AutostubRefused
      \/ \E n \in Names : \E dir \in EvalDirs[n] \cup {Absent} : EvalRun(n, dir)
      \/ Return
  BY DEF Next
<1>10. \/ Returned
       \/ Counted /\ Listed
       \/ Counted /\ \E n \in Names : Used(n) \/ Filed(n)
       \/ Counted /\ \E n \in Names \cup {Absent}, c \in Texts : Authored(n, c)
       \/ Counted /\ \E registry \in Registries, listed \in Listings, broken \in SUBSET Slugs :
                       Stubs(registry, listed, broken)
       \/ Counted /\ Refused
       \/ Counted /\ \E n \in Names : \E dir \in EvalDirs[n] \cup {Absent} : Judged(n, dir)
  BY <1>1, <1>2, <1>3, <1>4, <1>5, <1>6, <1>7, <1>8, <1>9
<1> QED
  BY <1>10 DEF Counted

(* What a pass over a whole registry has done when it ends.                 *)
LEMMA PassSpec ==
  ASSUME proposal \in Proposals, NEW registry \in Seq(Entries), NEW listed, NEW broken, NEW pass,
         pass = Stubbed(registry, listed, broken)
  PROVE  /\ pass \in Accounts
         /\ \A s \in Slugs : proposal[s] # Absent => pass.proposal[s] = proposal[s]
         /\ \A t \in pass.made : t \in Tools /\ ~Covered(t, listed)
         /\ pass.errors = 0 => \A t \in ToSet(registry) \ {Unnamed} :
                                 Covered(t, listed) \/ pass.proposal[Slug[t]] # Absent
<1>1. PICK after \in [0..Len(registry) -> Accounts] :
           /\ after[0] = Fresh
           /\ \A i \in 1..Len(registry) : after[i] = Stub(after[i - 1], registry[i], listed, broken)
           /\ Stubbed(registry, listed, broken) = after[Len(registry)]
  BY StubbedRuns
<1>2. PICK n \in Nat : n = Len(registry)
  BY LenProperties
<1>3. \A i \in 1..n : registry[i] \in Entries
  BY <1>2, LenProperties
<1> DEFINE Kept(a) == \A s \in Slugs : proposal[s] # Absent => a.proposal[s] = proposal[s]
           Sound(a) == \A t \in a.made : t \in Tools /\ ~Covered(t, listed)
           Full(a, i) == a.errors = 0 =>
                           \A j \in 1..i : registry[j] # Unnamed =>
                             Covered(registry[j], listed) \/ a.proposal[Slug[registry[j]]] # Absent
           S == {i \in 0..n : Kept(after[i]) /\ Sound(after[i]) /\ Full(after[i], i)}
<1>4. 0 \in S
  <2>1. after[0].proposal = proposal /\ after[0].made = {}
    BY <1>1 DEF Fresh
  <2> QED
    BY <1>2, <2>1
<1>5. ASSUME NEW i \in 0..(n - 1), i \in S PROVE i + 1 \in S
  <2>1. i + 1 \in 0..n /\ i + 1 \in 1..n /\ (i + 1) - 1 = i /\ i \in 0..n
    BY <1>2
  <2>2. PICK a \in Accounts : a = after[i]
    BY <1>1, <1>2, <2>1
  <2>3. PICK t \in Entries : t = registry[i + 1]
    BY <1>3, <2>1
  <2>4. PICK r : r = after[i + 1]
    OBVIOUS
  <2>5. r = Stub(a, t, listed, broken)
    BY <1>1, <1>2, <2>1, <2>2, <2>3, <2>4
  <2>6. /\ \A s \in Slugs : a.proposal[s] # Absent => r.proposal[s] = a.proposal[s]
        /\ \A m \in r.made \ a.made : m \in Tools /\ ~Covered(m, listed)
        /\ r.errors = 0 => a.errors = 0
        /\ r.errors = 0 /\ t # Unnamed => Covered(t, listed) \/ r.proposal[Slug[t]] # Absent
    BY <2>5, StubStep
  <2>7. Kept(a) /\ Sound(a) /\ Full(a, i)
    BY <1>5, <2>2
  <2>8. Kept(r) /\ Sound(r)
    BY <2>6, <2>7
  <2>9. Full(r, i + 1)
    <3> SUFFICES ASSUME r.errors = 0, NEW j \in 1..(i + 1), registry[j] # Unnamed
                 PROVE  Covered(registry[j], listed) \/ r.proposal[Slug[registry[j]]] # Absent
      OBVIOUS
    <3>1. CASE j = i + 1
      BY <2>3, <2>6, <3>1
    <3>2. CASE j # i + 1
      <4>1. j \in 1..i /\ j \in 1..n
        BY <1>2, <2>1, <3>2
      <4>2. Covered(registry[j], listed) \/ a.proposal[Slug[registry[j]]] # Absent
        BY <2>6, <2>7, <4>1
      <4>3. Slug[registry[j]] \in Slugs
        BY <1>3, <4>1 DEF Slugs, Entries
      <4> QED
        BY <2>6, <4>2, <4>3
    <3> QED
      BY <3>1, <3>2
  <2> QED
    BY <2>1, <2>4, <2>8, <2>9
<1>6. n \in S
  <2> HIDE DEF S
  <2>1. 0..n \subseteq S
    BY <1>2, <1>4, <1>5, UpTo
  <2> QED
    BY <1>2, <2>1
<1>7. pass = after[n] /\ pass \in Accounts
  BY <1>1, <1>2
<1>8. Kept(pass) /\ Sound(pass) /\ Full(pass, n)
  BY <1>6, <1>7
<1>9. \A t \in ToSet(registry) : \E j \in 1..n : t = registry[j]
  BY <1>2, LenProperties DEF ToSet
<1> QED
  BY <1>7, <1>8, <1>9

-----------------------------------------------------------------------------
(* Type correctness.                                                        *)

LEMMA FlatSlot ==
  ASSUME NEW n \in Names
  PROVE  /\ Flat(n) \in Slots /\ <<"project", "dir", n>> \in Slots
         /\ Flat(n) # Absent /\ <<"project", "dir", n>> # Absent
         /\ DirOf(Flat(n)) = <<"project", Absent>> /\ DirOf(Flat(n)) \in Dirs
  BY TierNames, CatalogAssumption DEF Flat, DirOf, Dirs

LEMMA SnapshotEntries ==
  ASSUME NEW registry \in Registries
  PROVE  registry \in Seq(Entries)
  BY RegistryAssumption DEF Entries

LEMMA TypeNext ==
  ASSUME TypeInv, [Next]_vars
  PROVE  TypeInv'
<1> USE DEF Proposals
<1>1. CASE UNCHANGED vars
  BY <1>1 DEF TypeInv, TypeOK, vars
<1>2. CASE Returned
  BY <1>2, NothingOK DEF Returned, TypeInv, TypeOK, CallOK
<1>t. /\ body \in [Slots -> Files] /\ support \in [Dirs -> Names \cup {Absent}]
      /\ proposal \in [Slugs -> Tools \cup {Absent}]
  BY DEF TypeInv, TypeOK
<1> DEFINE Counted == calls < MaxCalls /\ calls' = calls + 1
<1>3. ASSUME Counted, Listed PROVE TypeInv'
  <2>1. CallOK(last')
    BY <1>3, ListingStages DEF Listed, CallOK
  <2>2. UNCHANGED <<body, support, proposal, activations>>
    BY <1>3 DEF Listed
  <2> QED
    BY <1>t, <1>3, <2>1, <2>2, TypeStep
<1>4. ASSUME Counted, NEW n \in Names, Used(n) PROVE TypeInv'
  <2>1. last'.ok \in BOOLEAN /\ last'.sidecar \in Slots \cup {Absent} /\ last'.listed = {}
    BY <1>4, ResolvedSlot DEF Used
  <2>2. CallOK(last')
    BY <2>1, UnlistedOK
  <2>3. /\ activations' = activations \/ activations' = activations + 1
        /\ UNCHANGED <<body, support, proposal>>
    BY <1>4 DEF Used
  <2> QED
    BY <1>t, <1>4, <2>2, <2>3, TypeStep
<1>5. ASSUME Counted, NEW n \in Names, Filed(n) PROVE TypeInv'
  <2>1. last'.ok \in BOOLEAN /\ last'.sidecar \in Slots \cup {Absent} /\ last'.listed = {}
    BY <1>5, ResolvedSlot DEF Filed
  <2>2. CallOK(last')
    BY <2>1, UnlistedOK
  <2>3. /\ support' \in {support, [support EXCEPT ![DirOf(Flat(n))] = n]}
        /\ UNCHANGED <<body, proposal, activations>>
    BY <1>5 DEF Filed
  <2>4. support' \in [Dirs -> Names \cup {Absent}]
    BY <1>t, <2>3
  <2> QED
    BY <1>t, <1>5, <2>2, <2>3, <2>4, TypeStep
<1>6. ASSUME Counted, NEW n, NEW c \in Texts, Authored(n, c) PROVE TypeInv'
  <2>1. last'.ok \in BOOLEAN /\ last'.listed = {} /\ UNCHANGED <<support, proposal, activations>>
    BY <1>6 DEF Authored
  <2>2. CASE body' = body /\ last'.sidecar = Absent
    <3>1. CallOK(last')
      BY <2>1, <2>2, UnlistedOK
    <3> QED
      BY <1>t, <1>6, <2>1, <2>2, <3>1, TypeStep
  <2>3. CASE /\ n \in Names /\ body' = [body EXCEPT ![Flat(n)] = c]
             /\ last'.sidecar \in {Absent, IF body[<<"project", "dir", n>>] # Absent
                                           THEN <<"project", "dir", n>> ELSE Flat(n)}
    <3>1. last'.sidecar \in Slots \cup {Absent}
      BY <2>3, FlatSlot
    <3>2. CallOK(last')
      BY <2>1, <3>1, UnlistedOK
    <3>3. body' \in [Slots -> Files]
      BY <1>t, <2>3 DEF Files
    <3> QED
      BY <1>t, <1>6, <2>1, <3>2, <3>3, TypeStep
  <2> QED
    BY <1>6, <2>2, <2>3 DEF Authored
<1>7. ASSUME Counted, NEW registry \in Registries, NEW listed, NEW broken,
             Stubs(registry, listed, broken)
      PROVE  TypeInv'
  <2>1. /\ last'.sidecar = Absent /\ last'.listed = {} /\ last'.ok \in BOOLEAN
        /\ UNCHANGED <<body, support, activations>>
    BY <1>7 DEF Stubs
  <2>2. CallOK(last')
    BY <2>1, UnlistedOK
  <2>3. PICK pass : pass = Stubbed(registry, listed, broken)
    OBVIOUS
  <2>4. pass \in Accounts
    BY <1>t, <2>3, SnapshotEntries, PassSpec
  <2>5. proposal' \in [Slugs -> Tools \cup {Absent}]
    BY <1>7, <2>3, <2>4 DEF Stubs, Accounts
  <2> QED
    BY <1>t, <1>7, <2>1, <2>2, <2>5, TypeStep
<1>8. ASSUME Counted, Refused PROVE TypeInv'
  <2>1. /\ last'.ok \in BOOLEAN /\ last'.sidecar = Absent /\ last'.listed = {}
        /\ UNCHANGED <<body, support, proposal, activations>>
    BY <1>8 DEF Refused
  <2>2. CallOK(last')
    BY <2>1, UnlistedOK
  <2> QED
    BY <1>t, <1>8, <2>1, <2>2, TypeStep
<1>9. ASSUME Counted, NEW n, NEW dir, Judged(n, dir) PROVE TypeInv'
  <2>1. /\ last'.ok \in BOOLEAN /\ last'.sidecar = Absent /\ last'.listed = {}
        /\ UNCHANGED <<body, support, proposal, activations>>
    BY <1>9 DEF Judged
  <2>2. CallOK(last')
    BY <2>1, UnlistedOK
  <2> QED
    BY <1>t, <1>9, <2>1, <2>2, TypeStep
<1> QED
  BY <1>1, <1>2, <1>3, <1>4, <1>5, <1>6, <1>7, <1>8, <1>9, Outcomes

LEMMA TypeInit ==
  ASSUME Init
  PROVE  TypeInv
<1>1. last.ok \in BOOLEAN /\ last.sidecar \in Slots \cup {Absent} /\ last.listed \in SUBSET Names
      /\ Cardinality(last.listed) <= MaxSkills
  BY NothingOK DEF Init, CallOK
<1>2. body \in [Slots -> Files] /\ activations = 0 /\ calls = 0 /\ MaxCalls \in Nat
  BY CatalogAssumption DEF Init
<1>3. support \in [Dirs -> Names \cup {Absent}] /\ proposal \in [Slugs -> Tools \cup {Absent}]
  BY DEF Init
<1> QED
  BY <1>1, <1>2, <1>3 DEF TypeInv, TypeOK

(* Whatever calls are made, in whatever order: every file, proposal and     *)
(* sidecar is one that exists, a listing fits the caller's array, and       *)
(* s_skill_self_activations_total is no more than the calls made.           *)
THEOREM TypeCorrect == Spec => []TypeOK
<1>1. Spec => []TypeInv
  BY TypeInit, TypeNext, PTL DEF Spec
<1>2. TypeInv => TypeOK
  BY DEF TypeInv
<1> QED
  BY <1>1, <1>2, PTL

-----------------------------------------------------------------------------
(* The file a name stands for.                                              *)

(* The project's flat file hides everything but the project's directory.    *)
LEMMA FlatWins ==
  ASSUME NEW n \in Names, NEW b, b[Flat(n)] # Absent
  PROVE  Lookup(b, n) = IF b[<<"project", "dir", n>>] # Absent THEN <<"project", "dir", n>> ELSE Flat(n)
  BY DEF Lookup, Flat

SidecarRight == last.sidecar # Absent =>
                  last.sidecar = Resolved(last.name) /\ last.sidecar[1] # "bundled"
WritesFound ==
  last.ok /\ last.op \in {"create", "import", "edit", "patch", "write_file"} /\ ~HasDir(last.name) =>
    IF last.op = "write_file" THEN SupportLoad(last.name) = last.name ELSE Load(last.name) = last.text

LEMMA AgreeAuthored ==
  ASSUME TypeOK, NEW n, NEW c \in Texts, Authored(n, c)
  PROVE  SidecarRight' /\ WritesFound'
<1>1. last'.op \in {"create", "import", "edit", "patch"} /\ last'.name = n
  BY DEF Authored
<1>2. CASE last'.ok = FALSE /\ last'.sidecar = Absent
  BY <1>2 DEF SidecarRight, WritesFound
<1>3. CASE /\ n \in Names /\ body' = [body EXCEPT ![Flat(n)] = c] /\ last'.text = c
           /\ last'.sidecar \in {Absent, IF body[<<"project", "dir", n>>] # Absent
                                         THEN <<"project", "dir", n>> ELSE Flat(n)}
  <2> DEFINE dir == <<"project", "dir", n>>
  <2>1. /\ Flat(n) \in Slots /\ dir \in Slots /\ Flat(n) # Absent /\ dir # Absent /\ Flat(n) # dir
        /\ Flat(n)[1] = "project" /\ dir[1] = "project"
    BY <1>3, FlatSlot DEF Flat
  <2>2. body'[Flat(n)] = c /\ body'[dir] = body[dir] /\ c # Absent /\ c # Empty
    BY <1>3, <2>1, CatalogAssumption DEF TypeOK
  <2>3. Resolved(n)' = IF body'[dir] # Absent THEN dir ELSE Flat(n)
    BY <1>3, <2>2, FlatWins, Resolves
  <2>4. SidecarRight'
    <3>1. last'.sidecar # Absent => last'.sidecar = Resolved(n)' /\ last'.sidecar[1] # "bundled"
      BY <1>3, <2>1, <2>2, <2>3
    <3> QED
      BY <1>1, <3>1 DEF SidecarRight
  <2>5. WritesFound'
    <3>1. body'[dir] = Absent => Load(n)' = c
      <4> SUFFICES ASSUME body'[dir] = Absent PROVE Load(n)' = c
        OBVIOUS
      <4>1. Resolved(n)' = Flat(n)
        BY <2>3
      <4>2. Found(n)'
        BY <1>3, <2>1, <4>1 DEF Found
      <4> QED
        BY <2>2, <4>1, <4>2 DEF Load
    <3>2. last'.op # "write_file"
      BY <1>1
    <3> QED
      BY <1>1, <1>3, <3>1, <3>2 DEF WritesFound, HasDir
  <2> QED
    BY <2>4, <2>5
<1> QED
  BY <1>2, <1>3 DEF Authored

LEMMA AgreeFiled ==
  ASSUME TypeOK, NEW n \in Names, Filed(n)
  PROVE  SidecarRight' /\ WritesFound'
<1>1. last'.op = "write_file" /\ last'.name = n /\ body' = body
  BY DEF Filed
<1>2. CASE last'.ok = FALSE /\ last'.sidecar = Absent
  BY <1>2 DEF SidecarRight, WritesFound
<1>3. CASE /\ body[Flat(n)] # Absent /\ support' = [support EXCEPT ![DirOf(Flat(n))] = n]
           /\ last'.sidecar = Resolved(n)
  <2> DEFINE dir == <<"project", "dir", n>>
  <2>1. /\ Flat(n) # Absent /\ dir # Absent /\ Flat(n)[1] = "project" /\ dir[1] = "project"
        /\ DirOf(Flat(n)) \in Dirs
    BY <1>3, FlatSlot DEF Flat
  <2>2. Resolved(n)' = Resolved(n) /\ Resolved(n) = IF body[dir] # Absent THEN dir ELSE Flat(n)
    BY <1>1, <1>3, FlatWins, Resolves
  <2>3. SidecarRight'
    BY <1>1, <1>3, <2>1, <2>2 DEF SidecarRight
  <2>4. support'[DirOf(Flat(n))] = n
    BY <1>3, <2>1 DEF TypeOK
  <2>5. WritesFound'
    <3>1. body'[dir] = Absent => SupportLoad(n)' = n
      <4> SUFFICES ASSUME body'[dir] = Absent PROVE SupportLoad(n)' = n
        OBVIOUS
      <4>1. Resolved(n)' = Flat(n)
        BY <1>1, <2>2
      <4>2. Found(n)'
        BY <2>1, <4>1 DEF Found
      <4>3. DirOf(Resolved(n))' = DirOf(Flat(n))
        BY <4>1 DEF DirOf
      <4> QED
        BY <2>4, <4>2, <4>3 DEF SupportLoad
    <3> QED
      BY <1>1, <3>1 DEF WritesFound, HasDir
  <2> QED
    BY <2>3, <2>5
<1> QED
  BY <1>2, <1>3 DEF Filed

LEMMA AgreeNext ==
  ASSUME TypeOK, CallsAgreeOnFile, [Next]_vars
  PROVE  CallsAgreeOnFile'
<1> SUFFICES SidecarRight' /\ WritesFound'
  BY DEF CallsAgreeOnFile, SidecarRight, WritesFound
<1>1. CASE UNCHANGED vars
  <2>1. \A n : Resolved(n)' = Resolved(n)
    BY <1>1, Resolves DEF vars
  <2>2. \A n : Load(n)' = Load(n) /\ SupportLoad(n)' = SupportLoad(n) /\ HasDir(n)' = HasDir(n)
    BY <1>1, <2>1 DEF vars, Load, SupportLoad, Found, DirOf, HasDir
  <2>3. SidecarRight /\ WritesFound
    BY DEF CallsAgreeOnFile, SidecarRight, WritesFound
  <2>4. last' = last
    BY <1>1 DEF vars
  <2> QED
    BY <2>1, <2>2, <2>3, <2>4 DEF SidecarRight, WritesFound
<1>2. ASSUME last'.op \in {"none", "list", "autostub", "eval"}, last'.sidecar = Absent
      PROVE  SidecarRight' /\ WritesFound'
  BY <1>2 DEF SidecarRight, WritesFound
<1>3. CASE Returned
  <2>1. last'.op = "none" /\ last'.sidecar = Absent
    BY <1>3 DEF Returned, Nothing
  <2> QED
    BY <1>2, <2>1
<1>4. CASE Listed
  BY <1>2, <1>4 DEF Listed
<1>5. ASSUME NEW n \in Names, Used(n) PROVE SidecarRight' /\ WritesFound'
  <2>1. Resolved(n)' = Resolved(n)
    BY <1>5, Resolves DEF Used
  <2>2. /\ last'.op \in {"inject", "view"} /\ last'.name = n
        /\ last'.sidecar # Absent => last'.sidecar = Resolved(n) /\ Resolved(n)[1] # "bundled"
    BY <1>5 DEF Used
  <2> QED
    BY <2>1, <2>2 DEF SidecarRight, WritesFound
<1>6. ASSUME NEW registry, NEW listed, NEW broken, Stubs(registry, listed, broken)
      PROVE  SidecarRight' /\ WritesFound'
  <2>1. last'.op = "autostub" /\ last'.sidecar = Absent
    BY <1>6 DEF Stubs
  <2> QED
    BY <1>2, <2>1
<1>7. CASE Refused
  BY <1>2, <1>7 DEF Refused
<1>8. ASSUME NEW n, NEW dir, Judged(n, dir) PROVE SidecarRight' /\ WritesFound'
  <2>1. last'.op = "eval" /\ last'.sidecar = Absent
    BY <1>8 DEF Judged
  <2> QED
    BY <1>2, <2>1
<1> QED
  BY <1>1, <1>3, <1>4, <1>5, <1>6, <1>7, <1>8, Outcomes, AgreeAuthored, AgreeFiled

(* All parts of skill.c mean the same file by a name, for any trees of      *)
(* skills in the three directories and after any calls: what authoring      *)
(* wrote is what is loaded unless the project also has the skill as a       *)
(* directory, a support file is found again, and the sidecar a call updated *)
(* is that of the file the name stands for.                                 *)
THEOREM CallsAgree == Spec => []CallsAgreeOnFile
<1>1. Init => CallsAgreeOnFile
  BY DEF Init, Nothing, CallsAgreeOnFile
<1> QED
  BY <1>1, AgreeNext, TypeCorrect, PTL DEF Spec

-----------------------------------------------------------------------------
(* Listings are complete.                                                   *)

(* What does not change while the files do not.                             *)
LEMMA Steady ==
  ASSUME body' = body
  PROVE  /\ \A n : Resolved(n)' = Resolved(n) /\ (Found(n)' <=> Found(n)) /\ Load(n)' = Load(n)
         /\ \A n : Rank(n)' = Rank(n)
         /\ Visible' = Visible
         /\ \A t, l : Mentioned(t, l)' <=> Mentioned(t, l)
         /\ \A t, l : Covered(t, l)' <=> Covered(t, l)
<1>1. \A n : Resolved(n)' = Resolved(n)
  BY Resolves
<1>2. \A n : Found(n)' <=> Found(n)
  BY <1>1 DEF Found
<1>3. \A n : Load(n)' = Load(n)
  BY <1>1, <1>2 DEF Load
<1>4. \A n : Rank(n)' = Rank(n)
  BY <1>1 DEF Rank, SelectInSeq
<1>5. Visible' = Visible
  BY <1>2 DEF Visible
<1>6. \A t, l : Mentioned(t, l)' <=> Mentioned(t, l)
  BY <1>3 DEF Mentioned
<1>7. \A t, l : Covered(t, l)' <=> Covered(t, l)
  BY <1>2, <1>6 DEF Covered
<1> QED
  BY <1>1, <1>2, <1>3, <1>4, <1>5, <1>6, <1>7

LEMMA TierRank ==
  ASSUME NEW n
  PROVE  /\ Resolved(n)[1] = "project" => Rank(n) = 1
         /\ Resolved(n)[1] = "user" => Rank(n) = 2
         /\ Resolved(n)[1] = "bundled" => Rank(n) = 3
<1> DEFINE I == {i \in 1..Len(Tiers) : Tiers[i] = Resolved(n)[1]}
<1>1. Rank(n) = IF I # {} THEN Min(I) ELSE 0
  BY DEF Rank, SelectInSeq
<1>2. Len(Tiers) = 3 /\ Tiers[1] = "project" /\ Tiers[2] = "user" /\ Tiers[3] = "bundled"
  BY DEF Tiers
<1>3. \A i : i \in I <=> i \in {1, 2, 3} /\ Tiers[i] = Resolved(n)[1]
  BY <1>2
<1>4. I \subseteq Nat
  OBVIOUS
<1> HIDE DEF I
<1>5. ASSUME NEW k \in {1, 2, 3}, Resolved(n)[1] = Tiers[k] PROVE Rank(n) = k
  <2>1. k \in I /\ \A i \in I : k <= i
    BY <1>2, <1>3, <1>5
  <2>2. Min(I) = k
    BY <1>4, <2>1, LeastIndex
  <2> QED
    BY <1>1, <2>1, <2>2
<1> QED
  BY <1>2, <1>5

(* The first directory that has a name is the one it stands for.            *)
LEMMA TierFound ==
  ASSUME NEW n \in Names
  PROVE  /\ n \in InTier("project") => Resolved(n)[1] = "project"
         /\ n \in InTier("user") \ InTier("project") => Resolved(n)[1] = "user"
         /\ n \in InTier("bundled") \ (InTier("user") \cup InTier("project")) =>
              Resolved(n)[1] = "bundled"
         /\ n \in Visible <=> n \in InTier("project") \cup InTier("user") \cup InTier("bundled")
<1>1. \A tier : n \in InTier(tier) <=> body[<<tier, "dir", n>>] # Absent \/ body[<<tier, "flat", n>>] # Absent
  BY TierNames DEF InTier
<1>2. Resolved(n) = Lookup(body, n)
  BY Resolves
<1>3. n \in Visible <=> Resolved(n) # Absent
  BY DEF Visible, Found
<1>4. Resolved(n) # Absent <=> \E t \in {"project", "user", "bundled"}, f \in {"dir", "flat"} :
                                 body[<<t, f, n>>] # Absent
  BY ResolvedSlot
<1>5. n \in InTier("project") => Resolved(n)[1] = "project"
  BY <1>1, <1>2 DEF Lookup
<1>6. n \in InTier("user") \ InTier("project") => Resolved(n)[1] = "user"
  BY <1>1, <1>2 DEF Lookup
<1>7. n \in InTier("bundled") \ (InTier("user") \cup InTier("project")) => Resolved(n)[1] = "bundled"
  BY <1>1, <1>2 DEF Lookup
<1>8. n \in Visible <=> n \in InTier("project") \cup InTier("user") \cup InTier("bundled")
  BY <1>1, <1>3, <1>4
<1> QED
  BY <1>5, <1>6, <1>7, <1>8

(* What skill_list returns.                                                 *)
LEMMA ListingSpec ==
  ASSUME NEW l \in Listings
  PROVE  /\ l \subseteq Visible
         /\ Cardinality(l) = Min({MaxSkills, Cardinality(Visible)})
         /\ Cardinality(Visible) <= MaxSkills => l = Visible
         /\ \A in \in l, out \in Visible \ l : Rank(in) <= Rank(out)
<1> DEFINE P == InTier("project")
           U == InTier("user")
           B == InTier("bundled")
<1>0. PICK l1 \in SUBSET Names, l2 \in SUBSET Names :
              /\ l1 \subseteq InTier("project")
              /\ l2 \subseteq l1 \cup InTier("user")
              /\ l \subseteq l2 \cup InTier("bundled")
              /\ l1 \subseteq l2 /\ l2 \subseteq l
              /\ InTier("project") \subseteq l1 \/ Cardinality(l1) = MaxSkills
              /\ InTier("user") \subseteq l2 \/ Cardinality(l2) = MaxSkills
              /\ InTier("bundled") \subseteq l \/ Cardinality(l) = MaxSkills
  BY ListingStages, Zenon
<1>1. /\ l1 \subseteq P /\ l2 \subseteq l1 \cup U /\ l \subseteq l2 \cup B
      /\ l1 \subseteq l2 /\ l2 \subseteq l
      /\ P \subseteq l1 \/ Cardinality(l1) = MaxSkills
      /\ U \subseteq l2 \/ Cardinality(l2) = MaxSkills
      /\ B \subseteq l \/ Cardinality(l) = MaxSkills
  BY <1>0
<1>2. l \in SUBSET Names /\ Cardinality(l) <= MaxSkills
  BY ListingStages
<1>3. P \subseteq Names /\ U \subseteq Names /\ B \subseteq Names /\ Visible \subseteq Names
  BY DEF InTier, Visible
<1>4. Visible = P \cup U \cup B
  BY <1>3, TierFound
<1>5. \A n \in Visible : /\ n \in P => Rank(n) = 1
                         /\ n \in U \ P => Rank(n) = 2
                         /\ n \in B \ (U \cup P) => Rank(n) = 3
  BY <1>3, TierFound, TierRank
<1> HIDE DEF P, U, B
<1>6. IsFiniteSet(Names) /\ MaxSkills \in Nat
  BY CatalogAssumption
<1>7. /\ IsFiniteSet(Visible) /\ IsFiniteSet(l) /\ IsFiniteSet(l1) /\ IsFiniteSet(l2)
      /\ Cardinality(Visible) \in Nat /\ Cardinality(l) \in Nat
      /\ Cardinality(l1) \in Nat /\ Cardinality(l2) \in Nat
  BY <1>2, <1>3, <1>6, FS_Subset, FS_CardinalityType
<1>8. l \subseteq Visible
  BY <1>1, <1>4
<1>9. Cardinality(l) <= Cardinality(Visible)
  BY <1>7, <1>8, FS_Subset
<1>10. ASSUME NEW k \in SUBSET l, Cardinality(k) = MaxSkills PROVE k = l /\ Cardinality(l) = MaxSkills
  <2>1. Cardinality(k) <= Cardinality(l)
    BY <1>7, FS_Subset
  <2>2. Cardinality(l) = Cardinality(k)
    BY <1>2, <1>6, <1>7, <1>10, <2>1
  <2> QED
    BY <1>7, <1>10, <2>2, FS_Subset
<1>11. l = Visible \/ Cardinality(l) = MaxSkills
  <2>1. CASE ~(P \subseteq l1)
    BY <1>1, <1>10, <2>1
  <2>2. CASE P \subseteq l1 /\ ~(U \subseteq l2)
    BY <1>1, <1>10, <2>2
  <2>3. CASE P \subseteq l1 /\ U \subseteq l2 /\ B \subseteq l
    BY <1>1, <1>4, <1>8, <2>3
  <2> QED
    BY <1>1, <2>1, <2>2, <2>3
<1>12. Cardinality(Visible) <= MaxSkills => l = Visible
  <2> SUFFICES ASSUME Cardinality(Visible) <= MaxSkills, Cardinality(l) = MaxSkills
               PROVE  l = Visible
    BY <1>11
  <2>1. Cardinality(Visible) = Cardinality(l)
    BY <1>6, <1>7, <1>9
  <2> QED
    BY <1>7, <1>8, <2>1, FS_Subset
<1>13. Cardinality(l) = Min({MaxSkills, Cardinality(Visible)})
  <2>1. {MaxSkills, Cardinality(Visible)} \subseteq Nat
    BY <1>6, <1>7
  <2>2. CASE l = Visible
    BY <1>2, <1>6, <1>7, <2>1, <2>2, LeastIndex
  <2>3. CASE Cardinality(l) = MaxSkills
    BY <1>6, <1>7, <1>9, <2>1, <2>3, LeastIndex
  <2> QED
    BY <1>11, <2>2, <2>3
<1>14. ASSUME NEW in \in l, NEW out \in Visible \ l PROVE Rank(in) <= Rank(out)
  <2>1. CASE out \in P
    <3>1. l = l1
      BY <1>1, <1>10, <1>14, <2>1
    <3> QED
      BY <1>1, <1>5, <1>8, <1>14, <2>1, <3>1
  <2>2. CASE out \in U \ P
    <3>1. l = l2
      BY <1>1, <1>10, <1>14, <2>2
    <3>2. in \in P \/ in \in U \ P
      BY <1>1, <1>14, <3>1
    <3> QED
      BY <1>5, <1>8, <1>14, <2>2, <3>2
  <2>3. CASE out \in B \ (U \cup P)
    <3>1. Rank(out) = 3 /\ Rank(in) \in {1, 2, 3}
      BY <1>4, <1>5, <1>8, <1>14, <2>3
    <3> QED
      BY <3>1
  <2> QED
    BY <1>4, <1>14, <2>1, <2>2, <2>3
<1> QED
  BY <1>8, <1>12, <1>13, <1>14

LEMMA ListNext ==
  ASSUME ListComplete, [Next]_vars
  PROVE  ListComplete'
<1>1. CASE UNCHANGED vars
  <2>1. body' = body /\ last' = last
    BY <1>1 DEF vars
  <2>2. Visible' = Visible /\ \A n : Rank(n)' = Rank(n)
    BY <2>1, Steady
  <2> QED
    BY <2>1, <2>2 DEF ListComplete
<1>2. CASE Listed
  <2>1. body' = body /\ last'.listed \in Listings
    BY <1>2 DEF Listed
  <2>2. Visible' = Visible /\ \A n : Rank(n)' = Rank(n)
    BY <2>1, Steady
  <2>3. PICK l \in Listings : l = last'.listed
    BY <2>1
  <2>4. /\ l \subseteq Visible /\ Cardinality(l) = Min({MaxSkills, Cardinality(Visible)})
        /\ \A in \in l, out \in Visible \ l : Rank(in) <= Rank(out)
    BY ListingSpec
  <2> QED
    BY <2>2, <2>3, <2>4 DEF ListComplete
<1>3. ASSUME last'.op # "list" PROVE ListComplete'
  BY <1>3 DEF ListComplete
<1>4. Next /\ ~Listed => last'.op # "list"
  <2>1. Returned => last'.op # "list"
    BY DEF Returned, Nothing
  <2>2. \A n : Used(n) \/ Filed(n) => last'.op # "list"
    BY DEF Used, Filed
  <2>3. \A n, c : Authored(n, c) => last'.op # "list"
    BY DEF Authored
  <2>4. \A registry, listed, broken : Stubs(registry, listed, broken) => last'.op # "list"
    BY DEF Stubs
  <2>5. Refused => last'.op # "list"
    BY DEF Refused
  <2>6. \A n, dir : Judged(n, dir) => last'.op # "list"
    BY DEF Judged
  <2> QED
    BY <2>1, <2>2, <2>3, <2>4, <2>5, <2>6, Outcomes
<1> QED
  BY <1>1, <1>2, <1>3, <1>4

(* skill_list, for any directory trees and any order in which directories   *)
(* are read, leaves a name out only when it is full and then one of the     *)
(* last tier, so that a project skill is never pushed out by a bundled one. *)
THEOREM ListsAreComplete == Spec => []ListComplete
<1>1. Init => ListComplete
  BY DEF Init, Nothing, ListComplete
<1> QED
  BY <1>1, ListNext, PTL DEF Spec

-----------------------------------------------------------------------------
(* The pass for uncovered tools.                                            *)

(* Only a pass touches proposals or reports what it made.                   *)
LEMMA OtherCalls ==
  ASSUME Next
  PROVE  \/ \E registry \in Registries, listed \in Listings, broken \in SUBSET Slugs :
              Stubs(registry, listed, broken)
         \/ /\ proposal' = proposal
            /\ last'.op # "autostub" \/ (last'.ok = FALSE /\ last'.made = {})
<1> DEFINE Other == proposal' = proposal /\ last'.op # "autostub"
           None == proposal' = proposal /\ last'.ok = FALSE /\ last'.made = {}
<1>1. Returned => Other
  BY DEF Returned, Nothing
<1>2. Listed => Other
  BY DEF Listed
<1>3. ASSUME NEW n, Used(n) \/ Filed(n) PROVE Other
  BY <1>3 DEF Used, Filed
<1>4. ASSUME NEW n, NEW c, Authored(n, c) PROVE Other
  BY <1>4 DEF Authored
<1>5. Refused => None
  BY DEF Refused
<1>6. ASSUME NEW n, NEW dir, Judged(n, dir) PROVE Other
  BY <1>6 DEF Judged
<1> DEFINE Ran == \E registry \in Registries, listed \in Listings, broken \in SUBSET Slugs :
                    Stubs(registry, listed, broken)
<1>7. \/ Returned \/ Listed \/ Refused \/ Ran
      \/ \E n \in Names : Used(n) \/ Filed(n)
      \/ \E n \in Names \cup {Absent}, c \in Texts : Authored(n, c)
      \/ \E n \in Names : \E dir \in EvalDirs[n] \cup {Absent} : Judged(n, dir)
  BY Outcomes
<1> HIDE DEF Ran, Other, None
<1>8. Ran \/ Other \/ None
  BY <1>1, <1>2, <1>3, <1>4, <1>5, <1>6, <1>7
<1> QED
  BY <1>8 DEF Ran, Other, None

(* What a pass leaves behind, in the words of the properties.               *)
LEMMA StubsSpec ==
  ASSUME TypeOK, NEW registry \in Registries, NEW listed \in Listings, NEW broken,
         Stubs(registry, listed, broken)
  PROVE  /\ \A s \in Slugs : proposal[s] # Absent => proposal'[s] = proposal[s]
         /\ ProposedOnlyIfUncovered' /\ PassLeavesNoGap'
<1>1. PICK pass : pass = Stubbed(registry, listed, broken)
  OBVIOUS
<1>2. /\ \A s \in Slugs : proposal[s] # Absent => pass.proposal[s] = proposal[s]
      /\ \A t \in pass.made : t \in Tools /\ ~Covered(t, listed)
      /\ pass.errors = 0 => \A t \in ToSet(registry) \ {Unnamed} :
                              Covered(t, listed) \/ pass.proposal[Slug[t]] # Absent
  BY <1>1, SnapshotEntries, PassSpec DEF TypeOK, Proposals
<1>3. /\ body' = body /\ last'.op = "autostub" /\ last'.registry = registry
      /\ last'.ok = (pass.errors = 0) /\ last'.made = pass.made /\ proposal' = pass.proposal
  BY <1>1 DEF Stubs
<1>4. listed \subseteq Visible /\ (Cardinality(Visible) <= MaxSkills => listed = Visible)
  BY ListingSpec
<1>5. /\ Visible' = Visible /\ \A n : Found(n)' <=> Found(n)
      /\ \A t : Mentioned(t, Visible)' <=> Mentioned(t, Visible)
      /\ \A t : Covered(t, Visible)' <=> Covered(t, Visible)
  <2>1. /\ \A t, l : Mentioned(t, l)' <=> Mentioned(t, l)
        /\ \A t, l : Covered(t, l)' <=> Covered(t, l)
        /\ Visible' = Visible /\ \A n : Found(n)' <=> Found(n)
    BY <1>3, Steady
  <2>2. \A n : Load(n)' = Load(n)
    BY <1>3, Steady
  <2>3. \A t : Mentioned(t, Visible)' <=> Mentioned(t, Visible)
    BY <2>1, <2>2 DEF Mentioned
  <2>4. \A t : Covered(t, Visible)' <=> Covered(t, Visible)
    BY <2>1, <2>3 DEF Covered
  <2> QED
    BY <2>1, <2>3, <2>4
<1>6. ProposedOnlyIfUncovered'
  <2> SUFFICES ASSUME NEW t \in last'.made
               PROVE  /\ ~Found(t)' /\ ~Found(Slug[t])'
                      /\ (Cardinality(Visible) <= MaxSkills)' => ~Mentioned(t, Visible)'
    BY DEF ProposedOnlyIfUncovered
  <2>1. ~Covered(t, listed)
    BY <1>2, <1>3
  <2>2. ~Found(t) /\ ~Found(Slug[t]) /\ ~Mentioned(t, listed)
    BY <2>1 DEF Covered
  <2> QED
    BY <1>4, <1>5, <2>2
<1>7. PassLeavesNoGap'
  <2> SUFFICES ASSUME last'.ok, NEW t \in ToSet(registry) \ {Unnamed}
               PROVE  Covered(t, Visible)' \/ proposal'[Slug[t]] # Absent
    BY <1>3 DEF PassLeavesNoGap
  <2>1. Covered(t, listed) \/ proposal'[Slug[t]] # Absent
    BY <1>2, <1>3
  <2>2. Covered(t, listed) => Covered(t, Visible)
    BY <1>4 DEF Covered, Mentioned
  <2> QED
    BY <1>5, <2>1, <2>2
<1>8. \A s \in Slugs : proposal[s] # Absent => proposal'[s] = proposal[s]
  BY <1>2, <1>3
<1> QED
  BY <1>6, <1>7, <1>8

(* A proposal that waits for review is replaced by no later pass of         *)
(* skill_capability_autostub_from_json, and within a pass by no other tool  *)
(* whose name makes the same skill name, however long the registry is.      *)
THEOREM ProposalsAreKept == Spec => ProposalKept
<1>1. TypeOK /\ [Next]_vars =>
        [\A s \in Slugs : proposal[s] # Absent => proposal'[s] = proposal[s]]_vars
  BY OtherCalls, StubsSpec
<1> QED
  BY <1>1, TypeCorrect, PTL DEF Spec, ProposalKept

LEMMA PassNext ==
  ASSUME TypeOK, ProposedOnlyIfUncovered /\ PassLeavesNoGap, [Next]_vars
  PROVE  (ProposedOnlyIfUncovered /\ PassLeavesNoGap)'
<1>1. CASE UNCHANGED vars
  <2>1. body' = body /\ last' = last /\ proposal' = proposal
    BY <1>1 DEF vars
  <2>2. /\ Visible' = Visible /\ \A n : (Found(n)' <=> Found(n)) /\ Load(n)' = Load(n)
    BY <2>1, Steady
  <2>3. \A t : Mentioned(t, Visible)' <=> Mentioned(t, Visible)
    BY <2>2 DEF Mentioned
  <2>4. \A t : Covered(t, Visible)' <=> Covered(t, Visible)
    BY <2>2, <2>3 DEF Covered
  <2>5. ProposedOnlyIfUncovered'
    BY <2>1, <2>2, <2>3 DEF ProposedOnlyIfUncovered
  <2>6. PassLeavesNoGap'
    BY <2>1, <2>4 DEF PassLeavesNoGap
  <2> QED
    BY <2>5, <2>6
<1>2. CASE last'.op # "autostub" \/ (last'.ok = FALSE /\ last'.made = {})
  BY <1>2 DEF ProposedOnlyIfUncovered, PassLeavesNoGap
<1> QED
  BY <1>1, <1>2, OtherCalls, StubsSpec

LEMMA PassInit ==
  ASSUME Init
  PROVE  ProposedOnlyIfUncovered /\ PassLeavesNoGap
  BY DEF Init, Nothing, ProposedOnlyIfUncovered, PassLeavesNoGap

(* A pass proposes a skill only for a tool no skill is named after and none *)
(* mentions, unless there are more skills than skill_list can return.       *)
THEOREM ProposalsAreNeeded == Spec => []ProposedOnlyIfUncovered
  BY PassInit, PassNext, TypeCorrect, PTL DEF Spec

(* After a pass without errors every tool of the registry, whatever its     *)
(* length and order, is covered or has a proposal under its name.           *)
THEOREM PassesLeaveNoGap == Spec => []PassLeavesNoGap
  BY PassInit, PassNext, TypeCorrect, PTL DEF Spec

-----------------------------------------------------------------------------
(* Evaluation and the gate.                                                 *)

Tallies == [scenarios : Nat, errors : Nat, violations : Nat, baseline : Nat, treatment : Nat]
NoTally == [scenarios |-> 0, errors |-> 0, violations |-> 0, baseline |-> 0, treatment |-> 0]

(* One fixture: past the limit it is not looked at, an invalid one is an    *)
(* error, and a valid one is counted.                                       *)
LEMMA EvalStep ==
  ASSUME NEW a \in Tallies, NEW f \in Fixtures, NEW r, r = EvalOne(a, f)
  PROVE  /\ r \in Tallies
         /\ r.errors = 0 => a.errors = 0
         /\ a.scenarios >= MaxCases => r = a
         /\ a.scenarios < MaxCases /\ r.errors = 0 =>
              /\ f.valid /\ r.scenarios = a.scenarios + 1
              /\ r.violations = a.violations + (IF f.violates THEN 1 ELSE 0)
              /\ r.baseline = a.baseline + (IF f.baseline THEN 1 ELSE 0)
              /\ r.treatment = a.treatment + (IF f.treatment THEN 1 ELSE 0)
<1>0. MaxCases \in Nat
  BY CatalogAssumption
<1>1. /\ a.scenarios \in Nat /\ a.errors \in Nat /\ a.violations \in Nat /\ a.baseline \in Nat
      /\ a.treatment \in Nat
  BY DEF Tallies
<1>2. CASE a.scenarios >= MaxCases
  <2>1. r = a
    BY <1>2 DEF EvalOne
  <2> QED
    BY <1>0, <1>1, <1>2, <2>1
<1>3. CASE ~(a.scenarios >= MaxCases) /\ ~f.valid
  <2>1. r = [a EXCEPT !.errors = a.errors + 1]
    BY <1>3 DEF EvalOne
  <2>2. r \in Tallies /\ r.errors = a.errors + 1
    BY <1>1, <2>1 DEF Tallies
  <2> QED
    BY <1>1, <1>3, <2>2
<1>4. CASE ~(a.scenarios >= MaxCases) /\ f.valid
  <2>1. PICK v \in Nat, b \in Nat, t \in Nat : /\ v = a.violations + (IF f.violates THEN 1 ELSE 0)
                                               /\ b = a.baseline + (IF f.baseline THEN 1 ELSE 0)
                                               /\ t = a.treatment + (IF f.treatment THEN 1 ELSE 0)
    BY <1>1
  <2>2. r = [a EXCEPT !.scenarios = a.scenarios + 1, !.violations = v, !.baseline = b, !.treatment = t]
    BY <1>4, <2>1 DEF EvalOne
  <2>3. /\ r \in Tallies /\ r.scenarios = a.scenarios + 1 /\ r.errors = a.errors
        /\ r.violations = v /\ r.baseline = b /\ r.treatment = t
    <3>1. r = [scenarios |-> a.scenarios + 1, errors |-> a.errors, violations |-> v,
               baseline |-> b, treatment |-> t]
      BY <2>2 DEF Tallies
    <3> QED
      BY <1>1, <3>1 DEF Tallies
  <2> QED
    BY <1>4, <2>1, <2>3
<1> QED
  BY <1>2, <1>3, <1>4

(* Evaluation is a run of EvalOne over the files of the directory.          *)
LEMMA EvaluatedRuns ==
  ASSUME NEW dir \in Seq(Fixtures)
  PROVE  \E after \in [0..Len(dir) -> Tallies] :
           /\ after[0] = NoTally
           /\ \A i \in 1..Len(dir) : after[i] = EvalOne(after[i - 1], dir[i])
           /\ Evaluated(dir) = after[Len(dir)]
<1> DEFINE n == Len(dir)
           Def(g) == [i \in 0..n |-> IF i = 0 THEN NoTally ELSE EvalOne(g[i - 1], dir[i])]
           Go == [p \in (1..n) \X Tallies |-> EvalOne(p[2], dir[p[1]])]
           after == CHOOSE g : g = Def(g)
<1>0. n \in Nat /\ \A i \in 1..n : dir[i] \in Fixtures
  BY LenProperties
<1>1. Evaluated(dir) = after[n]
  BY DEF Evaluated, NoTally
<1>2. NoTally \in Tallies
  BY DEF NoTally, Tallies
<1>3. IsLoop(Go, n, Tallies)
  BY <1>0, EvalStep DEF IsLoop
<1>4. PICK f : /\ f \in [0..n -> Tallies] /\ f[0] = NoTally
               /\ \A i \in 1..n : f[i] = Go[<<i, f[i - 1]>>]
  <2> HIDE DEF n, Go
  <2>1. PICK f : IsRun(f, Go, n, Tallies, NoTally)
    BY <1>0, <1>2, <1>3, LoopRuns
  <2> QED
    BY <2>1 DEF IsRun
<1>5. \A i \in 1..n : f[i] = EvalOne(f[i - 1], dir[i])
  <2> SUFFICES ASSUME NEW i \in 1..n PROVE f[i] = EvalOne(f[i - 1], dir[i])
    OBVIOUS
  <2>1. f[i - 1] \in Tallies
    BY <1>0, <1>4
  <2> QED
    BY <1>4, <2>1
<1>6. f = Def(f)
  BY <1>0, <1>4, <1>5
<1>7. after = Def(after)
  <2> HIDE DEF Def
  <2> QED
    BY <1>6
<1> HIDE DEF after
<1>8. after[0] = NoTally /\ \A i \in 1..n : after[i] = EvalOne(after[i - 1], dir[i])
  BY <1>0, <1>7
<1>9. DOMAIN after = 0..n /\ after = [i \in 0..n |-> after[i]]
  BY <1>7
<1>10. 0..n \subseteq {i \in 0..n : after[i] \in Tallies}
  <2> DEFINE S == {i \in 0..n : after[i] \in Tallies}
  <2>1. 0 \in S
    BY <1>0, <1>2, <1>8
  <2>2. ASSUME NEW i \in 0..(n - 1), i \in S PROVE i + 1 \in S
    <3>1. i + 1 \in 1..n /\ i + 1 \in 0..n /\ (i + 1) - 1 = i
      BY <1>0
    <3>2. after[i + 1] = EvalOne(after[i], dir[i + 1])
      BY <1>8, <3>1
    <3> QED
      BY <1>0, <2>2, <3>1, <3>2, EvalStep
  <2> HIDE DEF S, n
  <2>3. 0..n \subseteq S
    BY <1>0, <2>1, <2>2, UpTo
  <2> QED
    BY <2>3 DEF S
<1>11. after \in [0..n -> Tallies]
  BY <1>9, <1>10
<1> QED
  BY <1>1, <1>8, <1>11

(* A count over the first i entries, one entry on.                          *)
Count(Q, i) == Cardinality({j \in 1..i : j \in Q})

LEMMA CountStep ==
  ASSUME NEW i \in Nat, NEW Q
  PROVE  Count(Q, i + 1) = Count(Q, i) + (IF i + 1 \in Q THEN 1 ELSE 0)
<1> DEFINE P == {j \in 1..i : j \in Q}
<1>1. IsFiniteSet(P) /\ Cardinality(P) \in Nat
  <2>1. IsFiniteSet(1..i) /\ P \in SUBSET (1..i)
    BY FS_Interval
  <2> HIDE DEF P
  <2> QED
    BY <2>1, FS_Subset, FS_CardinalityType
<1>2. i + 1 \notin P
  OBVIOUS
<1>3. CASE i + 1 \in Q
  <2>1. {j \in 1..(i + 1) : j \in Q} = P \cup {i + 1}
    BY <1>3
  <2> HIDE DEF P
  <2>2. Cardinality(P \cup {i + 1}) = Cardinality(P) + 1
    BY <1>1, <1>2, FS_AddElement
  <2> QED
    BY <1>3, <2>1, <2>2 DEF Count, P
<1>4. CASE i + 1 \notin Q
  <2>1. {j \in 1..(i + 1) : j \in Q} = P
    BY <1>4
  <2> QED
    BY <1>1, <1>4, <2>1 DEF Count
<1> QED
  BY <1>3, <1>4

(* e counts the first k files of dir, all of which are valid.               *)
Counts(e, dir, k) ==
  /\ e.scenarios = k /\ \A j \in 1..k : dir[j].valid
  /\ e.violations = Cardinality({j \in 1..k : dir[j].violates})
  /\ e.baseline = Cardinality({j \in 1..k : dir[j].baseline})
  /\ e.treatment = Cardinality({j \in 1..k : dir[j].treatment})

(* What an evaluation without errors has counted: the first MaxCases files, *)
(* or all when there are fewer.                                             *)
LEMMA EvaluatedSpec ==
  ASSUME NEW dir \in Seq(Fixtures), NEW e, e = Evaluated(dir), e.errors = 0,
         NEW k, k = IF Len(dir) <= MaxCases THEN Len(dir) ELSE MaxCases
  PROVE  e \in Tallies /\ Counts(e, dir, k)
<1>1. PICK after \in [0..Len(dir) -> Tallies] :
           /\ after[0] = NoTally
           /\ \A i \in 1..Len(dir) : after[i] = EvalOne(after[i - 1], dir[i])
           /\ Evaluated(dir) = after[Len(dir)]
  BY EvaluatedRuns
<1>2. PICK n \in Nat : n = Len(dir)
  BY LenProperties
<1>3. (\A i \in 1..n : dir[i] \in Fixtures) /\ MaxCases \in Nat \ {0}
  BY <1>2, LenProperties, CatalogAssumption
<1> DEFINE First(i) == IF i <= MaxCases THEN i ELSE MaxCases
           V == {j \in 1..n : dir[j].violates}
           B == {j \in 1..n : dir[j].baseline}
           T == {j \in 1..n : dir[j].treatment}
           Counted(a, m) == /\ a.scenarios = m
                            /\ \A j \in 1..m : dir[j].valid
                            /\ a.violations = Count(V, m)
                            /\ a.baseline = Count(B, m)
                            /\ a.treatment = Count(T, m)
           S == {i \in 0..n : after[i].errors = 0 => Counted(after[i], First(i))}
<1>4. 0 \in S
  <2>1. First(0) = 0
    BY <1>3
  <2>2. Counted(NoTally, 0)
    <3>1. \A Q : {j \in 1..0 : j \in Q} = {}
      OBVIOUS
    <3> QED
      BY <3>1, FS_EmptySet DEF NoTally, Count
  <2> HIDE DEF Counted, First
  <2> QED
    BY <1>1, <1>2, <2>1, <2>2
<1>5. ASSUME NEW i \in 0..(n - 1), i \in S PROVE i + 1 \in S
  <2>1. i + 1 \in 0..n /\ i + 1 \in 1..n /\ (i + 1) - 1 = i /\ i \in 0..n /\ i \in Nat
    BY <1>2
  <2>2. PICK a \in Tallies : a = after[i]
    BY <1>1, <1>2, <2>1
  <2>3. PICK f \in Fixtures : f = dir[i + 1]
    BY <1>3, <2>1
  <2>4. PICK r : r = EvalOne(a, f)
    OBVIOUS
  <2>5. r = after[i + 1]
    BY <1>1, <1>2, <2>1, <2>2, <2>3, <2>4
  <2> SUFFICES ASSUME r.errors = 0 PROVE Counted(r, First(i + 1))
    BY <2>1, <2>5
  <2>6. /\ a.errors = 0
        /\ a.scenarios >= MaxCases => r = a
        /\ a.scenarios < MaxCases =>
              /\ f.valid /\ r.scenarios = a.scenarios + 1
              /\ r.violations = a.violations + (IF f.violates THEN 1 ELSE 0)
              /\ r.baseline = a.baseline + (IF f.baseline THEN 1 ELSE 0)
              /\ r.treatment = a.treatment + (IF f.treatment THEN 1 ELSE 0)
    BY <2>4, EvalStep
  <2>7. Counted(a, First(i))
    BY <1>5, <2>2, <2>6
  <2>8. CASE i < MaxCases
    <3>1. First(i) = i /\ First(i + 1) = i + 1 /\ a.scenarios = i
      BY <1>3, <2>1, <2>7, <2>8
    <3>2. /\ f.valid /\ r.scenarios = i + 1
          /\ r.violations = a.violations + (IF f.violates THEN 1 ELSE 0)
          /\ r.baseline = a.baseline + (IF f.baseline THEN 1 ELSE 0)
          /\ r.treatment = a.treatment + (IF f.treatment THEN 1 ELSE 0)
      BY <2>6, <2>8, <3>1
    <3>3. (i + 1 \in V <=> f.violates) /\ (i + 1 \in B <=> f.baseline) /\ (i + 1 \in T <=> f.treatment)
      BY <2>1, <2>3
    <3> HIDE DEF V, B, T
    <3>4. r.violations = Count(V, i + 1)
      BY <2>1, <2>7, <3>1, <3>2, <3>3, CountStep
    <3>5. r.baseline = Count(B, i + 1)
      BY <2>1, <2>7, <3>1, <3>2, <3>3, CountStep
    <3>6. r.treatment = Count(T, i + 1)
      BY <2>1, <2>7, <3>1, <3>2, <3>3, CountStep
    <3>7. \A j \in 1..(i + 1) : dir[j].valid
      <4> SUFFICES ASSUME NEW j \in 1..(i + 1) PROVE dir[j].valid
        OBVIOUS
      <4>1. j \in 1..i \/ j = i + 1
        BY <2>1
      <4> QED
        BY <2>3, <2>7, <3>1, <3>2, <4>1
    <3> QED
      BY <3>1, <3>2, <3>4, <3>5, <3>6, <3>7
  <2>9. CASE ~(i < MaxCases)
    <3>1. First(i) = MaxCases /\ First(i + 1) = MaxCases
      BY <1>3, <2>1, <2>9
    <3>2. r = a
      BY <1>3, <2>6, <2>7, <3>1
    <3> QED
      BY <2>7, <3>1, <3>2
  <2> QED
    BY <2>8, <2>9
<1>6. n \in S
  <2> HIDE DEF S
  <2>1. 0..n \subseteq S
    BY <1>2, <1>4, <1>5, UpTo
  <2> QED
    BY <1>2, <2>1
<1>7. e = after[n] /\ e \in Tallies
  BY <1>1, <1>2
<1>8. Counted(e, k) /\ k \in 0..n
  BY <1>2, <1>3, <1>6, <1>7
<1>9. /\ {j \in 1..k : j \in V} = {j \in 1..k : dir[j].violates}
      /\ {j \in 1..k : j \in B} = {j \in 1..k : dir[j].baseline}
      /\ {j \in 1..k : j \in T} = {j \in 1..k : dir[j].treatment}
  BY <1>2, <1>8
<1> QED
  BY <1>7, <1>8, <1>9 DEF Count, Counts


(* What the gate has seen when it lets a change through.                    *)
LEMMA GateSpec ==
  ASSUME NEW dir \in Seq(Fixtures), NEW e, e = Evaluated(dir), Usable(e), NEW th \in Thresholds,
         TRUE \in GateAllows(EvalPayload(e), th),
         NEW seen, seen = 1..Min({MaxCases, Len(dir)})
  PROVE  /\ seen # {} /\ \E i \in seen : ~dir[i].baseline
         /\ \A i \in seen : dir[i].valid /\ dir[i].violates /\ dir[i].treatment
         /\ Cardinality({i \in seen : ~dir[i].baseline}) * th[2] >= th[1] * Cardinality(seen)
<1>1. PICK k : k = IF Len(dir) <= MaxCases THEN Len(dir) ELSE MaxCases
  OBVIOUS
<1>2. Len(dir) \in Nat /\ MaxCases \in Nat /\ k \in Nat
  BY <1>1, LenProperties, CatalogAssumption
<1>3. seen = 1..k
  <2>1. PICK I : I = {MaxCases, Len(dir)}
    OBVIOUS
  <2>2. I \subseteq Nat /\ k \in I /\ \A i \in I : k <= i
    BY <1>1, <1>2, <2>1
  <2>3. Min(I) = k
    BY <2>2, LeastIndex
  <2> QED
    BY <2>1, <2>3
<1>4. e.scenarios > 0 /\ e.errors = 0
  BY DEF Usable
<1>s. Counts(e, dir, k)
  BY <1>1, <1>4, EvaluatedSpec
<1> DEFINE V == {j \in 1..k : dir[j].violates}
           B == {j \in 1..k : dir[j].baseline}
           T == {j \in 1..k : dir[j].treatment}
           L == {j \in 1..k : ~dir[j].baseline}
<1>5. /\ e.scenarios = k /\ \A j \in 1..k : dir[j].valid
      /\ e.violations = Cardinality(V) /\ e.baseline = Cardinality(B) /\ e.treatment = Cardinality(T)
  BY <1>s DEF Counts
<1>6. /\ e.violations = e.scenarios /\ e.treatment = e.scenarios /\ e.treatment > e.baseline
      /\ ~((e.treatment - e.baseline) * th[2] < th[1] * e.scenarios)
  <2>1. PICK p : p = EvalPayload(e)
    OBVIOUS
  <2>2. /\ p.passed = Passed(e) /\ p.gain = e.treatment - e.baseline /\ p.scenarios = e.scenarios
    BY <2>1 DEF EvalPayload
  <2>3. p.passed /\ ~(p.gain * th[2] < th[1] * p.scenarios)
    <3>1. TRUE \in GateAllows(p, th)
      BY <2>1
    <3>2. CASE ~p.passed \/ p.gain * th[2] < th[1] * p.scenarios
      <4>1. GateAllows(p, th) = {FALSE}
        BY <3>2 DEF GateAllows
      <4> QED
        BY <3>1, <4>1
    <3> QED
      BY <3>2
  <2> QED
    BY <2>2, <2>3 DEF Passed
<1>7. /\ V \in SUBSET (1..k) /\ T \in SUBSET (1..k) /\ B \in SUBSET (1..k)
      /\ L = (1..k) \ B /\ (1..k) \cap B = B
  OBVIOUS
<1>8. IsFiniteSet(1..k) /\ Cardinality(1..k) = k
  BY <1>2, FS_Interval
<1>9. \A j \in 1..k : (j \in V => dir[j].violates) /\ (j \in T => dir[j].treatment)
                      /\ (j \in L => ~dir[j].baseline)
  OBVIOUS
<1>10. L = {i \in seen : ~dir[i].baseline}
  BY <1>3
<1> HIDE DEF V, B, T, L
<1>11. V = 1..k /\ T = 1..k
  BY <1>5, <1>6, <1>7, <1>8, FS_Subset
<1>12. Cardinality(L) = k - Cardinality(B) /\ IsFiniteSet(L)
  <2>1. /\ IsFiniteSet((1..k) \ B)
        /\ Cardinality((1..k) \ B) = Cardinality(1..k) - Cardinality((1..k) \cap B)
    BY <1>8, FS_Difference
  <2> QED
    BY <1>7, <1>8, <2>1
<1>13. Cardinality(L) = e.treatment - e.baseline /\ Cardinality(L) # 0
  <2>1. IsFiniteSet(B) /\ Cardinality(B) \in Nat
    BY <1>7, <1>8, FS_Subset, FS_CardinalityType
  <2>2. e.treatment = k /\ e.baseline = Cardinality(B) /\ k > Cardinality(B)
    BY <1>5, <1>6
  <2> QED
    BY <1>2, <1>12, <2>1, <2>2
<1>14. \E i \in 1..k : i \in L
  BY <1>7, <1>12, <1>13, FS_EmptySet
<1>15. seen # {} /\ \E i \in seen : ~dir[i].baseline
  BY <1>3, <1>9, <1>14
<1>16. \A i \in seen : dir[i].valid /\ dir[i].violates /\ dir[i].treatment
  BY <1>3, <1>5, <1>9, <1>11
<1>17. Cardinality(L) * th[2] >= th[1] * Cardinality(seen)
  <2>1. PICK x \in Int, y \in Int : x = Cardinality(L) * th[2] /\ y = th[1] * k
    <3>1. th[1] \in Int /\ th[2] \in Int
      BY EvalAssumption
    <3>2. Cardinality(L) \in Int
      BY <1>12, FS_CardinalityType
    <3> QED
      BY <1>2, <3>1, <3>2
  <2>2. ~(x < y)
    BY <1>5, <1>6, <1>13, <2>1
  <2> QED
    BY <1>3, <1>8, <2>1, <2>2
<1> QED
  BY <1>10, <1>15, <1>16, <1>17

LEMMA FreshRefused ==
  ASSUME NEW th
  PROVE  TRUE \notin GateAllows(StubPayload, th)
<1>1. StubPayload.passed = FALSE
  BY DEF StubPayload
<1>2. GateAllows(StubPayload, th) = {FALSE}
  BY <1>1 DEF GateAllows
<1> QED
  BY <1>2

(* Evidence is the second part of GateNeedsEvidence, of a call.             *)
Evidence(r, th) ==
  r.op = "eval" /\ r.ok /\ TRUE \in GateAllows(EvalPayload(r.eval), th) =>
    LET seen == 1..Min({MaxCases, Len(r.dir)})
    IN  /\ seen # {} /\ \E i \in seen : ~r.dir[i].baseline
        /\ \A i \in seen : r.dir[i].valid /\ r.dir[i].violates /\ r.dir[i].treatment
        /\ Cardinality({i \in seen : ~r.dir[i].baseline}) * th[2] >= th[1] * Cardinality(seen)

LEMMA GateStates ==
  /\ GateNeedsEvidence <=> \A th \in Thresholds : Evidence(last, th)
  /\ GateNeedsEvidence' <=> \A th \in Thresholds : Evidence(last', th)
<1>1. GateNeedsEvidence <=> \A th \in Thresholds : Evidence(last, th)
  BY FreshRefused DEF GateNeedsEvidence, Evidence, Quantify
<1>2. GateNeedsEvidence' <=> \A th \in Thresholds : Evidence(last', th)
  BY FreshRefused DEF GateNeedsEvidence, Evidence, Quantify
<1> QED
  BY <1>1, <1>2

LEMMA GateNext ==
  ASSUME GateNeedsEvidence, [Next]_vars
  PROVE  GateNeedsEvidence'
<1> SUFFICES \A th \in Thresholds : Evidence(last', th)
  BY GateStates
<1>1. CASE UNCHANGED vars
  BY <1>1, GateStates DEF vars
<1>2. ASSUME NEW n \in Names, NEW dir \in EvalDirs[n] \cup {Absent}, Judged(n, dir)
      PROVE  \A th \in Thresholds : Evidence(last', th)
  <2> SUFFICES ASSUME NEW th \in Thresholds, last'.ok,
                      TRUE \in GateAllows(EvalPayload(last'.eval), th)
               PROVE  LET seen == 1..Min({MaxCases, Len(last'.dir)})
                      IN  /\ seen # {} /\ \E i \in seen : ~last'.dir[i].baseline
                          /\ \A i \in seen : /\ last'.dir[i].valid /\ last'.dir[i].violates
                                             /\ last'.dir[i].treatment
                          /\ Cardinality({i \in seen : ~last'.dir[i].baseline}) * th[2]
                               >= th[1] * Cardinality(seen)
    BY DEF Evidence
  <2>1. dir # Absent /\ last'.dir = dir /\ last'.eval = Evaluated(dir) /\ Usable(Evaluated(dir))
    BY <1>2 DEF Judged
  <2>2. dir \in Seq(Fixtures)
    BY <1>2, <2>1, EvalAssumption
  <2>3. PICK e : e = Evaluated(dir)
    OBVIOUS
  <2>4. Usable(e) /\ TRUE \in GateAllows(EvalPayload(e), th)
    BY <2>1, <2>3
  <2>5. PICK seen : seen = 1..Min({MaxCases, Len(dir)})
    OBVIOUS
  <2>6. /\ seen # {} /\ \E i \in seen : ~dir[i].baseline
        /\ \A i \in seen : dir[i].valid /\ dir[i].violates /\ dir[i].treatment
        /\ Cardinality({i \in seen : ~dir[i].baseline}) * th[2] >= th[1] * Cardinality(seen)
    BY <2>2, <2>3, <2>4, <2>5, GateSpec
  <2> QED
    BY <2>1, <2>5, <2>6
<1>3. ASSUME last'.op # "eval" PROVE \A th \in Thresholds : Evidence(last', th)
  BY <1>3 DEF Evidence
<1>4. Returned => last'.op # "eval"
  BY DEF Returned, Nothing
<1>5. Listed \/ Refused => last'.op # "eval"
  BY DEF Listed, Refused
<1>6. \A n : Used(n) \/ Filed(n) => last'.op # "eval"
  BY DEF Used, Filed
<1>7. \A n, c : Authored(n, c) => last'.op # "eval"
  BY DEF Authored
<1>8. \A registry, listed, broken : Stubs(registry, listed, broken) => last'.op # "eval"
  BY DEF Stubs
<1> QED
  BY <1>1, <1>2, <1>3, <1>4, <1>5, <1>6, <1>7, <1>8, Outcomes

(* skill_change_eval_gate_allows lets a change through only on what         *)
(* skill_eval_run has seen: for any number of fixtures, in any directory    *)
(* order and on both sides of SKILL_EVAL_MAX_CASES, there is a fixture, and *)
(* of those read all are valid, all show the violation and the treatment's  *)
(* compliance, and the share of baselines that did not comply reaches the   *)
(* threshold.  A fresh stub passes no threshold.                            *)
THEOREM GateIsSound == Spec => []GateNeedsEvidence
<1>1. Init => GateNeedsEvidence
  BY GateStates DEF Init, Nothing, Evidence
<1> QED
  BY <1>1, GateNext, PTL DEF Spec

=============================================================================
