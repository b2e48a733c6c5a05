------------------------- MODULE FilterEngineProofs -------------------------
(***************************************************************************)
(* Proofs about module FilterEngine: lemmas about its operators, for all   *)
(* events, paths and rules.  Resolve() is defined by a recursive function: *)
(* that there is one for every path, and what it does, is shown by the     *)
(* least path length for which it would not be so.                         *)
(***************************************************************************)
EXTENDS FilterEngine, Functions, WellFoundedInduction, TLAPS

(* f is what the loop of _resolve_field() has after each key up to m.      *)
Follows(event, path, m, f) ==
  f = [n \in 0 .. m |-> IF n = 0 THEN event ELSE Field(f[n - 1], path[n])]

LEMMA LeastNumber ==
  ASSUME NEW S \in SUBSET Nat, S # {}
  PROVE  \E m \in S : \A k \in Nat : k < m => k \notin S
<1>1. PICK x \in S : \A y \in S : ~(<<y, x>> \in OpToRel(<, Nat))
  BY NatLessThanWellFounded, WFMin
<1>2. ASSUME NEW k \in Nat, k < x
      PROVE  k \notin S
  BY <1>1, <1>2 DEF OpToRel
<1> QED  BY <1>1, <1>2

LEMMA FollowsSteps ==
  ASSUME NEW event, NEW path, NEW m \in Nat, NEW f, Follows(event, path, m, f)
  PROVE  /\ f[0] = event
         /\ \A n \in 1 .. m : f[n] = Field(f[n - 1], path[n])
<1>1. f[0] = event
  BY DEF Follows
<1>2. ASSUME NEW n \in 1 .. m
      PROVE  f[n] = Field(f[n - 1], path[n])
  BY DEF Follows
<1> QED  BY <1>1, <1>2

(* There is one for every path and every m. *)
LEMMA FollowsExists ==
  ASSUME NEW event, NEW path, NEW m \in Nat
  PROVE  \E f : Follows(event, path, m, f)
<1> DEFINE S == {k \in Nat : ~ \E f : Follows(event, path, k, f)}
<1>1. SUFFICES ASSUME S # {} PROVE FALSE
  OBVIOUS
<1>2. PICK k \in S : \A j \in Nat : j < k => j \notin S
  BY <1>1, LeastNumber
<1>3. CASE k = 0
  <2>1. Follows(event, path, 0, [n \in 0 .. 0 |-> event])
    BY DEF Follows
  <2> QED  BY <1>2, <1>3, <2>1
<1>4. CASE k # 0
  <2>1. k - 1 \in Nat /\ k - 1 < k
    BY <1>4
  <2>2. PICK f : Follows(event, path, k - 1, f)
    BY <1>2, <2>1
  <2> DEFINE g == [n \in 0 .. k |-> IF n = k THEN Field(f[k - 1], path[k]) ELSE f[n]]
  <2>3. ASSUME NEW n \in 0 .. k
        PROVE  g[n] = IF n = 0 THEN event ELSE Field(g[n - 1], path[n])
    <3>1. CASE n = 0
      BY <1>4, <2>1, <2>2, <3>1, FollowsSteps
    <3>2. CASE n = k
      BY <1>4, <2>1, <3>2
    <3>3. CASE n # 0 /\ n # k
      <4>1. n \in 1 .. k - 1 /\ g[n] = f[n] /\ g[n - 1] = f[n - 1]
        BY <3>3
      <4>2. f[n] = Field(f[n - 1], path[n])
        BY <2>1, <2>2, <4>1, FollowsSteps
      <4> QED  BY <3>3, <4>1, <4>2
    <3> QED  BY <3>1, <3>2, <3>3
  <2>4. Follows(event, path, k, g)
    BY <2>3 DEF Follows
  <2> QED  BY <1>2, <2>4
<1> QED  BY <1>2, <1>3, <1>4

Agree(path, other, m) == \A n \in 1 .. m : path[n] = other[n]

(* Two of them agree as far as their paths do. *)
LEMMA FollowsAgree ==
  ASSUME NEW event, NEW path, NEW other, NEW m \in Nat, NEW l \in Nat, m <= l,
         Agree(path, other, m),
         NEW f, Follows(event, path, m, f), NEW g, Follows(event, other, l, g)
  PROVE  \A n \in 0 .. m : f[n] = g[n]
<1> DEFINE S == {n \in 0 .. m : f[n] # g[n]}
<1>1. SUFFICES ASSUME S # {} PROVE FALSE
  OBVIOUS
<1>s. S \in SUBSET Nat
  OBVIOUS
<1>2. PICK k \in S : \A j \in Nat : j < k => j \notin S
  BY <1>1, <1>s, LeastNumber
<1>3. f[0] = g[0]
  BY FollowsSteps
<1>4. k \in 1 .. m /\ k - 1 \in 0 .. m /\ k - 1 < k
  BY <1>2, <1>3
<1>5. f[k - 1] = g[k - 1]
  BY <1>2, <1>4
<1>6. f[k] = Field(f[k - 1], path[k])
  BY <1>4, FollowsSteps
<1>7. g[k] = Field(g[k - 1], other[k])
  BY <1>4, FollowsSteps
<1> QED  BY <1>2, <1>4, <1>5, <1>6, <1>7 DEF Agree

(* Resolve() is the last value of such a function. *)
LEMMA ResolveFollows ==
  ASSUME NEW event, NEW path, Len(path) \in Nat
  PROVE  \E f : Follows(event, path, Len(path), f) /\ Resolve(event, path) = f[Len(path)]
<1> DEFINE Is(f) ==
      f = [n \in 0 .. Len(path) |-> IF n = 0 THEN event ELSE Field(f[n - 1], path[n])]
<1>1. \E f : Is(f)
  <2>1. PICK f : Follows(event, path, Len(path), f)
    BY FollowsExists
  <2>2. Is(f)
    BY <2>1 DEF Follows
  <2> QED  BY <2>2
<1>2. Is(CHOOSE f : Is(f))
  BY <1>1
<1>3. Resolve(event, path) = (CHOOSE f : Is(f))[Len(path)]
  BY DEF Resolve
<1> QED  BY <1>2, <1>3 DEF Follows

(* A path of one key is that field of the event. *)
LEMMA ResolveOneKey ==
  ASSUME NEW event, NEW path, Len(path) = 1
  PROVE  Resolve(event, path) = Field(event, path[1])
<1>0. Len(path) \in Nat
  OBVIOUS
<1>1. PICK f : Follows(event, path, Len(path), f) /\ Resolve(event, path) = f[Len(path)]
  BY <1>0, ResolveFollows
<1>2. Follows(event, path, 1, f) /\ Resolve(event, path) = f[1]
  BY <1>1
<1>3. f[0] = event /\ f[1] = Field(f[1 - 1], path[1])
  BY <1>2, FollowsSteps
<1> QED  BY <1>2, <1>3

LEMMA FollowsStaysMissing ==
  ASSUME NEW event, NEW path, NEW m \in Nat, NEW f, Follows(event, path, m, f),
         NEW l \in 0 .. m, f[l] = Missing
  PROVE  f[m] = Missing
<1> DEFINE S == {n \in l .. m : f[n] # Missing}
<1>1. CASE S = {}
  BY <1>1
<1>2. CASE S # {}
  <2>1. S \in SUBSET Nat
    OBVIOUS
  <2>2. PICK k \in S : \A j \in Nat : j < k => j \notin S
    BY <1>2, <2>1, LeastNumber
  <2>3. k \in 1 .. m /\ k - 1 \in l .. m /\ k - 1 \in Nat /\ k - 1 < k
    BY <2>2
  <2>4. f[k - 1] = Missing
    BY <2>2, <2>3
  <2>5. f[k] = Field(f[k - 1], path[k])
    BY <2>3, FollowsSteps
  <2>6. f[k] = Missing
    BY <2>4, <2>5 DEF Field, Missing
  <2> QED  BY <2>2, <2>6
<1> QED  BY <1>1, <1>2

(* A path that leads through something that is missing, or has no fields,  *)
(* leads nowhere: _resolve_field() is right to return at the first key it  *)
(* does not find.                                                          *)
THEOREM EngineResolveReturnsEarly ==
  ASSUME NEW event, NEW path, Len(path) \in Nat, NEW prefix, Len(prefix) \in Nat,
         Len(prefix) <= Len(path), \A n \in 1 .. Len(prefix) : prefix[n] = path[n],
         Resolve(event, prefix) = Missing
  PROVE  Resolve(event, path) = Missing
<1>1. PICK f : Follows(event, path, Len(path), f) /\ Resolve(event, path) = f[Len(path)]
  BY ResolveFollows
<1>2. PICK g : Follows(event, prefix, Len(prefix), g) /\ Resolve(event, prefix) = g[Len(prefix)]
  BY ResolveFollows
<1>3. PICK m \in Nat, l \in Nat : m = Len(path) /\ l = Len(prefix)
  OBVIOUS
<1>4. Agree(prefix, path, l)
  BY <1>3 DEF Agree
<1>5. l <= m /\ Follows(event, prefix, l, g) /\ Follows(event, path, m, f)
  BY <1>1, <1>2, <1>3
<1>6. \A n \in 0 .. l : g[n] = f[n]
  BY <1>4, <1>5, FollowsAgree
<1>7. f[l] = Missing
  BY <1>2, <1>3, <1>6
<1>8. f[m] = Missing
  BY <1>5, <1>7, FollowsStaysMissing
<1> QED  BY <1>1, <1>3, <1>8
-----------------------------------------------------------------------------
LEMMA NoRules ==
  ASSUME NEW rules, Len(rules) \in Nat, rules = [n \in 1 .. Len(rules) |-> rules[n]]
  PROVE  rules = <<>> <=> DOMAIN rules = {}
<1>1. DOMAIN rules = 1 .. Len(rules)
  OBVIOUS
<1>2. rules = <<>> <=> Len(rules) = 0
  OBVIOUS
<1> QED  BY <1>1, <1>2

(* ApplyFilterSet() asks which rules there are, not where.                 *)
LEMMA OrderIsIrrelevant ==
  ASSUME NEW fs, NEW other, other.mode = fs.mode, NEW event,
         NEW f \in Bijection(DOMAIN fs.rules, DOMAIN fs.rules),
         other.rules = [n \in DOMAIN fs.rules |-> fs.rules[f[n]]]
  PROVE  /\ ApplyFilterSet(other, event) = ApplyFilterSet(fs, event)
         /\ DOMAIN other.rules = DOMAIN fs.rules
<1> DEFINE rules == fs.rules
           back == other.rules
<1>1. /\ DOMAIN back = DOMAIN rules
      /\ \A n \in DOMAIN rules : \E k \in DOMAIN rules : back[k] = rules[n]
      /\ \A n \in DOMAIN rules : \E k \in DOMAIN rules : back[n] = rules[k]
  BY DEF Bijection, Surjection
<1>2. fs.rules = rules /\ other.rules = back
  OBVIOUS
<1> HIDE DEF back, rules
<1>3. (\E n \in DOMAIN back : Raises(back[n], event))
        <=> (\E n \in DOMAIN rules : Raises(rules[n], event))
  BY <1>1
<1>4. (\E n \in DOMAIN back : Matches(back[n], event))
        <=> (\E n \in DOMAIN rules : Matches(rules[n], event))
  BY <1>1
<1>5. (\A n \in DOMAIN back : Matches(back[n], event))
        <=> (\A n \in DOMAIN rules : Matches(rules[n], event))
  BY <1>1
<1>6. ApplyFilterSet(other, event) = ApplyFilterSet(fs, event)
  BY <1>2, <1>3, <1>4, <1>5 DEF ApplyFilterSet
<1> QED  BY <1>1, <1>2, <1>6

(* No operator holds of a field that is not there.                         *)
LEMMA MatchesHasField ==
  ASSUME NEW rule, NEW event, Matches(rule, event)
  PROVE  Resolve(event, rule.field) # Missing
BY DEF Matches, Missing
=============================================================================
