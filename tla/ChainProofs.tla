------------------------------ MODULE ChainProofs ------------------------------
(***************************************************************************)
(* Theorems of ActionChain, for every base of knowledge, every world,      *)
(* screen, contract and goal: what is taken for done was seen to be done,  *)
(* nothing that keeps the rules of its policy is eligible for execution,   *)
(* and the search of the planner finds a shortest way by the world of now. *)
(* The lemmas before them follow an action from the steps of a behaviour   *)
(* through the way found for it to the verdict on it.                      *)
(***************************************************************************)
EXTENDS ActionChain, FiniteSetTheorems, WellFoundedInduction, TLAPS

-----------------------------------------------------------------------------
(* What is proposed.                                                       *)
StepTypeNames == {"WAIT", "NAVIGATE", "QUEST_ANALYSIS", "INTERACT", "COMBAT", "COLLECT", "VERIFY"}
ActionTypes == (StepTypeNames \ {"QUEST_ANALYSIS"}) \cup {"OBSERVE"}

\* Every type of step has its rank (behavior/sequence.py).
LEMMA RankedTypes ==
  DOMAIN StepRank = StepTypeNames /\ \A t \in StepTypeNames : StepRank[t] \in Nat
  BY DEF StepRank, StepTypeNames

\* Sorting neither adds a step nor loses one.
LEMMA StablyOrdered ==
  ASSUME NEW T, \A s \in T : s.type \in StepTypeNames, NEW steps \in Seq(T)
  PROVE  /\ InStepOrder(steps) \in Seq(T)
         /\ Len(InStepOrder(steps)) = Len(steps)
  <1> DEFINE S == DOMAIN steps
             c == Len(steps)
             rank(i) == StepRank[steps[i].type]
             Precedes(j, i) == rank(j) < rank(i) \/ (rank(j) = rank(i) /\ j < i)
             earlier(i) == {j \in S : Precedes(j, i)}
             place == [i \in S |-> Cardinality(earlier(i))]
             nth(n) == CHOOSE i \in S : Cardinality(earlier(i)) = n - 1
  <1>1. c \in Nat /\ S = 1..c
    OBVIOUS
  <1>2. IsFiniteSet(S) /\ Cardinality(S) = c
    <2>1. IsFiniteSet(1..c) /\ Cardinality(1..c) = IF 1 > c THEN 0 ELSE c - 1 + 1
      BY <1>1, FS_Interval
    <2> QED BY <1>1, <2>1
  <1>3. \A i \in S : steps[i] \in T /\ rank(i) \in Nat
    BY RankedTypes
  <1>4. InStepOrder(steps) = [n \in 1..c |-> steps[nth(n)]]
    BY DEF InStepOrder
  <1> HIDE DEF rank, c, S
  <1>5. \A i, j \in S : i # j => Precedes(i, j) \/ Precedes(j, i)
    BY <1>1, <1>3
  <1>6. \A i, j, k \in S : Precedes(i, j) /\ Precedes(j, k) => Precedes(i, k)
    BY <1>1, <1>3
  <1>7. \A i \in S : ~Precedes(i, i)
    BY <1>1, <1>3
  <1> HIDE DEF Precedes
  <1>8. \A i \in S : IsFiniteSet(earlier(i)) /\ Cardinality(earlier(i)) \in 0..(c - 1)
    <2> TAKE i \in S
    <2>1. earlier(i) \subseteq S \ {i}
      BY <1>7
    <2>2. IsFiniteSet(S \ {i}) /\ Cardinality(S \ {i}) = c - 1
      BY <1>2, FS_RemoveElement
    <2>3. IsFiniteSet(earlier(i)) /\ Cardinality(earlier(i)) <= c - 1
      BY <2>1, <2>2, FS_Subset
    <2>4. Cardinality(earlier(i)) \in Nat
      BY <2>3, FS_CardinalityType
    <2> QED BY <1>1, <2>3, <2>4
  <1>9. \A i, j \in S : Precedes(i, j) => Cardinality(earlier(i)) # Cardinality(earlier(j))
    <2> SUFFICES ASSUME NEW i \in S, NEW j \in S, Precedes(i, j)
                 PROVE  Cardinality(earlier(i)) # Cardinality(earlier(j))
      OBVIOUS
    <2>1. earlier(i) \subseteq earlier(j) /\ i \in earlier(j) /\ i \notin earlier(i)
      BY <1>6, <1>7
    <2> HIDE DEF earlier
    <2>2. earlier(i) \in SUBSET earlier(j) /\ earlier(i) # earlier(j) /\ IsFiniteSet(earlier(j))
      BY <1>8, <2>1
    <2> QED BY <2>2, FS_Subset
  <1> HIDE DEF earlier
  <1>10. place \in Injection(S, 0..(c - 1))
    <2>1. place \in [S -> 0..(c - 1)]
      BY <1>8
    <2>2. \A i, j \in S : place[i] = place[j] => i = j
      BY <1>5, <1>9
    <2> HIDE DEF place
    <2> QED BY <2>1, <2>2 DEF Injection, IsInjective
  <1>11. IsFiniteSet(0..(c - 1)) /\ Cardinality(0..(c - 1)) = c
    <2>1. 0 \in Int /\ c - 1 \in Int
      BY <1>1
    <2>2. IsFiniteSet(0..(c - 1)) /\ Cardinality(0..(c - 1)) = IF 0 > c - 1 THEN 0 ELSE (c - 1) - 0 + 1
      BY <2>1, FS_Interval
    <2> QED BY <1>1, <2>2
  <1>12. place \in Surjection(S, 0..(c - 1))
    BY <1>2, <1>10, <1>11, FS_Injection
  <1>13. \A n \in 1..c : nth(n) \in S
    <2> SUFFICES ASSUME NEW n \in 1..c PROVE \E i \in S : Cardinality(earlier(i)) = n - 1
      OBVIOUS
    <2>1. n - 1 \in 0..(c - 1)
      BY <1>1
    <2>2. \E i \in S : place[i] = n - 1
      BY <1>12, <2>1 DEF Surjection
    <2> QED BY <2>2
  <1> QED
    <2> DEFINE ordered == [n \in 1..c |-> steps[nth(n)]]
    <2>1. ordered \in [1..c -> T]
      BY <1>3, <1>13
    <2> HIDE DEF ordered, nth
    <2>2. ordered \in Seq(T) /\ Len(ordered) = c
      BY <1>1, <2>1
    <2> QED BY <1>4, <2>2 DEF ordered, nth, c

\* A behaviour plan always has steps, all of known types.
LEMMA StepsOfGoals ==
  ASSUME NEW gs, NEW hint
  PROVE  StepTypes(gs, hint) \in Seq(StepTypeNames) /\ StepTypes(gs, hint) # <<>>
  <1> DEFINE known == {<<"NAVIGATE", "INTERACT", "VERIFY">>, <<"NAVIGATE", "COMBAT", "VERIFY">>,
                       <<"NAVIGATE", "COLLECT", "VERIFY">>, <<"QUEST_ANALYSIS", "VERIFY">>,
                       <<"QUEST_ANALYSIS", "WAIT">>, <<"QUEST_ANALYSIS">>}
  <1>1. \A s \in known : s \in Seq(StepTypeNames) /\ s # <<>>
    <2>1. \A a \in StepTypeNames :
            /\ <<a>> \in Seq(StepTypeNames) /\ <<a>> # <<>>
            /\ \A b \in StepTypeNames :
                 /\ <<a, b>> \in Seq(StepTypeNames) /\ <<a, b>> # <<>>
                 /\ \A d \in StepTypeNames : <<a, b, d>> \in Seq(StepTypeNames) /\ <<a, b, d>> # <<>>
      OBVIOUS
    <2>2. {"WAIT", "NAVIGATE", "QUEST_ANALYSIS", "INTERACT", "COMBAT", "COLLECT", "VERIFY"} \subseteq StepTypeNames
      BY DEF StepTypeNames
    <2> QED BY <2>1, <2>2
  <1>2. StepTypes(gs, hint) \in known
    <2> DEFINE Says(theme) == \E g \in gs : theme \in {Theme[g.quest], Theme[hint]}
               Of(type) == \E g \in gs : g.type = type
    <2>1. StepTypes(gs, hint) =
            CASE Of("NPC_INTERACTION_REFERENCE") -> <<"NAVIGATE", "INTERACT", "VERIFY">>
              [] Of("QUEST_PROGRESS") ->
                   IF Says("kill") THEN <<"NAVIGATE", "COMBAT", "VERIFY">>
                   ELSE IF Says("collect") THEN <<"NAVIGATE", "COLLECT", "VERIFY">>
                   ELSE <<"QUEST_ANALYSIS", "VERIFY">>
              [] Of("KNOWLEDGE_QUERY") -> <<"QUEST_ANALYSIS", "WAIT">>
              [] OTHER -> <<"QUEST_ANALYSIS">>
      BY DEF StepTypes
    <2> HIDE DEF Says, Of
    <2> QED BY <2>1
  <1> QED
    BY <1>1, <1>2

\* Of an action it is known what it is for, and one goes where the route goes to.
Proposed(action, way_on) ==
  /\ action.type \in ActionTypes
  /\ action.type = "NAVIGATE" /\ way_on.target # NoName => action.target = way_on.target

\* Every plan proposes at least one action, each with the target its type gives it.
LEMMA SomethingIsProposed ==
  ASSUME NEW gs, NEW r, NEW events, NEW hint, NEW acts,
         acts = Propose(PlanBehavior(gs, r, events, hint), r)
  PROVE  /\ Len(acts) \in Nat /\ Len(acts) >= 1 /\ DOMAIN acts = 1..Len(acts)
         /\ \A i \in DOMAIN acts : Proposed(acts[i], r)
  <1> DEFINE T == {s \in {BehaviorStep(ty, tg) : ty \in StepTypeNames, tg \in {NoName, StepTarget(gs, hint)}} : TRUE}
             types == StepTypes(gs, hint)
             wanted == [i \in DOMAIN types |-> BehaviorStep(types[i], StepTarget(gs, hint))]
             wait == IF events = {} THEN <<>> ELSE <<BehaviorStep("WAIT", NoName)>>
             steps == InStepOrder(wanted \o wait)
  <1>1. \A s \in T : s.type \in StepTypeNames
    BY DEF BehaviorStep
  <1>2. types \in Seq(StepTypeNames) /\ types # <<>>
    BY StepsOfGoals
  <1>3. wanted \in Seq(T) /\ Len(wanted) >= 1
    <2> HIDE DEF types
    <2>1. Len(types) \in Nat /\ Len(types) >= 1 /\ DOMAIN types = 1..Len(types)
      BY <1>2
    <2>2. wanted \in [1..Len(types) -> T]
      BY <1>2, <2>1
    <2> HIDE DEF wanted, T
    <2> QED BY <2>1, <2>2
  <1>4. wait \in Seq(T)
    <2>1. BehaviorStep("WAIT", NoName) \in T
      BY DEF StepTypeNames
    <2> HIDE DEF T
    <2> QED BY <2>1
  <1>5. wanted \o wait \in Seq(T) /\ Len(wanted \o wait) >= 1
    <2> HIDE DEF wanted, wait, T
    <2> QED BY <1>3, <1>4
  <1>6. steps \in Seq(T) /\ Len(steps) >= 1
    <2> HIDE DEF T, wanted, wait
    <2> QED BY <1>1, <1>5, StablyOrdered
  <1>7. PlanBehavior(gs, r, events, hint).steps = steps
    BY DEF PlanBehavior
  <1> HIDE DEF steps
  <1>8. /\ DOMAIN acts = DOMAIN steps
        /\ \A i \in DOMAIN steps : /\ acts[i].type = ActionOfStep(steps[i])
                                   /\ acts[i].target = ActionTarget(steps[i], r)
    BY <1>7 DEF Propose, ActionProposal
  <1>9. Len(acts) = Len(steps)
    <2>1. acts = [i \in 1..Len(steps) |-> acts[i]]
      BY <1>6, <1>7 DEF Propose
    <2> QED BY <1>6, <2>1
  <1>10. \A i \in DOMAIN acts : Proposed(acts[i], r)
    <2> TAKE i \in DOMAIN acts
    <2>1. steps[i].type \in StepTypeNames
      BY <1>1, <1>6, <1>8
    <2>2. acts[i].type \in ActionTypes
      BY <1>8, <2>1 DEF ActionOfStep, ActionTypes, StepTypeNames
    <2>3. ASSUME acts[i].type = "NAVIGATE", r.target # NoName PROVE acts[i].target = r.target
      <3>1. steps[i].type = "NAVIGATE"
        BY <1>8, <2>3 DEF ActionOfStep
      <3> QED BY <1>8, <2>3, <3>1 DEF ActionTarget
    <2> QED BY <2>2, <2>3 DEF Proposed
  <1> QED
    BY <1>6, <1>8, <1>9, <1>10

-----------------------------------------------------------------------------
(* The search of a path, and what can be reached.                           *)
LEMMA SetInduction ==
  ASSUME NEW T \in SUBSET Nat, 0 \in T, \A n \in T : n + 1 \in T
  PROVE  T = Nat
  <1> DEFINE R == OpToRel(<, Nat)
  <1>1. R = {ss \in Nat \X Nat : ss[1] < ss[2]}
    BY DEF OpToRel
  <1>2. IsWellFoundedOn(R, Nat)
    BY NatLessThanWellFounded
  <1> HIDE DEF R
  <1> SUFFICES ASSUME Nat \ T # {} PROVE FALSE
    OBVIOUS
  <1>3. PICK x \in Nat \ T : \A y \in Nat \ T : <<y, x>> \notin R
    BY <1>2, WFMin
  <1>4. x # 0 /\ x - 1 \in Nat /\ x - 1 < x
    OBVIOUS
  <1>5. x - 1 \in T
    <2>1. <<x - 1, x>> \in R
      BY <1>1, <1>4
    <2> QED BY <1>3, <1>4, <2>1
  <1> QED
    BY <1>4, <1>5

Places == Len(NamesInOrder)
Names == {NamesInOrder[i] : i \in 1..Places}

\* There are at most as many names as places in the list of them.
LEMMA NamesAreFinite ==
  /\ Places \in Nat /\ DOMAIN NamesInOrder = 1..Places
  /\ IsFiniteSet(Names) /\ Cardinality(Names) <= Places
  <1>1. Places \in Nat /\ DOMAIN NamesInOrder = 1..Places
    BY MapsAreListed DEF Places
  <1> DEFINE f == [i \in 1..Places |-> NamesInOrder[i]]
  <1>2. f \in Surjection(1..Places, Names)
    BY DEF Surjection, Names
  <1>3. IsFiniteSet(1..Places) /\ Cardinality(1..Places) = Places
    <2>1. IsFiniteSet(1..Places) /\ Cardinality(1..Places) = IF 1 > Places THEN 0 ELSE Places - 1 + 1
      BY <1>1, FS_Interval
    <2> QED BY <1>1, <2>1
  <1> HIDE DEF f
  <1> QED
    BY <1>1, <1>2, <1>3, FS_Surjection

\* Different names have different places in the order.
LEMMA PlacesDiffer ==
  ASSUME NEW m \in Names, NEW n \in Names
  PROVE  Nav!Position(m) \in Nat /\ (Nav!Position(m) = Nav!Position(n) => m = n)
  BY NamesAreFinite DEF Nav!Position, Names

\* Navigation counts as every module does.
LEMMA SameCardinality == \A S : Nav!Cardinality(S) = Cardinality(S)
  BY DEF Nav!Cardinality, Cardinality

\* Sorting names loses none and adds none.
LEMMA NamesSorted ==
  ASSUME NEW names \in SUBSET Names
  PROVE  /\ Nav!InOrder(names) \in Seq(names)
         /\ Len(Nav!InOrder(names)) = Cardinality(names)
         /\ \A m \in names : \E i \in DOMAIN Nav!InOrder(names) : Nav!InOrder(names)[i] = m
  <1> DEFINE c == Cardinality(names)
             Precedes(j, i) == Nav!Position(j) < Nav!Position(i)
             earlier(i) == {j \in names : Precedes(j, i)}
             place == [i \in names |-> Cardinality(earlier(i))]
             nth(n) == CHOOSE i \in names : Cardinality(earlier(i)) = n - 1
  <1>1. IsFiniteSet(names) /\ c \in Nat
    BY NamesAreFinite, FS_Subset, FS_CardinalityType
  <1>4. Nav!InOrder(names) = [n \in 1..c |-> nth(n)]
    BY SameCardinality DEF Nav!InOrder
  <1>2. \A i, j \in names : i # j => Precedes(i, j) \/ Precedes(j, i)
    BY PlacesDiffer
  <1>3. \A i, j, k \in names : Precedes(i, j) /\ Precedes(j, k) => Precedes(i, k)
    BY PlacesDiffer
  <1>5. \A i \in names : ~Precedes(i, i)
    BY PlacesDiffer
  <1> HIDE DEF Precedes, c
  <1>8. \A i \in names : IsFiniteSet(earlier(i)) /\ Cardinality(earlier(i)) \in 0..(c - 1)
    <2> TAKE i \in names
    <2>1. earlier(i) \subseteq names \ {i}
      BY <1>5
    <2>2. IsFiniteSet(names \ {i}) /\ Cardinality(names \ {i}) = c - 1
      BY <1>1, FS_RemoveElement DEF c
    <2>3. IsFiniteSet(earlier(i)) /\ Cardinality(earlier(i)) <= c - 1
      BY <2>1, <2>2, FS_Subset
    <2>4. Cardinality(earlier(i)) \in Nat
      BY <2>3, FS_CardinalityType
    <2> QED BY <1>1, <2>3, <2>4
  <1>9. \A i, j \in names : Precedes(i, j) => Cardinality(earlier(i)) # Cardinality(earlier(j))
    <2> SUFFICES ASSUME NEW i \in names, NEW j \in names, Precedes(i, j)
                 PROVE  Cardinality(earlier(i)) # Cardinality(earlier(j))
      OBVIOUS
    <2>1. earlier(i) \subseteq earlier(j) /\ i \in earlier(j) /\ i \notin earlier(i)
      BY <1>3, <1>5
    <2> HIDE DEF earlier
    <2>2. earlier(i) \in SUBSET earlier(j) /\ earlier(i) # earlier(j) /\ IsFiniteSet(earlier(j))
      BY <1>8, <2>1
    <2> QED BY <2>2, FS_Subset
  <1> HIDE DEF earlier
  <1>10. place \in Injection(names, 0..(c - 1))
    <2>1. place \in [names -> 0..(c - 1)]
      BY <1>8
    <2>2. \A i, j \in names : place[i] = place[j] => i = j
      BY <1>2, <1>9
    <2> HIDE DEF place
    <2> QED BY <2>1, <2>2 DEF Injection, IsInjective
  <1>11. IsFiniteSet(0..(c - 1)) /\ Cardinality(0..(c - 1)) = c
    <2>1. 0 \in Int /\ c - 1 \in Int
      BY <1>1
    <2>2. IsFiniteSet(0..(c - 1)) /\ Cardinality(0..(c - 1)) = IF 0 > c - 1 THEN 0 ELSE (c - 1) - 0 + 1
      BY <2>1, FS_Interval
    <2> QED BY <1>1, <2>2
  <1>12. place \in Surjection(names, 0..(c - 1))
    <2> HIDE DEF place
    <2> QED BY <1>1, <1>10, <1>11, FS_Injection DEF c
  <1>13. \A n \in 1..c : nth(n) \in names /\ place[nth(n)] = n - 1
    <2> SUFFICES ASSUME NEW n \in 1..c PROVE \E i \in names : Cardinality(earlier(i)) = n - 1
      OBVIOUS
    <2>1. n - 1 \in 0..(c - 1)
      BY <1>1
    <2>2. \E i \in names : place[i] = n - 1
      BY <1>12, <2>1 DEF Surjection
    <2> QED BY <2>2
  <1>14. \A m \in names : \E n \in 1..c : nth(n) = m
    <2> SUFFICES ASSUME NEW m \in names PROVE \E n \in 1..c : nth(n) = m
      OBVIOUS
    <2>1. place[m] \in 0..(c - 1)
      BY <1>8
    <2> DEFINE n == place[m] + 1
    <2>2. n \in 1..c /\ n - 1 = place[m]
      BY <1>1, <2>1
    <2>3. nth(n) \in names /\ place[nth(n)] = place[m]
      BY <1>13, <2>2
    <2> HIDE DEF nth, n, place
    <2>4. nth(n) = m
      BY <1>10, <2>3 DEF Injection, IsInjective
    <2> QED BY <2>2, <2>4
  <1> QED
    <2> DEFINE ordered == [n \in 1..c |-> nth(n)]
    <2>1. ordered \in [1..c -> names] /\ DOMAIN ordered = 1..c /\ \A n \in 1..c : ordered[n] = nth(n)
      BY <1>13
    <2> HIDE DEF ordered, nth
    <2>2. ordered \in Seq(names) /\ Len(ordered) = c
      BY <1>1, <2>1
    <2> QED BY <1>4, <1>14, <2>1, <2>2 DEF ordered, nth, c

\* What the loop of find_path does in one turn, and where it begins.
Advanced(E, t, x) == IF x.queue = <<>> \/ x.found # <<>> THEN x ELSE Nav!Expand(E, t, x)
Begun(s) == [queue |-> <<<<s>>>>, visited |-> {s}, found |-> <<>>]

SearchedBy(E, s, t, f) ==
  f = [n \in 0..Places |-> IF n = 0 THEN Begun(s) ELSE Advanced(E, t, f[n - 1])]

\* The recursive search exists: by induction on the number of turns.
LEMMA SearchUnfolds ==
  ASSUME NEW E, NEW s, NEW t
  PROVE  \E f : SearchedBy(E, s, t, f)
  <1> DEFINE body(f, n) == IF n = 0 THEN Begun(s) ELSE Advanced(E, t, f[n - 1])
             T == {k \in Nat : \E f : f = [n \in 0..k |-> body(f, n)]}
  <1>1. 0 \in T
    <2>1. [n \in 0..0 |-> Begun(s)] = [n \in 0..0 |-> body([m \in 0..0 |-> Begun(s)], n)]
      OBVIOUS
    <2> HIDE DEF body
    <2> QED BY <2>1
  <1>2. \A k \in T : k + 1 \in T
    <2> SUFFICES ASSUME NEW k \in T PROVE k + 1 \in T
      OBVIOUS
    <2>1. PICK f : f = [n \in 0..k |-> body(f, n)]
      OBVIOUS
    <2> DEFINE h == [n \in 0..(k + 1) |-> IF n = k + 1 THEN body(f, k + 1) ELSE f[n]]
    <2>2. \A n \in 0..(k + 1) : h[n] = body(h, n)
      <3> TAKE n \in 0..(k + 1)
      <3>1. n # 0 => n - 1 \in 0..(k + 1) /\ n - 1 # k + 1 /\ h[n - 1] = f[n - 1]
        OBVIOUS
      <3>2. n # k + 1 => n \in 0..k /\ h[n] = f[n] /\ f[n] = body(f, n)
        <4>1. n # k + 1 => n \in 0..k /\ h[n] = f[n]
          OBVIOUS
        <4>2. n \in 0..k => f[n] = body(f, n)
          <5> HIDE DEF body
          <5> QED BY <2>1
        <4> QED BY <4>1, <4>2
      <3>3. n = k + 1 => h[n] = body(f, n) /\ n # 0
        OBVIOUS
      <3> HIDE DEF h
      <3> QED BY <3>1, <3>2, <3>3
    <2>3. h = [n \in 0..(k + 1) |-> body(h, n)]
      <3>1. h = [n \in 0..(k + 1) |-> h[n]]
        OBVIOUS
      <3> HIDE DEF h
      <3> QED BY <2>2, <3>1
    <2> HIDE DEF h
    <2>4. \E g : g = [n \in 0..(k + 1) |-> body(g, n)]
      BY <2>3
    <2>5. k + 1 \in Nat
      OBVIOUS
    <2> HIDE DEF body
    <2> QED BY <2>4, <2>5, Zenon
  <1>3. Places \in T
    <2>1. T \in SUBSET Nat /\ Places \in Nat
      BY NamesAreFinite
    <2> HIDE DEF T
    <2> QED BY <1>1, <1>2, <2>1, SetInduction
  <1> QED
    BY <1>3 DEF SearchedBy

\* The turns of the search, of which the last has the path.
Turns(E, s, t, f) ==
  /\ f[0] = Begun(s) /\ \A n \in 1..Places : f[n] = Advanced(E, t, f[n - 1])
  /\ Nav!FindPath(E, s, t) = f[Places].found

\* The planner's search is some such function, taken as far as there are names.
LEMMA SearchOf ==
  ASSUME NEW E, NEW s, NEW t, s # t, s \in UNION E, t \in UNION E
  PROVE  \E f : Turns(E, s, t, f)
  <1> DEFINE body(f, n) == IF n = 0 THEN Begun(s) ELSE Advanced(E, t, f[n - 1])
             search == CHOOSE f : f = [n \in 0..Places |-> body(f, n)]
  <1>1. search = [n \in 0..Places |-> body(search, n)]
    <2>1. \E f : f = [n \in 0..Places |-> body(f, n)]
      <3>1. \E f : SearchedBy(E, s, t, f)
        BY SearchUnfolds
      <3> QED BY <3>1 DEF SearchedBy
    <2> HIDE DEF body
    <2> QED BY <2>1, Zenon
  <1>2. Nav!FindPath(E, s, t) = search[Places].found
    BY DEF Nav!FindPath, Advanced, Begun, Places
  <1> HIDE DEF search
  <1>3. Places \in Nat
    BY NamesAreFinite
  <1>4. search[0] = Begun(s) /\ \A n \in 1..Places : search[n] = Advanced(E, t, search[n - 1])
    BY <1>1, <1>3
  <1> QED
    BY <1>2, <1>4 DEF Turns

\* The maps within so many crossings.
Balls(E, s, ball) ==
  ball[0] = {s} /\ \A n \in 1..Places : ball[n] = ball[n - 1] \cup UNION {Nav!NextTo(E, m) : m \in ball[n - 1]}

\* The planner's edges next to a map are the maps reachable from it in one step.
LEMMA EdgesAreWays ==
  ASSUME NEW w, NEW m
  PROVE  Nav!NextTo(Nav!EdgesOf(w.connections), m) = Nav!Reachable(w, m)
  <1>1. ASSUME NEW n, n \in Nav!NextTo(Nav!EdgesOf(w.connections), m) PROVE n \in Nav!Reachable(w, m)
    BY <1>1 DEF Nav!NextTo, Nav!EdgesOf, Nav!Reachable
  <1>2. ASSUME NEW n, n \in Nav!Reachable(w, m) PROVE n \in Nav!NextTo(Nav!EdgesOf(w.connections), m)
    <2>1. PICK c \in w.connections : {c.source, c.target} = {m, n}
      BY <1>2 DEF Nav!Reachable
    <2> QED BY <2>1 DEF Nav!NextTo, Nav!EdgesOf
  <1> QED
    BY <1>1, <1>2

Spread(w, S) == S \cup UNION {Nav!Reachable(w, m) : m \in S}

\* What can be reached in n steps unfolds, like the search, turn by turn.
LEMMA WithinUnfolds ==
  ASSUME NEW w, NEW s
  PROVE  Balls(Nav!EdgesOf(w.connections), s, Within(w, s))
  <1> DEFINE body(f, n) == IF n = 0 THEN {s} ELSE Spread(w, f[n - 1])
             T == {k \in Nat : \E f : f = [n \in 0..k |-> body(f, n)]}
             reach == CHOOSE f : f = [n \in 0..Places |-> body(f, n)]
  <1>1. 0 \in T
    <2>1. [n \in 0..0 |-> {s}] = [n \in 0..0 |-> body([m \in 0..0 |-> {s}], n)]
      OBVIOUS
    <2> HIDE DEF body
    <2> QED BY <2>1
  <1>2. \A k \in T : k + 1 \in T
    <2> SUFFICES ASSUME NEW k \in T PROVE k + 1 \in T
      OBVIOUS
    <2>1. PICK f : f = [n \in 0..k |-> body(f, n)]
      OBVIOUS
    <2> DEFINE h == [n \in 0..(k + 1) |-> IF n = k + 1 THEN body(f, k + 1) ELSE f[n]]
    <2>2. \A n \in 0..(k + 1) : h[n] = body(h, n)
      <3> TAKE n \in 0..(k + 1)
      <3>1. n # 0 => n - 1 \in 0..(k + 1) /\ n - 1 # k + 1 /\ h[n - 1] = f[n - 1]
        OBVIOUS
      <3>2. n # k + 1 => n \in 0..k /\ h[n] = f[n] /\ f[n] = body(f, n)
        <4>1. n # k + 1 => n \in 0..k /\ h[n] = f[n]
          OBVIOUS
        <4>2. n \in 0..k => f[n] = body(f, n)
          <5> HIDE DEF body
          <5> QED BY <2>1
        <4> QED BY <4>1, <4>2
      <3>3. n = k + 1 => h[n] = body(f, n) /\ n # 0
        OBVIOUS
      <3> HIDE DEF h
      <3> QED BY <3>1, <3>2, <3>3
    <2>3. h = [n \in 0..(k + 1) |-> body(h, n)]
      <3>1. h = [n \in 0..(k + 1) |-> h[n]]
        OBVIOUS
      <3> HIDE DEF h
      <3> QED BY <2>2, <3>1
    <2> HIDE DEF h
    <2>4. \E g : g = [n \in 0..(k + 1) |-> body(g, n)]
      BY <2>3
    <2>5. k + 1 \in Nat
      OBVIOUS
    <2> HIDE DEF body
    <2> QED BY <2>4, <2>5, Zenon
  <1>3. Places \in T
    <2>1. T \in SUBSET Nat /\ Places \in Nat
      BY NamesAreFinite
    <2> HIDE DEF T
    <2> QED BY <1>1, <1>2, <2>1, SetInduction
  <1>4. reach = [n \in 0..Places |-> body(reach, n)]
    BY <1>3
  <1>5. Within(w, s) = reach
    BY DEF Within, Places, Spread
  <1> HIDE DEF reach
  <1>6. Places \in Nat
    BY NamesAreFinite
  <1>7. reach[0] = {s} /\ \A n \in 1..Places : reach[n] = Spread(w, reach[n - 1])
    BY <1>4, <1>6
  <1>8. \A S : Spread(w, S) = S \cup UNION {Nav!NextTo(Nav!EdgesOf(w.connections), m) : m \in S}
    BY EdgesAreWays DEF Spread
  <1> QED
    BY <1>5, <1>7, <1>8 DEF Balls

\* A way from s, from node to node, than which none to its end is shorter.
Final(p) == p[Len(p)]
IsWay(E, s, p) ==
  /\ p \in Seq(UNION E) /\ Len(p) >= 1 /\ p[1] = s
  /\ \A i \in 1..(Len(p) - 1) : p[i + 1] \in Nav!NextTo(E, p[i])
Shortest(E, s, ball, p) ==
  /\ IsWay(E, s, p) /\ Final(p) \in ball[Len(p) - 1]
  /\ Len(p) >= 2 => Final(p) \notin ball[Len(p) - 2]

\* After n nodes were taken off the queue: it holds shortest ways, the shorter ones first
\* and none shorter than the first by more than one; what was visited but has
\* neighbours that were not is the end of one of them.
Searching(E, s, t, ball, n, q, V) ==
  /\ q \in Seq(Seq(UNION E)) /\ s \in V /\ V \in SUBSET UNION E /\ t \notin V
  /\ \A i \in DOMAIN q : Shortest(E, s, ball, q[i]) /\ Len(q[i]) <= n + 1
  /\ \A i, j \in DOMAIN q : i <= j => Len(q[i]) <= Len(q[j]) /\ Len(q[j]) <= Len(q[i]) + 1
  /\ \A v \in V : Nav!NextTo(E, v) \subseteq V \/ \E i \in DOMAIN q : v = Final(q[i])
  /\ q # <<>> => ball[Len(q[1]) - 1] \subseteq V /\ n + Len(q) = Cardinality(V)

Arrived(E, s, t, ball, p) == Shortest(E, s, ball, p) /\ Len(p) \in 2..(Places + 1) /\ Final(p) = t

Searched(q, V) == [queue |-> q, visited |-> V, found |-> <<>>]

OneAfter(S, x, y, z) ==
  /\ z \in Seq(S) /\ Len(z) = Len(x) + Len(y)
  /\ \A i \in 1..(Len(x) + Len(y)) : z[i] = IF i <= Len(x) THEN x[i] ELSE y[i - Len(x)]

\* The elements of a queue after another was joined to it.
LEMMA Joined ==
  ASSUME NEW S, NEW x \in Seq(S), NEW y \in Seq(S)
  PROVE  OneAfter(S, x, y, x \o y)
  BY DEF OneAfter

\* One step further along a shortest way.
LongerBy(E, s, ball, p, m) ==
  /\ Append(p, m) \in Seq(UNION E) /\ Len(Append(p, m)) = Len(p) + 1 /\ Final(Append(p, m)) = m
  /\ Shortest(E, s, ball, Append(p, m))

\* A shortest way, gone one step further to where no shorter one leads, is a shortest way.
LEMMA WayOn ==
  ASSUME NEW E, NEW s, NEW ball, Balls(E, s, ball), NEW p, Shortest(E, s, ball, p), Len(p) \in 1..Places,
         NEW m, m \in Nav!NextTo(E, Final(p)), m \notin ball[Len(p) - 1]
  PROVE  LongerBy(E, s, ball, p, m)
  <1> DEFINE r == Append(p, m)
             k == Len(p)
  <1>1. p \in Seq(UNION E) /\ k \in 1..Places /\ p[1] = s /\ \A i \in 1..(k - 1) : p[i + 1] \in Nav!NextTo(E, p[i])
    BY DEF Shortest, IsWay
  <1>2. m \in UNION E
    BY DEF Nav!NextTo
  <1>3. /\ r \in Seq(UNION E) /\ Len(r) = k + 1 /\ r[k + 1] = m
        /\ \A i \in 1..k : r[i] = p[i]
    BY <1>1, <1>2
  <1>4. Final(r) = m /\ r[k] = Final(p) /\ r[1] = s
    BY <1>1, <1>3 DEF Final
  <1> HIDE DEF r
  <1>5. \A i \in 1..(Len(r) - 1) : r[i + 1] \in Nav!NextTo(E, r[i])
    <2> TAKE i \in 1..(Len(r) - 1)
    <2>1. i \in 1..k
      BY <1>1, <1>3
    <2>2. CASE i = k
      BY <1>3, <1>4, <2>2
    <2>3. CASE i # k
      <3>1. i \in 1..(k - 1) /\ i + 1 \in 1..k
        BY <1>1, <2>1, <2>3
      <3> QED BY <1>1, <1>3, <2>1, <3>1
    <2> QED BY <2>2, <2>3
  <1>6. m \in ball[k] /\ m \notin ball[k - 1]
    <2>1. ball[k] = ball[k - 1] \cup UNION {Nav!NextTo(E, x) : x \in ball[k - 1]}
      BY <1>1 DEF Balls
    <2> QED BY <2>1 DEF Shortest
  <1>7. Len(r) - 1 = k /\ Len(r) - 2 = k - 1 /\ Len(r) >= 1
    BY <1>1, <1>3
  <1>8. Shortest(E, s, ball, r)
    BY <1>3, <1>4, <1>5, <1>6, <1>7 DEF Shortest, IsWay
  <1> QED
    BY <1>3, <1>4, <1>8 DEF r, LongerBy

\* A node taken off the queue.
LEMMA Expanded ==
  ASSUME NEW E, UNION E \subseteq Names, NEW s, NEW t, NEW ball, Balls(E, s, ball),
         NEW n \in Nat, n < Places, NEW q, NEW V, Searching(E, s, t, ball, n, q, V), q # <<>>,
         NEW y, y = Nav!Expand(E, t, Searched(q, V))
  PROVE  \/ \E r, W : y = Searched(r, W) /\ Searching(E, s, t, ball, n + 1, r, W)
         \/ y.found # <<>> /\ Arrived(E, s, t, ball, y.found)
  <1> DEFINE p == q[1]
             d == Len(p) - 1
             out == Nav!NextTo(E, Final(p)) \ V
             new == Nav!InOrder(out)
             reached == [i \in DOMAIN new |-> Append(p, new[i])]
             r == Tail(q) \o reached
             W == V \cup out
  <1>0. Places \in Nat
    BY NamesAreFinite
  <1>1. /\ q \in Seq(Seq(UNION E)) /\ Len(q) \in Nat /\ Len(q) >= 1 /\ DOMAIN q = 1..Len(q) /\ 1 \in DOMAIN q
        /\ Head(q) = p
    BY DEF Searching
  <1>2. /\ Shortest(E, s, ball, p) /\ p \in Seq(UNION E) /\ Len(p) \in 1..Places /\ d \in Nat
        /\ Len(p) <= n + 1 /\ Len(p) = d + 1
    <2>1. Shortest(E, s, ball, p) /\ Len(p) <= n + 1
      BY <1>1 DEF Searching
    <2> QED BY <1>0, <2>1 DEF Shortest, IsWay
  <1>3. ball[d] \subseteq V /\ n + Len(q) = Cardinality(V) /\ V \in SUBSET UNION E /\ s \in V /\ t \notin V
    BY DEF Searching
  <1>4. out \in SUBSET Names /\ out \in SUBSET UNION E
    BY DEF Nav!NextTo
  <1> HIDE DEF out
  <1>5. new \in Seq(out) /\ Len(new) = Cardinality(out) /\ DOMAIN new = 1..Len(new) /\ Len(new) \in Nat
    BY <1>4, NamesSorted
  <1>6. {new[i] : i \in DOMAIN new} = out
    BY <1>4, <1>5, NamesSorted
  <1>7. y = IF t \in out THEN [Searched(q, V) EXCEPT !.found = Append(p, t)]
            ELSE [Searched(q, V) EXCEPT !.queue = Tail(q) \o reached, !.visited = W]
    <2>1. Nav!ToSet(new) = out
      BY <1>6 DEF Nav!ToSet
    <2>2. Nav!Last(p) = Final(p)
      BY DEF Nav!Last, Final
    <2>3. Searched(q, V).queue = q /\ Searched(q, V).visited = V
      BY DEF Searched
    <2> QED BY <1>1, <2>1, <2>2, <2>3 DEF Nav!Expand, out
  <1>8. \A m \in out : /\ Append(p, m) \in Seq(UNION E) /\ Len(Append(p, m)) = Len(p) + 1
                       /\ Final(Append(p, m)) = m /\ Shortest(E, s, ball, Append(p, m))
    <2> TAKE m \in out
    <2>1. m \in Nav!NextTo(E, Final(p)) /\ m \notin V
      BY DEF out
    <2>2. m \notin ball[Len(p) - 1]
      BY <1>2, <1>3, <2>1
    <2>3. Shortest(E, s, ball, p) /\ Len(p) \in 1..Places
      BY <1>2
    <2> HIDE DEF p
    <2>4. LongerBy(E, s, ball, p, m)
      BY <2>1, <2>2, <2>3, WayOn
    <2> QED BY <2>4 DEF LongerBy
  <1>9. CASE t \in out
    <2>1. y.found = Append(p, t)
      BY <1>7, <1>9 DEF Searched
    <2>2. Len(Append(p, t)) \in 2..(Places + 1)
      BY <1>0, <1>2, <1>8, <1>9
    <2>3. Append(p, t) # <<>>
      BY <1>2
    <2> QED BY <1>8, <1>9, <2>1, <2>2, <2>3 DEF Arrived
  <1>10. CASE t \notin out
    <2>1. y = Searched(r, W)
      BY <1>7, <1>10 DEF Searched
    <2>2. /\ Tail(q) \in Seq(Seq(UNION E)) /\ Len(Tail(q)) = Len(q) - 1
          /\ \A i \in 1..(Len(q) - 1) : Tail(q)[i] = q[i + 1]
      BY <1>1
    <2>3. /\ reached \in Seq(Seq(UNION E)) /\ Len(reached) = Len(new)
          /\ \A i \in 1..Len(new) : reached[i] = Append(p, new[i]) /\ new[i] \in out
      <3>1. \A i \in 1..Len(new) : new[i] \in out
        BY <1>5
      <3>2. reached \in [1..Len(new) -> Seq(UNION E)]
        BY <1>5, <1>8, <3>1
      <3> HIDE DEF reached, new
      <3>3. reached \in Seq(Seq(UNION E)) /\ Len(reached) = Len(new)
        BY <1>5, <3>2
      <3> QED BY <1>5, <3>1, <3>3 DEF reached
    <2> DEFINE a == Len(q) - 1
               b == Len(new)
    <2> HIDE DEF reached, new
    <2>0. a \in Nat /\ b \in Nat /\ Len(q) = a + 1 /\ DOMAIN q = 1..(a + 1)
      BY <1>1, <1>5
    <2>4. /\ r \in Seq(Seq(UNION E)) /\ Len(r) = a + b /\ DOMAIN r = 1..(a + b)
          /\ a \in Nat /\ b \in Nat
          /\ \A i \in 1..a : r[i] = q[i + 1]
          /\ \A i \in (a + 1)..(a + b) : r[i] = reached[i - a] /\ i - a \in 1..b
      <3> HIDE DEF a, b
      <3>1. a \in Nat /\ b \in Nat /\ Len(Tail(q)) = a /\ Len(reached) = b
        BY <2>0, <2>2, <2>3 DEF a, b
      <3>2. /\ r \in Seq(Seq(UNION E)) /\ Len(r) = a + b
            /\ \A i \in 1..(a + b) : r[i] = IF i <= a THEN Tail(q)[i] ELSE reached[i - a]
        <4>1. OneAfter(Seq(UNION E), Tail(q), reached, r)
          BY <2>2, <2>3, Joined, Zenon
        <4> HIDE DEF r
        <4> QED BY <3>1, <4>1 DEF OneAfter
      <3> HIDE DEF r
      <3>3. \A i \in 1..a : Tail(q)[i] = q[i + 1]
        BY <2>2 DEF a
      <3>4. \A i \in 1..a : r[i] = q[i + 1]
        <4> TAKE i \in 1..a
        <4>1. i \in 1..(a + b) /\ i <= a
          BY <3>1
        <4> QED BY <3>2, <3>3, <4>1
      <3>5. \A i \in (a + 1)..(a + b) : r[i] = reached[i - a] /\ i - a \in 1..b
        BY <3>1, <3>2
      <3> QED BY <3>1, <3>2, <3>4, <3>5
    <2> HIDE DEF r, a, b
    <2>5. \A i \in 1..(a + b) :
            \/ i <= a /\ i + 1 \in DOMAIN q /\ r[i] = q[i + 1]
            \/ i > a /\ \E m \in out : r[i] = Append(p, m)
      <3> TAKE i \in 1..(a + b)
      <3>1. CASE i <= a
        BY <2>0, <2>4, <3>1
      <3>2. CASE i > a
        <4>1. i \in (a + 1)..(a + b)
          BY <2>4, <3>2
        <4> QED BY <2>3, <2>4, <3>2, <4>1 DEF b
      <3> QED BY <2>4, <3>1, <3>2
    <2>6. \A i \in DOMAIN r : Shortest(E, s, ball, r[i]) /\ Len(r[i]) \in Nat /\ Len(r[i]) <= n + 2
      <3> TAKE i \in DOMAIN r
      <3>1. CASE \E m \in out : r[i] = Append(p, m)
        <4>1. PICK m \in out : r[i] = Append(p, m)
          BY <3>1
        <4> QED BY <1>2, <1>8, <4>1
      <3>2. CASE i <= a /\ i + 1 \in DOMAIN q /\ r[i] = q[i + 1]
        <4>1. Shortest(E, s, ball, r[i]) /\ Len(r[i]) <= n + 1
          BY <3>2 DEF Searching
        <4> QED BY <4>1 DEF Shortest, IsWay
      <3> QED BY <2>4, <2>5, <3>1, <3>2
    <2>7. \A i \in DOMAIN r : Len(r[i]) >= d + 1 /\ Len(r[i]) <= d + 2 /\ (i > a => Len(r[i]) = d + 2)
      <3> TAKE i \in DOMAIN r
      <3>1. CASE \E m \in out : r[i] = Append(p, m)
        <4>1. PICK m \in out : r[i] = Append(p, m)
          BY <3>1
        <4> QED BY <1>2, <1>8, <4>1
      <3>2. CASE i <= a /\ i + 1 \in DOMAIN q /\ r[i] = q[i + 1]
        <4>1. 1 \in DOMAIN q /\ i + 1 \in DOMAIN q /\ 1 <= i + 1
          BY <1>1, <2>0, <2>4, <3>2
        <4>2. Len(q[1]) <= Len(q[i + 1]) /\ Len(q[i + 1]) <= Len(q[1]) + 1
          BY <4>1 DEF Searching
        <4> QED BY <1>2, <2>4, <2>6, <3>2, <4>2
      <3> QED BY <2>4, <2>5, <3>1, <3>2
    <2>8. \A i, j \in DOMAIN r : i <= j => Len(r[i]) <= Len(r[j]) /\ Len(r[j]) <= Len(r[i]) + 1
      <3> SUFFICES ASSUME NEW i \in DOMAIN r, NEW j \in DOMAIN r, i <= j
                   PROVE  Len(r[i]) <= Len(r[j]) /\ Len(r[j]) <= Len(r[i]) + 1
        OBVIOUS
      <3>1. CASE j > a
        BY <1>2, <2>6, <2>7, <3>1
      <3>2. CASE ~(j > a)
        <4>1. i <= a /\ j <= a
          BY <2>4, <3>2
        <4>2. i + 1 \in DOMAIN q /\ j + 1 \in DOMAIN q /\ r[i] = q[i + 1] /\ r[j] = q[j + 1] /\ i + 1 <= j + 1
          BY <2>4, <2>5, <4>1
        <4> QED BY <4>2 DEF Searching
      <3> QED BY <3>1, <3>2
    <2>9. /\ IsFiniteSet(V) /\ IsFiniteSet(out) /\ IsFiniteSet(W) /\ Cardinality(W) = Cardinality(V) + b
          /\ Cardinality(V) \in Nat
      <3>1. V \in SUBSET Names /\ V \cap out = {}
        BY <1>3 DEF out
      <3>2. IsFiniteSet(V) /\ IsFiniteSet(out)
        BY <1>4, <3>1, NamesAreFinite, FS_Subset
      <3>3. Cardinality(V) \in Nat /\ Cardinality(out) \in Nat
        BY <3>2, FS_CardinalityType
      <3>4. Cardinality({}) = 0
        BY FS_EmptySet
      <3>5. IsFiniteSet(W) /\ Cardinality(W) = Cardinality(V) + Cardinality(out) - Cardinality(V \cap out)
        BY <3>2, FS_Union
      <3>6. Cardinality(V \cap out) = 0
        BY <3>1, <3>4
      <3> HIDE DEF W
      <3> QED BY <1>5, <3>2, <3>3, <3>5, <3>6 DEF b
    <2>10. (n + 1) + Len(r) = Cardinality(W)
      BY <1>1, <1>3, <2>0, <2>4, <2>9
    <2>11. \A v \in W : Nav!NextTo(E, v) \subseteq W \/ \E i \in DOMAIN r : v = Final(r[i])
      <3> SUFFICES ASSUME NEW v \in W, ~(Nav!NextTo(E, v) \subseteq W)
                   PROVE  \E i \in DOMAIN r : v = Final(r[i])
        OBVIOUS
      <3>1. CASE v \in out
        <4>1. PICK k \in 1..b : new[k] = v
          BY <1>5, <1>6, <3>1 DEF b
        <4>2. a + k \in (a + 1)..(a + b) /\ a + k \in 1..(a + b) /\ (a + k) - a = k
          BY <2>4, <4>1
        <4>3. r[a + k] = reached[k]
          BY <2>4, <4>2
        <4>4. r[a + k] = Append(p, v)
          BY <2>3, <4>1, <4>3 DEF b
        <4> QED BY <1>8, <2>4, <3>1, <4>2, <4>4
      <3>2. CASE v \notin out
        <4>1. v \in V /\ ~(Nav!NextTo(E, v) \subseteq V)
          BY <3>2
        <4>2. PICK i \in DOMAIN q : v = Final(q[i])
          BY <4>1 DEF Searching
        <4>3. i # 1
          BY <4>2 DEF out
        <4>4. i - 1 \in 1..a /\ (i - 1) + 1 = i /\ i - 1 \in 1..(a + b)
          BY <2>0, <2>4, <4>3
        <4>5. r[i - 1] = q[i]
          BY <2>4, <4>4
        <4> QED BY <2>4, <4>2, <4>4, <4>5
      <3> QED BY <3>1, <3>2
    <2>12. r # <<>> => ball[Len(r[1]) - 1] \subseteq W
      <3> SUFFICES ASSUME r # <<>> PROVE ball[Len(r[1]) - 1] \subseteq W
        OBVIOUS
      <3>1. 1 \in DOMAIN r
        BY <2>4
      <3>2. Len(r[1]) = d + 1 \/ Len(r[1]) = d + 2
        BY <1>2, <2>6, <2>7, <3>1
      <3>3. CASE Len(r[1]) = d + 1
        BY <1>2, <1>3, <3>3
      <3>4. CASE Len(r[1]) = d + 2
        <4>1. Len(r[1]) - 1 = d + 1 /\ d + 1 \in 1..Places
          BY <1>2, <3>4
        <4>2. ball[d + 1] = ball[d] \cup UNION {Nav!NextTo(E, u) : u \in ball[d]}
          BY <1>2, <4>1 DEF Balls
        <4>3. \A u \in ball[d] : Nav!NextTo(E, u) \subseteq W
          <5> SUFFICES ASSUME NEW u \in ball[d], ~(Nav!NextTo(E, u) \subseteq W) PROVE FALSE
            OBVIOUS
          <5>1. u \in W
            BY <1>3
          <5>2. PICK i \in DOMAIN r : u = Final(r[i])
            BY <2>11, <5>1
          <5>3. Len(r[i]) = d + 2
            <6>1. 1 <= i
              BY <2>4
            <6>2. Len(r[1]) <= Len(r[i])
              BY <2>8, <3>1, <6>1
            <6> QED BY <1>2, <2>6, <2>7, <3>4, <6>2
          <5>4. Len(r[i]) >= 2 /\ Len(r[i]) - 2 = d
            BY <1>2, <5>3
          <5> QED BY <2>6, <5>2, <5>4 DEF Shortest
        <4> QED BY <1>3, <4>1, <4>2, <4>3
      <3> QED BY <3>2, <3>3, <3>4
    <2>13. s \in W /\ W \in SUBSET UNION E /\ t \notin W
      BY <1>3, <1>4, <1>10
    <2>14. \A i \in DOMAIN r : Shortest(E, s, ball, r[i]) /\ Len(r[i]) <= (n + 1) + 1
      BY <2>6
    <2> HIDE DEF W
    <2>15. Searching(E, s, t, ball, n + 1, r, W)
      BY <2>4, <2>8, <2>10, <2>11, <2>12, <2>13, <2>14 DEF Searching
    <2> QED BY <2>1, <2>15
  <1> QED
    BY <1>9, <1>10

\* With more steps one gets at least as far.
LEMMA FartherIsMore ==
  ASSUME NEW E, NEW s, NEW ball, Balls(E, s, ball), NEW j \in 0..Places
  PROVE  ball[j] \subseteq ball[Places]
  <1> DEFINE T == {k \in Nat : k <= Places => \A i \in 0..k : ball[i] \subseteq ball[k]}
  <1>1. 0 \in T
    OBVIOUS
  <1>2. \A k \in T : k + 1 \in T
    <2> SUFFICES ASSUME NEW k \in T, k + 1 <= Places, NEW i \in 0..(k + 1)
                 PROVE  ball[i] \subseteq ball[k + 1]
      OBVIOUS
    <2>1. ball[k] \subseteq ball[k + 1]
      <3>1. k + 1 \in 1..Places /\ (k + 1) - 1 = k
        BY NamesAreFinite
      <3> QED BY <3>1 DEF Balls
    <2>2. i = k + 1 \/ ball[i] \subseteq ball[k]
      BY NamesAreFinite
    <2> QED BY <2>1, <2>2
  <1>3. T \in SUBSET Nat /\ Places \in Nat
    BY NamesAreFinite
  <1>4. Places \in T
    <2> HIDE DEF T
    <2> QED BY <1>1, <1>2, <1>3, SetInduction
  <1> QED
    BY <1>3, <1>4

\* What is visited when nothing is left to visit is all that can be reached.
LEMMA AllIsVisited ==
  ASSUME NEW E, NEW s, NEW ball, Balls(E, s, ball), NEW V, s \in V, \A v \in V : Nav!NextTo(E, v) \subseteq V
  PROVE  ball[Places] \subseteq V
  <1> DEFINE T == {k \in Nat : k <= Places => ball[k] \subseteq V}
  <1>1. 0 \in T
    BY DEF Balls
  <1>2. \A k \in T : k + 1 \in T
    <2> SUFFICES ASSUME NEW k \in T, k + 1 <= Places PROVE ball[k + 1] \subseteq V
      OBVIOUS
    <2>1. k + 1 \in 1..Places /\ (k + 1) - 1 = k /\ ball[k] \subseteq V
      BY NamesAreFinite
    <2>2. ball[k + 1] = ball[k] \cup UNION {Nav!NextTo(E, m) : m \in ball[k]}
      BY <2>1 DEF Balls
    <2> QED BY <2>1, <2>2
  <1>3. T \in SUBSET Nat /\ Places \in Nat
    BY NamesAreFinite
  <1>4. Places \in T
    <2> HIDE DEF T
    <2> QED BY <1>1, <1>2, <1>3, SetInduction
  <1> QED
    BY <1>3, <1>4

\* Where the search stands after n turns.
Standing(E, s, t, ball, n, x) ==
  \/ \E q, V : x = Searched(q, V) /\ Searching(E, s, t, ball, n, q, V)
  \/ x.found # <<>> /\ Arrived(E, s, t, ball, x.found)

\* Each turn of the loop keeps what is known of the search.
LEMMA TurnStands ==
  ASSUME NEW E, UNION E \subseteq Names, NEW s, NEW t, NEW ball, Balls(E, s, ball),
         NEW n \in Nat, n < Places, NEW x, Standing(E, s, t, ball, n, x)
  PROVE  Standing(E, s, t, ball, n + 1, Advanced(E, t, x))
  <1>1. CASE x.found # <<>> /\ Arrived(E, s, t, ball, x.found)
    BY <1>1 DEF Standing, Advanced
  <1>2. CASE \E q, V : x = Searched(q, V) /\ Searching(E, s, t, ball, n, q, V)
    <2>1. PICK q, V : x = Searched(q, V) /\ Searching(E, s, t, ball, n, q, V)
      BY <1>2
    <2>2. x.queue = q /\ x.found = <<>>
      BY <2>1 DEF Searched
    <2>3. CASE q = <<>>
      <3>1. Searching(E, s, t, ball, n + 1, q, V)
        BY <2>1, <2>3 DEF Searching
      <3> QED BY <2>1, <2>2, <2>3, <3>1 DEF Standing, Advanced
    <2>4. CASE q # <<>>
      <3> DEFINE y == Nav!Expand(E, t, Searched(q, V))
      <3>1. Advanced(E, t, x) = y
        BY <2>1, <2>2, <2>4 DEF Advanced
      <3> HIDE DEF y
      <3>2. \/ \E r, W : y = Searched(r, W) /\ Searching(E, s, t, ball, n + 1, r, W)
            \/ y.found # <<>> /\ Arrived(E, s, t, ball, y.found)
        BY <2>1, <2>4, Expanded DEF y
      <3> QED BY <3>1, <3>2 DEF Standing
    <2> QED BY <2>3, <2>4
  <1> QED
    BY <1>1, <1>2 DEF Standing

\* What is known of the search holds when it begins.
LEMMA SearchBegins ==
  ASSUME NEW E, UNION E \subseteq Names, NEW s \in UNION E, NEW t, s # t, NEW ball, Balls(E, s, ball)
  PROVE  Standing(E, s, t, ball, 0, Begun(s))
  <1> DEFINE q == <<<<s>>>>
             V == {s}
  <1>1. /\ q \in Seq(Seq(UNION E)) /\ Len(q) = 1 /\ DOMAIN q = {1} /\ q[1] = <<s>> /\ q # <<>>
        /\ <<s>> \in Seq(UNION E) /\ Len(<<s>>) = 1 /\ <<s>>[1] = s
    OBVIOUS
  <1>2. Shortest(E, s, ball, <<s>>) /\ Final(<<s>>) = s
    BY <1>1 DEF Shortest, IsWay, Final, Balls
  <1>3. Cardinality(V) = 1
    BY FS_Singleton
  <1>4. ball[Len(<<s>>) - 1] \subseteq V
    BY <1>1 DEF Balls
  <1>6. s \in V /\ V \in SUBSET UNION E /\ t \notin V /\ \A v \in V : v = s
    OBVIOUS
  <1>7. \A i \in DOMAIN q : q[i] = <<s>> /\ Len(q[i]) = 1
    BY <1>1
  <1> HIDE DEF q, V
  <1>5. Searching(E, s, t, ball, 0, q, V)
    <2>1. \A i \in DOMAIN q : Shortest(E, s, ball, q[i]) /\ Len(q[i]) <= 0 + 1 /\ s = Final(q[i])
      <3> TAKE i \in DOMAIN q
      <3>1. Shortest(E, s, ball, q[i]) /\ s = Final(q[i])
        BY <1>2, <1>7, Zenon
      <3>2. Len(q[i]) = 1
        BY <1>7, Zenon
      <3> QED BY <3>1, <3>2
    <2>2. \A i, j \in DOMAIN q : i <= j => Len(q[i]) <= Len(q[j]) /\ Len(q[j]) <= Len(q[i]) + 1
      BY <1>7
    <2>3. \A v \in V : \E i \in DOMAIN q : v = Final(q[i])
      BY <1>1, <1>6, <2>1
    <2>4. ball[Len(q[1]) - 1] \subseteq V /\ 0 + Len(q) = Cardinality(V)
      BY <1>1, <1>3, <1>4
    <2> QED BY <1>1, <1>6, <2>1, <2>2, <2>3, <2>4 DEF Searching
  <1> QED
    BY <1>5 DEF Standing, Begun, Searched, q, V

\* find_path: none is shorter than the way found, and one is found if there is one.
Found(E, s, t, ball, p) ==
  IF t \in ball[Places] THEN p # <<>> /\ Arrived(E, s, t, ball, p) ELSE p = <<>>

\* The search finds a shortest way, or there is none (navigation/route_graph.py).
LEMMA ShortestIsFound ==
  ASSUME NEW E, UNION E \subseteq Names, NEW s, NEW t, s # t, NEW ball, Balls(E, s, ball)
  PROVE  Found(E, s, t, ball, Nav!FindPath(E, s, t))
  <1>1. CASE s \notin UNION E
    <2>1. Nav!NextTo(E, s) = {}
      BY <1>1 DEF Nav!NextTo
    <2> DEFINE V == {s}
    <2>2. ball[Places] \subseteq V
      <3>1. s \in V /\ \A v \in V : Nav!NextTo(E, v) \subseteq V
        BY <2>1
      <3> HIDE DEF V
      <3> QED BY <3>1, AllIsVisited
    <2>3. Nav!FindPath(E, s, t) = <<>>
      BY <1>1 DEF Nav!FindPath
    <2> QED BY <2>2, <2>3 DEF Found
  <1>2. CASE t \notin UNION E
    <2> DEFINE V == {s} \cup UNION E
    <2>2. ball[Places] \subseteq V
      <3>1. s \in V /\ \A v \in V : Nav!NextTo(E, v) \subseteq V
        BY DEF Nav!NextTo
      <3> HIDE DEF V
      <3> QED BY <3>1, AllIsVisited
    <2>3. Nav!FindPath(E, s, t) = <<>>
      BY <1>2 DEF Nav!FindPath
    <2> QED BY <1>2, <2>2, <2>3 DEF Found
  <1>3. CASE {s, t} \subseteq UNION E
    <2>0. PICK f : Turns(E, s, t, f)
      BY <1>3, SearchOf
    <2>1. /\ f[0] = Begun(s) /\ \A n \in 1..Places : f[n] = Advanced(E, t, f[n - 1])
          /\ Nav!FindPath(E, s, t) = f[Places].found
      BY <2>0 DEF Turns
    <2> DEFINE T == {n \in Nat : n <= Places => Standing(E, s, t, ball, n, f[n])}
    <2>2. 0 \in T
      BY <1>3, <2>1, SearchBegins
    <2>3. \A n \in T : n + 1 \in T
      <3> SUFFICES ASSUME NEW n \in T, n + 1 <= Places PROVE Standing(E, s, t, ball, n + 1, f[n + 1])
        OBVIOUS
      <3>1. n + 1 \in 1..Places /\ (n + 1) - 1 = n /\ n < Places /\ n \in Nat
        BY NamesAreFinite
      <3>2. Standing(E, s, t, ball, n, f[n])
        BY <3>1, NamesAreFinite
      <3>3. f[n + 1] = Advanced(E, t, f[n])
        BY <2>1, <3>1
      <3>4. Standing(E, s, t, ball, n + 1, Advanced(E, t, f[n]))
        BY <3>1, <3>2, TurnStands
      <3> QED BY <3>3, <3>4
    <2>4. T \in SUBSET Nat /\ Places \in Nat
      BY NamesAreFinite
    <2>5. Places \in T
      <3> HIDE DEF T
      <3> QED BY <2>2, <2>3, <2>4, SetInduction
    <2> DEFINE x == f[Places]
    <2>6. Standing(E, s, t, ball, Places, x)
      BY <2>4, <2>5
    <2> HIDE DEF x, T
    <2>7. CASE x.found # <<>> /\ Arrived(E, s, t, ball, x.found)
      <3> DEFINE p == x.found
      <3>1. Len(p) \in 2..(Places + 1) /\ Final(p) = t /\ Final(p) \in ball[Len(p) - 1]
        BY <2>7 DEF Arrived, Shortest
      <3>2. Len(p) - 1 \in 0..Places
        BY <2>4, <3>1
      <3>3. ball[Len(p) - 1] \subseteq ball[Places]
        BY <3>2, FartherIsMore
      <3> QED BY <2>1, <2>7, <3>1, <3>3 DEF Found, x
    <2>8. CASE \E q, V : x = Searched(q, V) /\ Searching(E, s, t, ball, Places, q, V)
      <3>1. PICK q, V : x = Searched(q, V) /\ Searching(E, s, t, ball, Places, q, V)
        BY <2>8
      <3>2. q = <<>>
        <4> SUFFICES ASSUME q # <<>> PROVE FALSE
          OBVIOUS
        <4>1. Places + Len(q) = Cardinality(V) /\ V \in SUBSET Names
          BY <3>1 DEF Searching
        <4>2. Cardinality(V) <= Cardinality(Names) /\ Cardinality(V) \in Nat /\ Cardinality(Names) \in Nat
          BY <4>1, NamesAreFinite, FS_Subset, FS_CardinalityType
        <4>3. Len(q) \in Nat /\ Len(q) >= 1
          BY <3>1 DEF Searching
        <4> QED BY <2>4, <4>1, <4>2, <4>3, NamesAreFinite
      <3>3. s \in V /\ t \notin V /\ \A v \in V : Nav!NextTo(E, v) \subseteq V
        BY <3>1, <3>2 DEF Searching
      <3>4. ball[Places] \subseteq V
        BY <3>3, AllIsVisited
      <3>5. x.found = <<>>
        BY <3>1 DEF Searched
      <3> QED BY <2>1, <3>3, <3>4, <3>5 DEF Found, x
    <2> QED BY <2>6, <2>7, <2>8 DEF Standing
  <1> QED
    BY <1>1, <1>2, <1>3

\* NavigationPlanner.plan: the route to another map is one by the world of now.
Follows(w, steps, near, map, target) ==
  IF target \in near[Places] /\ target # map
  THEN /\ steps # <<>> /\ steps[1].from = map /\ Last(steps).to = target
       /\ \A i \in DOMAIN steps : steps[i].to \in Nav!Reachable(w, steps[i].from)
       /\ \A i \in 2..Len(steps) : steps[i].from = steps[i - 1].to
       /\ target \notin near[Len(steps) - 1]
  ELSE Len(steps) <= 1 /\ \A i \in DOMAIN steps : steps[i].to = map

FollowsTheMap(w, r) ==
  r.kind = "MAP" /\ w.connections # {} => Follows(w, r.steps, Within(w, r.start), r.start, r.target)

\* So does the route that is made of what it found.
LEMMA RouteFollows ==
  ASSUME NEW w \in Worlds, w.connections # {}, NEW old, NEW map, NEW target, NEW around, NEW here,
         here.connections = w.connections, NEW planned, planned = Nav!PlanRoute(old, map, target, around, here),
         planned.kind = "MAP"
  PROVE  Follows(w, planned.steps, Within(w, planned.start), planned.start, planned.target)
  <1> DEFINE E == Nav!EdgesOf(w.connections)
             near == Within(w, map)
             path == Nav!FindPath(E, map, target)
             steps == planned.steps
  <1>1. Nav!TargetKind(target, around, here) = "MAP" /\ planned.start = map /\ planned.target = target
    BY DEF Nav!PlanRoute
  <1>2. Nav!GraphFor(old, "MAP", here) = E
    BY DEF Nav!GraphFor
  <1>3. steps = Nav!RouteOf(E, map, target, "MAP")
    BY <1>1, <1>2 DEF Nav!PlanRoute
  <1>4. steps = IF Len(path) = 1 THEN <<Nav!RouteStep("LOCAL_MOVE", map, target)>>
                ELSE [i \in 1..(IF path = <<>> THEN 0 ELSE Len(path) - 1) |-> Nav!RouteStep("PORTAL", path[i], path[i + 1])]
    BY <1>3 DEF Nav!RouteOf
  <1>5. UNION E \subseteq Names /\ Balls(E, map, near)
    <2>1. UNION E \subseteq Names
      BY MapsAreListed, NamesAreFinite DEF Nav!EdgesOf, Names
    <2> QED BY <2>1, WithinUnfolds
  <1>6. \A m : Nav!NextTo(E, m) = Nav!Reachable(w, m)
    BY EdgesAreWays
  <1> HIDE DEF E, near, steps
  <1> SUFFICES Follows(w, steps, near, map, target)
    BY <1>1 DEF near, steps
  <1>7. CASE target = map
    <2>1. path = <<map>> /\ Len(path) = 1
      BY <1>7 DEF Nav!FindPath
    <2>2. steps = <<Nav!RouteStep("LOCAL_MOVE", map, target)>>
      BY <1>4, <2>1
    <2>3. Len(steps) = 1 /\ DOMAIN steps = {1} /\ steps[1].to = map
      BY <1>7, <2>2 DEF Nav!RouteStep
    <2> QED BY <1>7, <2>3 DEF Follows
  <1>8. CASE target # map /\ target \notin near[Places]
    <2>1. path = <<>>
      BY <1>5, <1>8, ShortestIsFound DEF Found
    <2> HIDE DEF path
    <2>2. steps = [i \in 1..0 |-> Nav!RouteStep("PORTAL", path[i], path[i + 1])]
      BY <1>4, <2>1
    <2>3. Len(steps) = 0 /\ DOMAIN steps = {}
      BY <2>2
    <2> QED BY <1>8, <2>3 DEF Follows
  <1>9. CASE target # map /\ target \in near[Places]
    <2>1. path # <<>> /\ Arrived(E, map, target, near, path)
      BY <1>5, <1>9, ShortestIsFound DEF Found
    <2> HIDE DEF path
    <2>2. /\ path \in Seq(UNION E) /\ Len(path) \in Nat /\ Len(path) >= 2 /\ path[1] = map /\ path[Len(path)] = target
          /\ \A i \in 1..(Len(path) - 1) : path[i + 1] \in Nav!NextTo(E, path[i])
          /\ target \notin near[Len(path) - 2]
      BY <2>1 DEF Arrived, Shortest, IsWay, Final
    <2> DEFINE k == Len(path) - 1
    <2>3. steps = [i \in 1..k |-> Nav!RouteStep("PORTAL", path[i], path[i + 1])]
      BY <1>4, <2>1, <2>2
    <2>4. k \in Nat /\ k >= 1 /\ k + 1 = Len(path) /\ Len(path) - 2 = k - 1
      BY <2>2
    <2> HIDE DEF k
    <2>5. /\ DOMAIN steps = 1..k /\ Len(steps) = k /\ steps # <<>>
          /\ \A i \in 1..k : steps[i].from = path[i] /\ steps[i].to = path[i + 1]
      <3>1. DOMAIN steps = 1..k /\ \A i \in 1..k : steps[i] = Nav!RouteStep("PORTAL", path[i], path[i + 1])
        BY <2>3
      <3>2. Len(steps) = k
        BY <2>3, <2>4
      <3>3. \A i \in 1..k : steps[i].from = path[i] /\ steps[i].to = path[i + 1]
        BY <3>1 DEF Nav!RouteStep
      <3>4. steps # <<>>
        BY <2>4, <3>2
      <3> QED BY <3>1, <3>2, <3>3, <3>4
    <2>6. steps[1].from = map /\ Last(steps).to = target
      BY <2>2, <2>4, <2>5 DEF Last
    <2>7. \A i \in DOMAIN steps : steps[i].to \in Nav!Reachable(w, steps[i].from)
      BY <1>6, <2>2, <2>5 DEF k
    <2>8. \A i \in 2..Len(steps) : steps[i].from = steps[i - 1].to
      <3> TAKE i \in 2..Len(steps)
      <3>1. i \in 1..k /\ i - 1 \in 1..k /\ (i - 1) + 1 = i
        BY <2>4, <2>5
      <3> QED BY <2>5, <3>1
    <2>9. target \notin near[Len(steps) - 1]
      BY <2>2, <2>4, <2>5
    <2> QED BY <1>9, <2>5, <2>6, <2>7, <2>8, <2>9 DEF Follows
  <1> QED
    BY <1>7, <1>8, <1>9

-----------------------------------------------------------------------------
(* The way.                                                                *)
\* The way leads to another map.
Crossing(r) == r.steps # <<>> /\ r.steps[1].type = "PORTAL"

\* A way found between two maps has both of them in the graph.
LEMMA PathHasEnds ==
  ASSUME NEW graph, NEW from, NEW to, Nav!FindPath(graph, from, to) # <<>>
  PROVE  Nav!FindPath(graph, from, to) = <<from>> \/ {from, to} \subseteq UNION graph
  BY DEF Nav!FindPath

\* A way to another map is one the navigation is content with.
LEMMA WaysAcrossAreSound ==
  ASSUME NEW old, NEW map, NEW target, NEW around, NEW here,
         NEW graph, graph = Nav!GraphFor(old, Nav!TargetKind(target, around, here), here),
         NoName \notin UNION graph,
         NEW planned, planned = Nav!PlanRoute(old, map, target, around, here), Crossing(planned)
  PROVE  planned.target # NoName /\ Nav!NavigationVerdict(planned) = "VALID"
  <1> DEFINE kind == Nav!TargetKind(target, around, here)
             path == Nav!FindPath(graph, map, target)
             steps == Nav!RouteOf(graph, map, target, kind)
  <1>1. /\ planned.start = map /\ planned.target = target /\ planned.steps = steps
        /\ planned.confidence = CASE kind \in {"NPC", "QUEST_TARGET"} -> 90
                                  [] kind = "MAP" /\ steps # <<>> -> 85
                                  [] OTHER -> 30
    BY DEF Nav!PlanRoute
  <1>2. steps # <<>> /\ steps[1].type = "PORTAL"
    BY <1>1 DEF Crossing
  <1>3. kind \in {"NPC", "QUEST_TARGET", "MAP", "UNKNOWN"}
    BY DEF Nav!TargetKind
  <1> HIDE DEF kind
  <1>4. kind = "MAP" /\ Len(path) # 1
    BY <1>2, <1>3 DEF Nav!RouteOf, Nav!RouteStep
  <1>5. path # <<>>
    <2> SUFFICES ASSUME path = <<>> PROVE FALSE
      OBVIOUS
    <2>1. steps = [i \in 1..0 |-> Nav!RouteStep("PORTAL", path[i], path[i + 1])]
      BY <1>4 DEF Nav!RouteOf
    <2>2. steps = <<>>
      BY <2>1
    <2> QED BY <1>2, <2>2
  <1>6. {map, target} \subseteq UNION graph
    <2>1. path # <<map>>
      BY <1>4
    <2> QED BY <1>5, <2>1, PathHasEnds
  <1> HIDE DEF steps
  <1>7. planned.confidence = 85
    BY <1>1, <1>2, <1>4
  <1>8. planned.start # NoName /\ planned.target # NoName /\ planned.steps # <<>>
    BY <1>1, <1>2, <1>6
  <1>9. Nav!NoMap = NoName
    BY DEF Nav!NoMap, NoName
  <1>10. Nav!NavigationVerdict(planned) = "VALID"
    BY <1>7, <1>8, <1>9 DEF Nav!NavigationVerdict
  <1> QED
    BY <1>8, <1>10

\* No edge of a graph ends nowhere.
LEMMA EdgesAreNamed ==
  ASSUME NEW w \in Worlds
  PROVE  NoName \notin UNION Nav!EdgesOf(w.connections)
  BY NamedEnds DEF Nav!EdgesOf, Nav!NoMap, NoName

-----------------------------------------------------------------------------
(* The evidence.                                                           *)
LEMMA EvidenceOf ==
  ASSUME NEW was, NEW is, NEW target
  PROVE  LET e == Compare(was, is, target)
         IN  /\ {"MAP_CHANGED", "MONSTER_COUNT_CHANGED", "QUEST_PROGRESS_CHANGED"} \subseteq DOMAIN e
             /\ DOMAIN e \subseteq {"MAP_CHANGED", "MONSTER_COUNT_CHANGED", "QUEST_PROGRESS_CHANGED",
                                    "COMBAT_STATE_CHANGED", "TARGET_VISIBLE", "TARGET_DISAPPEARED"}
             /\ e["MONSTER_COUNT_CHANGED"] <=> Cardinality(MonstersIn(was)) # Cardinality(MonstersIn(is))
             /\ e["QUEST_PROGRESS_CHANGED"] <=> was.quests.active # is.quests.active
  BY DEF Compare

\* All that was expected is met.
AllMet(expectation, is, evidence) ==
  /\ expectation.changes \subseteq DOMAIN evidence
  /\ \A c \in expectation.changes : evidence[c]
  /\ expectation.map # NoName => is.map.name = expectation.map
  /\ expectation.visible => Seen(is, expectation.action.target)
  /\ expectation.absent => ~Seen(is, expectation.action.target)
  /\ expectation.quests # {} => expectation.quests \cap is.quests.active # {}

\* What is done was asked for and met.
LEMMA MetIfDone ==
  ASSUME NEW expectation, NEW was, NEW is, NEW shielded, NEW fate, NEW elapsed,
         Verify(expectation, {was}, {is}, shielded, fate, elapsed) = "SUCCESS"
  PROVE  /\ shielded # "BLOCKED" /\ fate.state # "DEATH" /\ ~(is.confidence < 30)
         /\ AllMet(expectation, is, Compare(was, is, expectation.action.target))
  <1> DEFINE e == Compare(was, is, expectation.action.target)
             c == Conditions(expectation, is, e)
             target == expectation.action.target
             asked == Asked("map", expectation.map # NoName, is.map.name = expectation.map)
                      \cup Asked("visible", expectation.visible, Seen(is, target))
                      \cup Asked("absent", expectation.absent, ~Seen(is, target))
                      \cup Asked("quests", expectation.quests # {}, expectation.quests \cap is.quests.active # {})
                      \cup {<<x, e[x]>> : x \in expectation.changes \cap DOMAIN e}
  <1>1. (CHOOSE s \in {is} : TRUE) = is /\ (CHOOSE s \in {was} : TRUE) = was
    OBVIOUS
  <1>2. /\ shielded # "BLOCKED" /\ fate.state # "DEATH" /\ ~(is.confidence < 30)
        /\ Judge(c, elapsed, expectation.timeout) = "SUCCESS"
    BY <1>1 DEF Verify
  <1>3. c.unmatched = {} /\ c.unknown = {}
    <2> HIDE DEF c
    <2> QED BY <1>2 DEF Judge, AllMatched
  <1>4. c.unmatched = {a[1] : a \in {x \in asked : ~x[2]}} /\ c.unknown = expectation.changes \ DOMAIN e
    BY DEF Conditions
  <1> HIDE DEF c, e
  <1>5. expectation.changes \subseteq DOMAIN e
    BY <1>3, <1>4
  <1>6. \A x \in asked : x[2]
    <2> HIDE DEF asked
    <2> QED BY <1>3, <1>4
  <1>7. \A x \in expectation.changes : e[x]
    <2> TAKE x \in expectation.changes
    <2>1. <<x, e[x]>> \in asked
      BY <1>5
    <2> HIDE DEF asked
    <2> QED BY <1>6, <2>1
  <1>8. expectation.map # NoName => is.map.name = expectation.map
    <2> SUFFICES ASSUME expectation.map # NoName PROVE is.map.name = expectation.map
      OBVIOUS
    <2>1. <<"map", is.map.name = expectation.map>> \in asked
      BY DEF Asked
    <2> HIDE DEF asked
    <2> QED BY <1>6, <2>1
  <1>9. expectation.visible => Seen(is, target)
    <2> SUFFICES ASSUME expectation.visible PROVE Seen(is, target)
      OBVIOUS
    <2>1. <<"visible", Seen(is, target)>> \in asked
      BY DEF Asked
    <2> HIDE DEF asked
    <2> QED BY <1>6, <2>1
  <1>10. expectation.absent => ~Seen(is, target)
    <2> SUFFICES ASSUME expectation.absent PROVE ~Seen(is, target)
      OBVIOUS
    <2>1. <<"absent", ~Seen(is, target)>> \in asked
      BY DEF Asked
    <2> HIDE DEF asked
    <2> QED BY <1>6, <2>1
  <1>11. expectation.quests # {} => expectation.quests \cap is.quests.active # {}
    <2> SUFFICES ASSUME expectation.quests # {} PROVE expectation.quests \cap is.quests.active # {}
      OBVIOUS
    <2>1. <<"quests", expectation.quests \cap is.quests.active # {}>> \in asked
      BY DEF Asked
    <2> HIDE DEF asked
    <2> QED BY <1>6, <2>1
  <1> QED
    BY <1>2, <1>5, <1>7, <1>8, <1>9, <1>10, <1>11 DEF e, AllMet

\* What may be taken for done, of an action and the looks before and after it.
SeenToInteract(action, gs, was, is) ==
  /\ Seen(is, action.target) /\ is.quests.active # was.quests.active
  /\ QuestsOf(gs) # {} => QuestsOf(gs) \cap is.quests.active # {}

DoneRight(action, r, gs, was, is, shielded, fate, elapsed) ==
  Verify(Expect(action, r, gs), {was}, {is}, shielded, fate, elapsed) = "SUCCESS" =>
    /\ shielded # "BLOCKED" /\ fate.state # "DEATH" /\ ~(is.confidence < 30)
    /\ action.type \in {"NAVIGATE", "INTERACT", "COMBAT"}
    /\ action.type = "NAVIGATE" => Seen(is, action.target) \/ (Crossing(r) /\ action.target = is.map.name)
    /\ action.type = "INTERACT" => SeenToInteract(action, gs, was, is)
    /\ action.type = "COMBAT" =>
         ~Seen(is, action.target) /\ Cardinality(MonstersIn(was)) # Cardinality(MonstersIn(is))

\* What the verifier takes for done is seen to be done.
LEMMA DoneIsSeen ==
  ASSUME NEW action, NEW r, Proposed(action, r), Crossing(r) => r.target # NoName,
         NEW gs, NEW was, NEW is, NEW shielded, NEW fate, NEW elapsed
  PROVE  DoneRight(action, r, gs, was, is, shielded, fate, elapsed)
  <1> SUFFICES ASSUME Verify(Expect(action, r, gs), {was}, {is}, shielded, fate, elapsed) = "SUCCESS"
               PROVE  /\ shielded # "BLOCKED" /\ fate.state # "DEATH" /\ ~(is.confidence < 30)
                      /\ action.type \in {"NAVIGATE", "INTERACT", "COMBAT"}
                      /\ action.type = "NAVIGATE" =>
                           Seen(is, action.target) \/ (Crossing(r) /\ action.target = is.map.name)
                      /\ action.type = "INTERACT" => SeenToInteract(action, gs, was, is)
                      /\ action.type = "COMBAT" =>
                           ~Seen(is, action.target)
                           /\ Cardinality(MonstersIn(was)) # Cardinality(MonstersIn(is))
    BY DEF DoneRight
  <1> DEFINE x == Expect(action, r, gs)
             e == Compare(was, is, action.target)
             across == action.type = "NAVIGATE" /\ Crossing(r)
             change == IF action.type # "NAVIGATE" THEN ChangeOf[action.type]
                       ELSE IF Crossing(r) THEN "MAP_CHANGED" ELSE "TARGET_VISIBLE"
  <1>1. /\ x.action = action /\ x.map = (IF across THEN r.target ELSE NoName)
        /\ x.visible = (action.type = "INTERACT" \/ (action.type = "NAVIGATE" /\ ~across))
        /\ x.absent = (action.type = "COMBAT")
        /\ x.quests = (IF action.type = "INTERACT" THEN QuestsOf(gs) ELSE {})
        /\ x.changes = {change}
    BY DEF Expect, Expected, Crossing
  <1> HIDE DEF x
  <1>2. /\ shielded # "BLOCKED" /\ fate.state # "DEATH" /\ ~(is.confidence < 30)
        /\ x.changes \subseteq DOMAIN e
        /\ \A c \in x.changes : e[c]
        /\ x.map # NoName => is.map.name = x.map
        /\ x.visible => Seen(is, action.target)
        /\ x.absent => ~Seen(is, action.target)
        /\ x.quests # {} => x.quests \cap is.quests.active # {}
    <2>1. Verify(x, {was}, {is}, shielded, fate, elapsed) = "SUCCESS"
      BY DEF x
    <2>2. /\ shielded # "BLOCKED" /\ fate.state # "DEATH" /\ ~(is.confidence < 30)
          /\ AllMet(x, is, Compare(was, is, x.action.target))
      BY <2>1, MetIfDone
    <2>3. AllMet(x, is, e)
      BY <1>1, <2>2
    <2> HIDE DEF e
    <2> QED BY <1>1, <2>2, <2>3 DEF AllMet
  <1>3. /\ DOMAIN e \subseteq {"MAP_CHANGED", "MONSTER_COUNT_CHANGED", "QUEST_PROGRESS_CHANGED",
                               "COMBAT_STATE_CHANGED", "TARGET_VISIBLE", "TARGET_DISAPPEARED"}
        /\ e["MONSTER_COUNT_CHANGED"] <=> Cardinality(MonstersIn(was)) # Cardinality(MonstersIn(is))
        /\ e["QUEST_PROGRESS_CHANGED"] <=> was.quests.active # is.quests.active
    BY EvidenceOf
  <1> HIDE DEF e
  <1>4. change \in DOMAIN e /\ e[change]
    BY <1>1, <1>2
  <1>5. action.type \in {"NAVIGATE", "INTERACT", "COMBAT"}
    <2> SUFFICES ASSUME action.type \in {"OBSERVE", "COLLECT", "VERIFY", "WAIT"} PROVE FALSE
      BY DEF Proposed, ActionTypes, StepTypeNames
    <2>1. change \in {"ITEM_CHANGED", "OBSERVATION_VALID", "OBSERVATION_CONTINUES", "OBSERVATION_OBTAINED"}
      BY DEF ChangeOf
    <2> QED BY <1>3, <1>4, <2>1
  <1>6. ASSUME action.type = "NAVIGATE"
        PROVE  Seen(is, action.target) \/ (Crossing(r) /\ action.target = is.map.name)
    <2>1. CASE Crossing(r)
      <3>1. r.target # NoName /\ action.target = r.target /\ x.map = r.target
        BY <1>1, <1>6, <2>1 DEF Proposed
      <3> QED BY <1>2, <2>1, <3>1
    <2>2. CASE ~Crossing(r)
      BY <1>1, <1>2, <1>6, <2>2
    <2> QED BY <2>1, <2>2
  <1>7. ASSUME action.type = "INTERACT"
        PROVE  SeenToInteract(action, gs, was, is)
    <2>1. change = "QUEST_PROGRESS_CHANGED"
      BY <1>7 DEF ChangeOf
    <2>2. Seen(is, action.target) /\ is.quests.active # was.quests.active
      BY <1>1, <1>2, <1>3, <1>4, <1>7, <2>1
    <2>3. QuestsOf(gs) # {} => QuestsOf(gs) \cap is.quests.active # {}
      BY <1>1, <1>2, <1>7
    <2> QED BY <2>2, <2>3 DEF SeenToInteract
  <1>8. ASSUME action.type = "COMBAT"
        PROVE  ~Seen(is, action.target) /\ Cardinality(MonstersIn(was)) # Cardinality(MonstersIn(is))
    <2>1. change = "MONSTER_COUNT_CHANGED"
      BY <1>8 DEF ChangeOf
    <2> QED BY <1>1, <1>2, <1>3, <1>4, <1>8, <2>1
  <1> QED
    BY <1>2, <1>5, <1>6, <1>7, <1>8

\* What is blocked is given up, and nothing else; nothing that is done is tried again;
\* a death that is seen fails, and a look that was missed leaves all else open.
ToldRight(x, befores, afters, shielded, fate, elapsed, type, hints) ==
  LET status == Verify(x, befores, afters, shielded, fate, elapsed)
      recovered == RecoveryOf(FailureOf(type, shielded, status, hints))
  IN  /\ shielded = "BLOCKED" <=> recovered = "ABORT"
      /\ status = "TIMEOUT" => elapsed > x.timeout
      /\ recovered \in {"RETRY", "REPLAN", "ABORT"} => status # "SUCCESS"
      /\ shielded # "BLOCKED" /\ fate.state = "DEATH" /\ afters # {} => status = "FAILED"
      /\ shielded # "BLOCKED" /\ {} \in {befores, afters} => status \in {"FAILED", "INCONCLUSIVE"}
      /\ status = "FAILED" => afters # {}

\* What the failure detector tells fits the verdict.
LEMMA FailuresAreTold ==
  ASSUME NEW x, NEW befores, NEW afters, NEW shielded, NEW fate, NEW elapsed, NEW type,
         NEW hints, hints \subseteq {"hp decreased"}
  PROVE  ToldRight(x, befores, afters, shielded, fate, elapsed, type, hints)
  <1> DEFINE status == Verify(x, befores, afters, shielded, fate, elapsed)
  <1> DEFINE failure == FailureOf(type, shielded, status, hints)
             was == CHOOSE s \in befores : TRUE
             is == CHOOSE s \in afters : TRUE
             c == Conditions(x, is, Compare(was, is, x.action.target))
  <1>1. \/ status = "BLOCKED" /\ shielded = "BLOCKED"
        \/ shielded # "BLOCKED" /\ status \in {"INCONCLUSIVE", "FAILED"}
        \/ /\ shielded # "BLOCKED" /\ befores # {} /\ afters # {}
           /\ status = Judge(c, elapsed, x.timeout)
    BY DEF Verify
  <1>10. /\ shielded # "BLOCKED" /\ fate.state = "DEATH" /\ afters # {} => status = "FAILED"
         /\ afters = {} => status \in {"BLOCKED", "INCONCLUSIVE"}
    BY DEF Verify
  <1> HIDE DEF c, status
  <1>2. /\ Judge(c, elapsed, x.timeout) \in {"TIMEOUT", "SUCCESS", "PARTIAL_SUCCESS", "FAILED", "INCONCLUSIVE"}
        /\ Judge(c, elapsed, x.timeout) = "TIMEOUT" => elapsed > x.timeout
    BY DEF Judge
  <1>3. shielded = "BLOCKED" <=> "BLOCKED" \in {shielded, status}
    BY <1>1, <1>2
  <1>4. status = "TIMEOUT" => elapsed > x.timeout
    BY <1>1, <1>2
  <1>11. shielded # "BLOCKED" /\ {} \in {befores, afters} => status \in {"FAILED", "INCONCLUSIVE"}
    BY <1>1
  <1>12. status = "FAILED" => afters # {}
    BY <1>10
  <1>5. FailureHinted(type, hints) \in {"COMBAT_FAILURE", "UNKNOWN"}
    BY DEF FailureHinted
  <1>6. shielded = "BLOCKED" => failure = "SAFETY_BLOCKED"
    BY <1>3 DEF FailureOf
  <1>7. ASSUME shielded # "BLOCKED"
        PROVE  /\ failure \in {"NAVIGATION_TIMEOUT", "ACTION_TIMEOUT", "STATE_MISMATCH", "COMBAT_FAILURE",
                               "OUTCOME_MISMATCH", "UNKNOWN"}
               /\ status = "SUCCESS" => failure \in {"COMBAT_FAILURE", "UNKNOWN"}
    BY <1>3, <1>5, <1>7 DEF FailureOf
  <1> HIDE DEF failure
  <1>8. shielded = "BLOCKED" => RecoveryOf(failure) = "ABORT" /\ status # "SUCCESS"
    BY <1>1, <1>6 DEF RecoveryOf
  <1>9. ASSUME shielded # "BLOCKED"
        PROVE  /\ RecoveryOf(failure) # "ABORT"
               /\ status = "SUCCESS" => RecoveryOf(failure) = "WAIT_OBSERVATION"
    BY <1>7, <1>9 DEF RecoveryOf
  <1> QED
    BY <1>4, <1>8, <1>9, <1>10, <1>11, <1>12 DEF failure, status, ToldRight

-----------------------------------------------------------------------------
(* The chain.                                                              *)
\* What the gate says it says of this action, on what is seen and felt now.
GateIsOfNow ==
  phase \in {"contract", "asked", "verify"} => gate = GateDecision(actions[at], screen, reflex)

\* Whether the navigation was content with the way is not forgotten.
DoubtOfWayKept ==
  "navigation" \in doubts =>
    /\ phase \notin {"look", "feel", "route"}
    /\ Nav!NavigationVerdict(route) # "VALID"

WayIsSound ==
  Crossing(route) => route.target # NoName /\ Nav!NavigationVerdict(route) = "VALID"

ActionsAreProposed ==
  phase \in {"gate", "contract", "asked", "verify", "judged"} =>
    /\ Len(actions) \in Nat /\ DOMAIN actions = 1..Len(actions) /\ at \in DOMAIN actions
    /\ \A i \in DOMAIN actions : Proposed(actions[i], route)

IInv ==
  /\ phase \in {"look", "feel", "route", "propose", "gate", "contract", "asked", "verify", "judged"}
  /\ NoName \notin UNION edges
  /\ WayIsSound /\ DoubtOfWayKept /\ ActionsAreProposed /\ GateIsOfNow
  /\ FollowsTheMap(world, route) /\ DoneOnlyIfSeen /\ NothingRunsYet

\* WayIsSound of the next state, for the provers.
LEMMA WayIsSoundNext ==
  WayIsSound' <=> (Crossing(route') => route'.target # NoName /\ Nav!NavigationVerdict(route') = "VALID")
  BY DEF WayIsSound, Crossing

\* The chain begins with nothing seen and nothing planned: the invariant holds.
THEOREM ChainInit == Init => IInv
  <1> SUFFICES ASSUME Init PROVE IInv
    OBVIOUS
  <1>1. ~Crossing(route)
    BY DEF Init, NoRoute, Crossing
  <1>2. FollowsTheMap(world, route)
    BY DEF Init, NoRoute, FollowsTheMap, way
  <1> QED
    BY <1>1, <1>2 DEF Init, IInv, WayIsSound, DoubtOfWayKept, ActionsAreProposed, GateIsOfNow,
                DoneOnlyIfSeen, NothingRunsYet, chain, way, verdicts

\* A look at the screen keeps the invariant.
LEMMA PerceiveKeeps == ASSUME IInv, Perceive PROVE IInv'
  <1>1. /\ phase' = "feel" /\ UNCHANGED <<world, edges, route>>
        /\ "navigation" \notin doubts'
    BY DEF Perceive, way, DoubtsOfSight, DoubtsOfMind, Doubt
  <1> QED
    BY <1>1 DEF IInv, WayIsSound, Crossing, DoubtOfWayKept, ActionsAreProposed, GateIsOfNow,
                DoneOnlyIfSeen, NothingRunsYet

\* So do the reflexes,
LEMMA FeelKeeps == ASSUME IInv, Feel PROVE IInv'
  <1>1. /\ phase = "feel" /\ phase' = "route" /\ UNCHANGED <<world, edges, route>>
        /\ doubts' = doubts \cup Doubt("reflex", ReflexIssues(reflex') # {})
    BY DEF Feel, way
  <1>2. "navigation" \notin doubts'
    BY <1>1 DEF IInv, DoubtOfWayKept, Doubt
  <1> QED
    BY <1>1, <1>2 DEF IInv, WayIsSound, Crossing, DoubtOfWayKept, ActionsAreProposed, GateIsOfNow,
                      DoneOnlyIfSeen, NothingRunsYet

\* the search of a way, for which RouteFollows and WaysAcrossAreSound are there,
LEMMA FindWayKeeps == ASSUME IInv, FindWay PROVE IInv'
  <1>1. phase = "route" /\ phase' = "propose" /\ world' \in Worlds
    BY DEF FindWay
  <1> DEFINE here == WorldAround(world')
             around == SpaceAround(world')
             kind(target) == Nav!TargetKind(target, around, here)
  <1>2. PICK target : /\ edges' = Nav!GraphFor(edges, kind(target), here)
                      /\ route' = Nav!PlanRoute(edges, here.map, target, around, here)
                      /\ doubts' = doubts \cup DoubtsOfWay(here, around, route')
    BY DEF FindWay
  <1>3. here.connections = world'.connections
    BY DEF WorldAround, Nav!WorldReference
  <1> HIDE DEF here, around
  <1>4. NoName \notin UNION edges'
    BY <1>1, <1>2, <1>3, EdgesAreNamed DEF Nav!GraphFor, IInv
  <1>5. Crossing(route') => route'.target # NoName /\ Nav!NavigationVerdict(route') = "VALID"
    BY <1>2, <1>4, WaysAcrossAreSound
  <1>6. WayIsSound'
    BY <1>5, WayIsSoundNext
  <1>9. FollowsTheMap(world', route')
    <2>1. here.connections = world'.connections /\ route' = Nav!PlanRoute(edges, here.map, target, around, here)
      BY <1>2, <1>3
    <2> QED BY <1>1, <2>1, RouteFollows DEF FollowsTheMap
  <1>7. "navigation" \notin doubts
    BY <1>1 DEF IInv, DoubtOfWayKept
  <1>8. DoubtOfWayKept'
    BY <1>1, <1>2, <1>7 DEF DoubtOfWayKept, DoubtsOfWay, Doubt
  <1> QED
    BY <1>1, <1>4, <1>6, <1>8, <1>9 DEF IInv, ActionsAreProposed, GateIsOfNow, DoneOnlyIfSeen, NothingRunsYet

\* the proposal of actions,
LEMMA ProposeKeeps == ASSUME IInv, ProposeActions PROVE IInv'
  <1>1. phase = "propose" /\ phase' = "gate" /\ at' = 1 /\ UNCHANGED <<world, edges, route>>
    BY DEF ProposeActions, way
  <1>2. PICK hint : /\ actions' = Propose(PlanBehavior(goals, route, reflex.events, hint), route)
                    /\ doubts' = doubts
                         \cup Doubt("behavior", BehaviorIssues(PlanBehavior(goals, route, reflex.events, hint)) # {})
                         \cup Doubt("proposals", ProposalsVerdict(actions') # "VALID")
    BY DEF ProposeActions
  <1>3. /\ Len(actions') \in Nat /\ Len(actions') >= 1 /\ DOMAIN actions' = 1..Len(actions')
        /\ \A i \in DOMAIN actions' : Proposed(actions'[i], route)
    BY <1>2, SomethingIsProposed
  <1>4. ActionsAreProposed'
    BY <1>1, <1>3 DEF ActionsAreProposed
  <1>5. "navigation" \in doubts' => "navigation" \in doubts
    BY <1>2 DEF Doubt
  <1> QED
    BY <1>1, <1>4, <1>5 DEF IInv, WayIsSound, Crossing, DoubtOfWayKept, GateIsOfNow, DoneOnlyIfSeen, NothingRunsYet

\* the safety gate,
LEMMA AskGateKeeps == ASSUME IInv, AskGate PROVE IInv'
  <1>1. /\ phase = "gate" /\ phase' = "contract" /\ gate' = GateDecision(actions[at], screen, reflex)
        /\ UNCHANGED <<doubts, screen, reflex, world, edges, route, actions, at>>
    BY DEF AskGate, chain, way
  <1>2. reflex.state = "DEATH" => gate' = "BLOCKED"
    BY <1>1 DEF GateDecision
  <1> QED
    BY <1>1, <1>2 DEF IInv, WayIsSound, Crossing, DoubtOfWayKept, ActionsAreProposed, GateIsOfNow,
                      DoneOnlyIfSeen, NothingRunsYet

\* A gate that allows does so of somebody alive, and a contract that is eligible breaks
\* one of the rules of its policy.
LEMMA EligibleBreaksARule ==
  ASSUME NEW in, NEW action, NEW valid, NEW allowed, NEW what,
         GateReference(in, action, valid, allowed, what).contract
  PROVE  /\ ModeIssues(in.policy) # {} /\ allowed = "ALLOW"
         /\ \A e \in what : e.action = action \/ "outcome" \in ModeIssues(in.policy)
  <1>1. /\ in.policy.mode # "MOCK_ONLY" /\ BlockedReasons(in, action, valid, allowed, what) = {}
        /\ ~OutcomeWarned(in.policy, what)
    BY DEF GateReference
  <1>2. /\ allowed = "ALLOW" /\ PolicyHolds(in.policy, action, in.binding)
        /\ OutcomeHolds(in.policy, what, action) \/ OutcomeWarned(in.policy, what)
    <2>1. \A name, holds : Failed(name, holds) = {} => holds
      BY DEF Failed
    <2>2. /\ Failed("SAFETY", allowed = "ALLOW") = {}
          /\ Failed("POLICY", PolicyHolds(in.policy, action, in.binding)) = {}
          /\ Failed("EXPECTED_OUTCOME", OutcomeHolds(in.policy, what, action) \/ OutcomeWarned(in.policy, what)) = {}
      BY <1>1 DEF BlockedReasons
    <2> QED BY <2>2 DEF Failed
  <1>3. "must remain disabled" \in ModeIssues(in.policy)
    BY <1>1, <1>2 DEF ModeIssues, PolicyHolds
  <1>4. \A e \in what : e.action = action \/ "outcome" \in ModeIssues(in.policy)
    <2>1. "outcome" \in in.policy.required => \A e \in what : e.action = action
      BY <1>1, <1>2 DEF OutcomeHolds
    <2>2. "outcome" \notin in.policy.required => "outcome" \in ModeIssues(in.policy)
      BY DEF ModeIssues, Mandatory
    <2> QED BY <2>1, <2>2
  <1> QED
    BY <1>2, <1>3, <1>4

\* the evaluation of a contract, by EligibleBreaksARule,
LEMMA AskContractKeeps == ASSUME IInv, AskContract PROVE IInv'
  <1>1. /\ phase = "contract" /\ phase' = "asked"
        /\ UNCHANGED <<doubts, screen, reflex, world, edges, route, actions, at, expected, gate>>
    BY DEF AskContract, chain, way
  <1>2. gate = GateDecision(actions[at], screen, reflex)
    BY <1>1 DEF IInv, GateIsOfNow
  <1>3. PICK in \in GateInputs :
          /\ contract'.reference =
               GateReference(in, actions[at], ProposalVerdict(actions[at]) = "VALID", gate, expected)
          /\ contract'.issues = ModeIssues(in.policy)
    BY DEF AskContract
  <1>4. NothingRunsYet'
    <2> SUFFICES ASSUME contract'.reference.contract
                 PROVE  /\ contract'.issues # {} /\ gate = "ALLOW" /\ reflex.state # "DEATH"
                        /\ \A e \in expected : e.action = actions[at] \/ "outcome" \in contract'.issues
      BY <1>1 DEF NothingRunsYet
    <2>1. /\ contract'.issues # {} /\ gate = "ALLOW"
          /\ \A e \in expected : e.action = actions[at] \/ "outcome" \in contract'.issues
      BY <1>3, EligibleBreaksARule
    <2>2. reflex.state # "DEATH"
      BY <1>2, <2>1 DEF GateDecision
    <2> QED BY <2>1, <2>2
  <1> QED
    BY <1>1, <1>4 DEF IInv, WayIsSound, Crossing, DoubtOfWayKept, ActionsAreProposed, GateIsOfNow, DoneOnlyIfSeen

\* the executor that is not there,
LEMMA NobodyKeeps == ASSUME IInv, NobodyExecutes PROVE IInv'
  <1>1. /\ phase = "asked" /\ phase' = "verify"
        /\ UNCHANGED <<doubts, screen, reflex, world, edges, route, actions, at, gate>>
    BY DEF NobodyExecutes, chain, way
  <1> QED
    BY <1>1 DEF IInv, WayIsSound, Crossing, DoubtOfWayKept, ActionsAreProposed, GateIsOfNow,
                DoneOnlyIfSeen, NothingRunsYet

\* What both verifications do, and what comes of it.
LEMMA JudgedKeeps ==
  ASSUME IInv, phase = "verify", phase' = "judged", before' = screen,
         UNCHANGED <<goals, world, edges, route, actions, at, gate>>,
         missed' \subseteq {"before", "after"}, NEW seconds, JudgeAction(seconds),
         screen'.confidence \in Int \/ gate = "BLOCKED"
  PROVE  IInv'
  <1> DEFINE x == Expect(actions[at], route, goals)
             action == actions[at]
             hints == Hints(screen, screen')
             failure == FailureOf(action.type, gate, outcome', hints)
             befores == Unless("before", screen)
             afters == Unless("after", screen')
  <1>1. /\ late' = (seconds > x.timeout)
        /\ outcome' = Verify(x, befores, afters, gate, reflex', seconds)
        /\ recovery' = RecoveryOf(failure)
        /\ doubts' = doubts \cup Doubt("outcome", OutcomeVerdict(outcome') # "VALID")
                            \cup Doubt("recovery", RecoveryVerdict(failure) # "VALID")
    BY DEF JudgeAction
  <1>2. Proposed(action, route)
    BY DEF IInv, ActionsAreProposed
  <1>3. hints \subseteq {"hp decreased"}
    BY DEF Hints
  <1>8. /\ befores = (IF "before" \in missed' THEN {} ELSE {screen})
        /\ afters = (IF "after" \in missed' THEN {} ELSE {screen'})
    BY DEF Unless
  <1> HIDE DEF x, hints, befores, afters
  <1>4. /\ gate = "BLOCKED" <=> recovery' = "ABORT"
        /\ outcome' = "TIMEOUT" => late'
        /\ recovery' \in {"RETRY", "REPLAN", "ABORT"} => outcome' # "SUCCESS"
        /\ gate # "BLOCKED" /\ reflex'.state = "DEATH" /\ "after" \notin missed' => outcome' = "FAILED"
        /\ gate # "BLOCKED" /\ missed' # {} => outcome' \in {"FAILED", "INCONCLUSIVE"}
        /\ outcome' = "FAILED" => "after" \notin missed'
    <2>1. recovery' = RecoveryOf(FailureOf(action.type, gate, outcome', hints))
      BY <1>1
    <2>2. outcome' = Verify(x, befores, afters, gate, reflex', seconds)
      BY <1>1
    <2>3. ToldRight(x, befores, afters, gate, reflex', seconds, action.type, hints)
      BY <1>3, FailuresAreTold
    <2>4. /\ gate = "BLOCKED" <=> recovery' = "ABORT"
          /\ outcome' = "TIMEOUT" => seconds > x.timeout
          /\ recovery' \in {"RETRY", "REPLAN", "ABORT"} => outcome' # "SUCCESS"
          /\ gate # "BLOCKED" /\ reflex'.state = "DEATH" /\ afters # {} => outcome' = "FAILED"
          /\ gate # "BLOCKED" /\ {} \in {befores, afters} => outcome' \in {"FAILED", "INCONCLUSIVE"}
          /\ outcome' = "FAILED" => afters # {}
      BY <2>1, <2>2, <2>3 DEF ToldRight
    <2>5. /\ "after" \in missed' <=> afters = {}
          /\ missed' # {} => {} \in {befores, afters}
      BY <1>8
    <2> QED BY <1>1, <2>4, <2>5
  <1> HIDE DEF failure
  <1>5. ASSUME outcome' = "SUCCESS"
        PROVE  /\ missed' = {} /\ gate # "BLOCKED" /\ reflex'.state # "DEATH" /\ screen'.confidence >= 30
               /\ action.type \in {"NAVIGATE", "INTERACT", "COMBAT"}
               /\ action.type = "NAVIGATE" =>
                    \/ Seen(screen', action.target)
                    \/ action.target = screen'.map.name /\ "navigation" \notin doubts'
               /\ action.type = "INTERACT" => SeenToInteract(action, goals, screen, screen')
               /\ action.type = "COMBAT" =>
                    ~Seen(screen', action.target)
                    /\ Cardinality(MonstersIn(screen)) # Cardinality(MonstersIn(screen'))
    <2>1. gate # "BLOCKED" /\ missed' = {}
      <3>1. gate # "BLOCKED"
        BY <1>1, <1>5 DEF Verify
      <3> QED BY <1>4, <1>5, <3>1
    <2>2. befores = {screen} /\ afters = {screen'}
      BY <1>8, <2>1
    <2>3. Crossing(route) => route.target # NoName /\ Nav!NavigationVerdict(route) = "VALID"
      BY DEF IInv, WayIsSound
    <2>4. /\ reflex'.state # "DEATH" /\ ~(screen'.confidence < 30)
          /\ action.type \in {"NAVIGATE", "INTERACT", "COMBAT"}
          /\ action.type = "NAVIGATE" =>
               Seen(screen', action.target) \/ (Crossing(route) /\ action.target = screen'.map.name)
          /\ action.type = "INTERACT" => SeenToInteract(action, goals, screen, screen')
          /\ action.type = "COMBAT" =>
               ~Seen(screen', action.target)
               /\ Cardinality(MonstersIn(screen)) # Cardinality(MonstersIn(screen'))
      <3>1. Verify(Expect(action, route, goals), {screen}, {screen'}, gate, reflex', seconds) = "SUCCESS"
        BY <1>1, <1>5, <2>2 DEF x
      <3>2. Crossing(route) => route.target # NoName
        BY <2>3
      <3> HIDE DEF action
      <3>3. DoneRight(action, route, goals, screen, screen', gate, reflex', seconds)
        BY <1>2, <3>2, DoneIsSeen
      <3> QED BY <3>1, <3>3 DEF DoneRight
    <2>5. screen'.confidence >= 30
      BY <2>1, <2>4
    <2>6. Crossing(route) => "navigation" \notin doubts'
      BY <1>1, <2>3 DEF IInv, DoubtOfWayKept, Doubt
    <2> QED BY <2>1, <2>4, <2>5, <2>6
  <1>6. DoneOnlyIfSeen'
    BY <1>4, <1>5 DEF DoneOnlyIfSeen, SeenToInteract
  <1>7. "navigation" \in doubts' => "navigation" \in doubts
    BY <1>1 DEF Doubt
  <1> QED
    BY <1>6, <1>7 DEF IInv, WayIsSound, Crossing, DoubtOfWayKept, ActionsAreProposed, GateIsOfNow, NothingRunsYet

\* A screen that was read has a number for its certainty.
LEMMA ScreensHaveConfidence ==
  ASSUME NEW f \in Frames
  PROVE  Screen(f).confidence \in Int
  BY Confidences DEF Screen, Extract, Parse, Recognize, AtMost

\* the verification, of a blocked action or of one that may have been done,
LEMMA VerifyKeeps == ASSUME IInv, VerifyBlocked \/ VerifyAction PROVE IInv'
  <1>1. CASE VerifyBlocked
    BY <1>1, JudgedKeeps DEF VerifyBlocked, way
  <1>2. CASE VerifyAction
    <2>1. PICK f \in Frames, seconds \in Elapsed : screen' = Screen(f) /\ JudgeAction(seconds)
      BY <1>2 DEF VerifyAction
    <2>2. screen'.confidence \in Int
      BY <2>1, ScreensHaveConfidence
    <2>3. missed' \subseteq {"before", "after"}
      BY <1>2 DEF VerifyAction
    <2>4. /\ phase = "verify" /\ phase' = "judged" /\ before' = screen
          /\ UNCHANGED <<goals, world, edges, route, actions, at, gate>>
      BY <1>2 DEF VerifyAction, way
    <2> QED BY <2>1, <2>2, <2>3, <2>4, JudgedKeeps
  <1> QED
    BY <1>1, <1>2

\* the step to the next action,
LEMMA NextActionKeeps == ASSUME IInv, NextAction PROVE IInv'
  <1>1. /\ phase = "judged" /\ at < Len(actions) /\ phase' = "gate" /\ at' = at + 1
        /\ doubts' = doubts \ {"outcome", "recovery"}
        /\ UNCHANGED <<screen, world, edges, route, actions>>
    BY DEF NextAction, way
  <1>2. at' \in DOMAIN actions
    BY <1>1 DEF IInv, ActionsAreProposed
  <1> QED
    BY <1>1, <1>2 DEF IInv, WayIsSound, Crossing, DoubtOfWayKept, ActionsAreProposed, GateIsOfNow,
                      DoneOnlyIfSeen, NothingRunsYet

\* the step to the next round,
LEMMA NextRoundKeeps == ASSUME IInv, NextRound PROVE IInv'
  <1>1. phase' = "look" /\ doubts' = {} /\ route' = NoRoute /\ UNCHANGED edges
    BY DEF NextRound
  <1>2. ~Crossing(route')
    BY <1>1 DEF NoRoute, Crossing
  <1>3. WayIsSound'
    BY <1>2, WayIsSoundNext
  <1>4. FollowsTheMap(world', route')
    BY <1>1 DEF NoRoute, FollowsTheMap
  <1> QED
    BY <1>1, <1>3, <1>4 DEF IInv, DoubtOfWayKept, ActionsAreProposed, GateIsOfNow, DoneOnlyIfSeen, NothingRunsYet

\* and a step that changes nothing.
LEMMA StutterKeeps == ASSUME IInv, UNCHANGED vars PROVE IInv'
  BY DEF IInv, vars, chain, way, verdicts, WayIsSound, Crossing, DoubtOfWayKept, ActionsAreProposed, GateIsOfNow,
         DoneOnlyIfSeen, NothingRunsYet

\* The inductive invariant holds of every behaviour of the chain.
THEOREM ChainInvariance == Spec => []IInv
  <1>1. Init => IInv
    BY ChainInit
  <1>2. IInv /\ [Next]_vars => IInv'
    BY PerceiveKeeps, FeelKeeps, FindWayKeeps, ProposeKeeps, AskGateKeeps, AskContractKeeps, NobodyKeeps,
       VerifyKeeps, NextActionKeeps, NextRoundKeeps, StutterKeeps DEF Next
  <1> QED
    BY <1>1, <1>2, PTL DEF Spec

\* An action is judged SUCCESS only if both looks were there and show what it was for;
\* a look that was missed leaves it open; a death that is seen is a failure, after which
\* the gate blocks whatever else of the chain is asked of it
\* (action_verification/verifier.py, safety_gate/rules.py).
THEOREM DoneIsSeenToBeDone == Spec => []DoneOnlyIfSeen
  <1>1. IInv => DoneOnlyIfSeen
    BY DEF IInv
  <1> QED
    BY <1>1, ChainInvariance, PTL

\* No contract is eligible for execution under a policy that keeps its mode's rules
\* (safety_vnext/).
THEOREM NothingIsExecutedYet == Spec => []NothingRunsYet
  <1>1. IInv => NothingRunsYet
    BY DEF IInv
  <1> QED
    BY <1>1, ChainInvariance, PTL

\* Whatever the planner was asked about before, a way to another map is one of the
\* world of now, there is one if there can be one, and none is shorter.
THEOREM RoutesFollowTheMap == Spec => []RouteFollowsTheMap
  <1>1. IInv => RouteFollowsTheMap
    BY DEF IInv, FollowsTheMap, Follows, Places, RouteFollowsTheMap
  <1> QED
    BY <1>1, ChainInvariance, PTL

===============================================================================
