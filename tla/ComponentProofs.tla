--------------------------- MODULE ComponentProofs ---------------------------
(***************************************************************************)
(* Proofs about the components whose small instances MCComponents puts     *)
(* side by side.                                                           *)
(***************************************************************************)
EXTENDS Sandbox, MessageBus, SignedIpc, Filesystem, Integrity, Hardware, Evolution, Tools, Placement,
        FiniteSetTheorems, SequenceTheorems, WellFoundedInduction, TLAPS

-----------------------------------------------------------------------------
(* A sequence with one more element                                         *)

LEMMA AppendFacts ==
  ASSUME NEW S, NEW s \in Seq(S), NEW e \in S
  PROVE  /\ Append(s, e) \in Seq(S) /\ Append(s, e) # << >>
         /\ Len(Append(s, e)) = Len(s) + 1 /\ Append(s, e)[Len(s) + 1] = e
         /\ DOMAIN Append(s, e) = DOMAIN s \cup {Len(s) + 1}
         /\ DOMAIN s = 1 .. Len(s) /\ Len(s) \in Nat
         /\ \A i \in DOMAIN s : Append(s, e)[i] = s[i]
OBVIOUS

LEMMA LeastElement ==
  ASSUME NEW S \in SUBSET Nat, S # {}
  PROVE  \E x \in S : \A y \in S : x <= y
<1>1. IsWellFoundedOn(OpToRel(<, Nat), Nat)
  BY NatLessThanWellFounded
<1>2. \E x \in S : \A y \in S : ~ (<<y, x>> \in OpToRel(<, Nat))
  BY <1>1, WFMin, Zenon
<1>3. \A x, y \in S : ~ (<<y, x>> \in OpToRel(<, Nat)) => x <= y
  BY DEF OpToRel
<1> QED  BY <1>2, <1>3


-----------------------------------------------------------------------------
(* Sums over finite sets: the sum of f is the number of its units.          *)

LEMMA DisjointUnion ==
  ASSUME NEW S, IsFiniteSet(S), NEW T, IsFiniteSet(T), S \cap T = {}
  PROVE  Cardinality(S \cup T) = Cardinality(S) + Cardinality(T)
<1>1. Cardinality(S \cup T) = Cardinality(S) + Cardinality(T) - Cardinality(S \cap T)
  BY FS_Union
<1>2. /\ Cardinality(S \cap T) = 0 /\ Cardinality(S) \in Nat /\ Cardinality(T) \in Nat
  BY FS_EmptySet, FS_CardinalityType
<1> QED  BY <1>1, <1>2

UnitsOf(f, x) == {x} \X (1 .. f[x])

Units(f, S) == UNION {UnitsOf(f, x) : x \in S}

LEMMA UnitsAreFinite ==
  ASSUME NEW f, NEW S, IsFiniteSet(S), \A x \in S : f[x] \in Nat
  PROVE  /\ IsFiniteSet(Units(f, S))
         /\ \A x \in S : IsFiniteSet(UnitsOf(f, x)) /\ Cardinality(UnitsOf(f, x)) = f[x]
<1>1. ASSUME NEW x \in S PROVE IsFiniteSet(UnitsOf(f, x)) /\ Cardinality(UnitsOf(f, x)) = f[x]
  <2>1. f[x] \in Nat
    OBVIOUS
  <2>2. IsFiniteSet(1 .. f[x]) /\ Cardinality(1 .. f[x]) = f[x]
    <3>1. \A n \in Nat : IsFiniteSet(1 .. n) /\ Cardinality(1 .. n) = n
      BY FS_Interval
    <3> QED  BY <2>1, <3>1, Zenon
  <2>3. IsFiniteSet({x}) /\ Cardinality({x}) = 1
    BY FS_Singleton
  <2> DEFINE n == f[x]
  <2> HIDE DEF n
  <2>4. /\ IsFiniteSet({x} \X (1 .. n))
        /\ Cardinality({x} \X (1 .. n)) = Cardinality({x}) * Cardinality(1 .. n)
    BY <2>2, <2>3, FS_Product, Zenon DEF n
  <2>5. Cardinality({x} \X (1 .. n)) = n
    BY <2>1, <2>2, <2>3, <2>4 DEF n
  <2> QED  BY <2>4, <2>5 DEF UnitsOf, n
<1> DEFINE g == [x \in S |-> UnitsOf(f, x)]
           T == {UnitsOf(f, x) : x \in S}
<1>2. g \in Surjection(S, T)
  BY DEF Surjection
<1>3. IsFiniteSet(T)
  BY <1>2, FS_Surjection
<1>4. IsFiniteSet(UNION T)
  BY <1>1, <1>3, FS_UNION
<1> QED  BY <1>1, <1>4 DEF Units

LEMMA UnitsApart ==
  ASSUME NEW f, NEW S, NEW x \in S, IsFiniteSet(S), \A y \in S : f[y] \in Nat
  PROVE  Cardinality(Units(f, S)) = f[x] + Cardinality(Units(f, S \ {x}))
<1> DEFINE R == S \ {x}
<1>1. IsFiniteSet(R) /\ IsFiniteSet(Units(f, R)) /\ Cardinality(Units(f, R)) \in Nat
  BY FS_RemoveElement, UnitsAreFinite, FS_CardinalityType
<1>2. IsFiniteSet(UnitsOf(f, x)) /\ Cardinality(UnitsOf(f, x)) = f[x]
  BY UnitsAreFinite
<1>3. Units(f, S) = UnitsOf(f, x) \cup Units(f, R)
  BY DEF Units
<1>4. UnitsOf(f, x) \cap Units(f, R) = {}
  BY DEF Units, UnitsOf
<1>5. Cardinality(UnitsOf(f, x) \cup Units(f, R)) = Cardinality(UnitsOf(f, x)) + Cardinality(Units(f, R))
  BY <1>1, <1>2, <1>4, DisjointUnion, Zenon
<1> QED  BY <1>2, <1>3, <1>5

Summing(f, S, sum) ==
  sum = [s \in SUBSET S |->
           IF s = {} THEN 0
           ELSE LET x == CHOOSE x \in s : TRUE IN f[x] + sum[s \ {x}]]

LEMMA SummingCounts ==
  ASSUME NEW f, NEW S, IsFiniteSet(S), \A x \in S : f[x] \in Nat
  PROVE  Summing(f, S, [s \in SUBSET S |-> Cardinality(Units(f, s))])
<1> DEFINE sum == [s \in SUBSET S |-> Cardinality(Units(f, s))]
           next(s) == IF s = {} THEN 0 ELSE LET x == CHOOSE x \in s : TRUE IN f[x] + sum[s \ {x}]
<1>1. ASSUME NEW s \in SUBSET S PROVE sum[s] = next(s)
  <2>1. CASE s = {}
    BY <2>1, FS_EmptySet DEF Units
  <2>2. CASE s # {}
    <3> DEFINE x == CHOOSE x \in s : TRUE
    <3>1. x \in s /\ IsFiniteSet(s) /\ \A y \in s : f[y] \in Nat
      BY <2>2, FS_Subset
    <3> HIDE DEF x
    <3>2. Cardinality(Units(f, s)) = f[x] + Cardinality(Units(f, s \ {x}))
      BY <3>1, UnitsApart
    <3>3. sum[s] = f[x] + sum[s \ {x}]
      BY <3>2
    <3> QED  BY <2>2, <3>3 DEF x
  <2> QED  BY <2>1, <2>2
<1>2. sum = [s \in SUBSET S |-> next(s)]
  <2> HIDE DEF next
  <2> QED  BY <1>1
<1> QED  BY <1>2 DEF Summing

LEMMA SummingIsUnique ==
  ASSUME NEW f, NEW S, IsFiniteSet(S), \A x \in S : f[x] \in Nat, NEW sum, Summing(f, S, sum)
  PROVE  sum[S] = Cardinality(Units(f, S))
<1> DEFINE wrong == {s \in SUBSET S : sum[s] # Cardinality(Units(f, s))}
           sizes == {Cardinality(s) : s \in wrong}
<1>1. \A s \in SUBSET S : IsFiniteSet(s) /\ Cardinality(s) \in Nat
  BY FS_Subset, FS_CardinalityType
<1>2. SUFFICES ASSUME wrong # {} PROVE FALSE
  OBVIOUS
<1>3. sizes \in SUBSET Nat /\ sizes # {}
  BY <1>1, <1>2
<1>4. PICK s \in wrong : \A t \in wrong : Cardinality(s) <= Cardinality(t)
  <2>1. PICK n \in sizes : \A m \in sizes : n <= m
    BY <1>3, LeastElement, Zenon
  <2> QED  BY <2>1
<1>5. sum[s] = IF s = {} THEN 0 ELSE LET x == CHOOSE x \in s : TRUE IN f[x] + sum[s \ {x}]
  <2>1. s \in SUBSET S
    OBVIOUS
  <2> QED  BY <2>1, Zenon DEF Summing
<1>6. CASE s = {}
  <2>1. Cardinality(Units(f, s)) = 0
    BY <1>6, FS_EmptySet DEF Units
  <2> QED  BY <1>5, <1>6, <2>1
<1>7. CASE s # {}
  <2> DEFINE x == CHOOSE x \in s : TRUE
  <2>1. x \in s /\ IsFiniteSet(s) /\ \A y \in s : f[y] \in Nat
    BY <1>1, <1>7
  <2>2. sum[s] = f[x] + sum[s \ {x}]
    BY <1>5, <1>7
  <2> HIDE DEF x
  <2>3. s \ {x} \in SUBSET S /\ Cardinality(s \ {x}) = Cardinality(s) - 1 /\ Cardinality(s) \in Nat
    BY <1>1, <2>1, FS_RemoveElement
  <2>4. s \ {x} \notin wrong
    BY <1>4, <2>3
  <2>5. sum[s \ {x}] = Cardinality(Units(f, s \ {x}))
    BY <2>3, <2>4
  <2>6. Cardinality(Units(f, s)) = f[x] + Cardinality(Units(f, s \ {x}))
    <3>1. ASSUME NEW T, NEW y \in T, IsFiniteSet(T), \A z \in T : f[z] \in Nat
          PROVE  Cardinality(Units(f, T)) = f[y] + Cardinality(Units(f, T \ {y}))
      BY <3>1, UnitsApart
    <3> QED  BY <2>1, <3>1
  <2> QED  BY <2>2, <2>5, <2>6
<1> QED  BY <1>6, <1>7

LEMMA SumCounts ==
  ASSUME NEW f, NEW S, IsFiniteSet(S), \A x \in S : f[x] \in Nat
  PROVE  SumFunctionOnSet(f, S) = Cardinality(Units(f, S))
<1> DEFINE sum == CHOOSE sum : Summing(f, S, sum)
<1>1. Summing(f, S, sum)
  BY SummingCounts
<1>2. SumFunctionOnSet(f, S) = sum[S]
  BY DEF SumFunctionOnSet, FoldFunctionOnSet, MapThenFoldSet, Summing
<1> QED  BY <1>1, <1>2, SummingIsUnique

\* Sums are numbers; an element, or disjoint sets, can be taken apart.
LEMMA SumFacts ==
  ASSUME NEW f, NEW S, IsFiniteSet(S), \A x \in S : f[x] \in Nat
  PROVE  /\ SumFunctionOnSet(f, S) \in Nat
         /\ S = {} => SumFunctionOnSet(f, S) = 0
         /\ \A x \in S : SumFunctionOnSet(f, S) = f[x] + SumFunctionOnSet(f, S \ {x})
         /\ \A g : (\A x \in S : g[x] = f[x]) => SumFunctionOnSet(g, S) = SumFunctionOnSet(f, S)
<1>1. SumFunctionOnSet(f, S) = Cardinality(Units(f, S))
  BY SumCounts
<1>2. Cardinality(Units(f, S)) \in Nat
  BY UnitsAreFinite, FS_CardinalityType
<1>3. S = {} => Cardinality(Units(f, S)) = 0
  BY FS_EmptySet DEF Units
<1>4. ASSUME NEW x \in S PROVE SumFunctionOnSet(f, S) = f[x] + SumFunctionOnSet(f, S \ {x})
  <2>1. SumFunctionOnSet(f, S \ {x}) = Cardinality(Units(f, S \ {x}))
    BY SumCounts, FS_RemoveElement
  <2> QED  BY <1>1, <2>1, UnitsApart
<1>5. ASSUME NEW g, \A x \in S : g[x] = f[x]
      PROVE  SumFunctionOnSet(g, S) = SumFunctionOnSet(f, S)
  <2>1. SumFunctionOnSet(g, S) = Cardinality(Units(g, S))
    BY <1>5, SumCounts
  <2>2. \A x \in S : UnitsOf(g, x) = UnitsOf(f, x)
    BY <1>5 DEF UnitsOf
  <2>3. Units(g, S) = Units(f, S)
    BY <2>2 DEF Units
  <2> QED  BY <1>1, <2>1, <2>3
<1> QED  BY <1>1, <1>2, <1>3, <1>4, <1>5

LEMMA SumOfTwo ==
  ASSUME NEW f, NEW S, NEW T, IsFiniteSet(S), IsFiniteSet(T), S \cap T = {},
         \A x \in S \cup T : f[x] \in Nat
  PROVE  SumFunctionOnSet(f, S \cup T) = SumFunctionOnSet(f, S) + SumFunctionOnSet(f, T)
<1>1. IsFiniteSet(S \cup T)
  BY FS_Union
<1>2. /\ SumFunctionOnSet(f, S \cup T) = Cardinality(Units(f, S \cup T))
      /\ SumFunctionOnSet(f, S) = Cardinality(Units(f, S))
      /\ SumFunctionOnSet(f, T) = Cardinality(Units(f, T))
  BY <1>1, SumCounts
<1>3. /\ IsFiniteSet(Units(f, S)) /\ IsFiniteSet(Units(f, T))
      /\ Cardinality(Units(f, S)) \in Nat /\ Cardinality(Units(f, T)) \in Nat
  BY UnitsAreFinite, FS_CardinalityType
<1>4. Units(f, S \cup T) = Units(f, S) \cup Units(f, T)
  BY DEF Units
<1>5. Units(f, S) \cap Units(f, T) = {}
  BY DEF Units, UnitsOf
<1>6. Cardinality(Units(f, S) \cup Units(f, T)) = Cardinality(Units(f, S)) + Cardinality(Units(f, T))
  BY <1>3, <1>5, DisjointUnion, Zenon
<1> QED  BY <1>2, <1>4, <1>6

\* One more for each element of T.
LEMMA SumGrows ==
  ASSUME NEW f, NEW g, NEW S, NEW T \in SUBSET S, IsFiniteSet(S), \A x \in S : f[x] \in Nat,
         \A x \in S : g[x] = IF x \in T THEN f[x] + 1 ELSE f[x]
  PROVE  SumFunctionOnSet(g, S) = SumFunctionOnSet(f, S) + Cardinality(T)
<1> DEFINE new == {<<x, f[x] + 1>> : x \in T}
           h == [x \in T |-> <<x, f[x] + 1>>]
<1>1. \A x \in S : g[x] \in Nat
  OBVIOUS
<1>2. IsFiniteSet(T) /\ Cardinality(T) \in Nat
  BY FS_Subset, FS_CardinalityType
<1>3. h \in Surjection(T, new) /\ h \in Injection(T, new)
  BY DEF Surjection, Injection, IsInjective
<1>4. IsFiniteSet(new) /\ Cardinality(new) = Cardinality(T)
  BY <1>2, <1>3, FS_Surjection
<1>5. /\ SumFunctionOnSet(f, S) = Cardinality(Units(f, S))
      /\ SumFunctionOnSet(g, S) = Cardinality(Units(g, S))
      /\ IsFiniteSet(Units(f, S)) /\ Cardinality(Units(f, S)) \in Nat
  BY <1>1, SumCounts, UnitsAreFinite, FS_CardinalityType
<1>6. \A x \in S : UnitsOf(g, x) = IF x \in T THEN UnitsOf(f, x) \cup {<<x, f[x] + 1>>} ELSE UnitsOf(f, x)
  <2> SUFFICES ASSUME NEW x \in S
               PROVE  UnitsOf(g, x) = IF x \in T THEN UnitsOf(f, x) \cup {<<x, f[x] + 1>>}
                                      ELSE UnitsOf(f, x)
    OBVIOUS
  <2>1. f[x] \in Nat
    OBVIOUS
  <2>2. x \in T => 1 .. g[x] = (1 .. f[x]) \cup {f[x] + 1}
    BY <2>1
  <2> QED  BY <2>2 DEF UnitsOf
<1>7. Units(g, S) = Units(f, S) \cup new
  BY <1>6 DEF Units
<1>8. Units(f, S) \cap new = {}
  <2>1. \A x \in S : <<x, f[x] + 1>> \notin UnitsOf(f, x)
    BY DEF UnitsOf
  <2>2. \A x, y : \A z : <<x, z>> \in UnitsOf(f, y) => x = y
    BY DEF UnitsOf
  <2>3. ASSUME NEW u \in new, u \in Units(f, S) PROVE FALSE
    <3>1. PICK x \in T : u = <<x, f[x] + 1>>
      OBVIOUS
    <3>2. PICK y \in S : u \in UnitsOf(f, y)
      BY <2>3 DEF Units
    <3>3. x = y
      BY <2>2, <3>1, <3>2, Zenon
    <3> QED  BY <2>1, <3>1, <3>2, <3>3
  <2> QED  BY <2>3
<1> HIDE DEF new
<1>9. Cardinality(Units(f, S) \cup new) = Cardinality(Units(f, S)) + Cardinality(new)
  BY <1>4, <1>5, <1>8, DisjointUnion, Zenon
<1> QED  BY <1>4, <1>5, <1>7, <1>9

-----------------------------------------------------------------------------
(* Sandbox: what start() returns is true of the child.                      *)

\* Where a child is before its target runs.
Preparing == {"environment", "limits", "namespaces", "filter", "target"}

ChildStates ==
  [pc : Preparing \cup {"sending", "hung", "blocked", "ended"},
   environ : SUBSET Environ, limits : SUBSET profile.limits,
   namespaces : SUBSET {"user", "pid", "mount", "network"},
   program : {<< >>, BuildBpfProgram(ChooseAllowedSyscalls(profile))},
   did : {"nothing", "returned", "raised", "died", "hung"}, deaf : BOOLEAN]

Answers == {"nothing", "returned", "raised", "not_readable"}

\* What a child did, and what it has sent.
Consistent(c, answer) ==
  /\ c.pc \in Preparing => ~c.deaf /\ c.did = "nothing" /\ answer = "nothing"
  /\ c.pc = "sending" => c.did \in {"returned", "raised"}
  /\ answer \in {"returned", "raised"} => answer = c.did

ChildrenOK ==
  /\ child \in Seq(ChildStates)
  /\ pipe \in Seq(Answers)
  /\ Len(pipe) = Len(child)
  /\ \A i \in DOMAIN child : Consistent(child[i], pipe[i])

\* A report is that of a child that has ended, or claims nothing.
Told(r, c, answer) ==
  /\ r.outcome = "timeout" => r.enforcement = NoReport
  /\ r.outcome # "timeout" => c.pc = "ended"
  /\ r.outcome \in {"returned", "raised"} => r.outcome = c.did /\ r.enforcement = Report(c)
  /\ r.outcome = "no_result" => answer \in {"nothing", "not_readable"} /\ r.enforcement = NoReport
  /\ c.pc # "ended" => c.deaf

ReturnValues ==
  [outcome : {"returned", "raised", "no_result", "timeout"},
   enforcement : {NoReport} \cup {Report(c) : c \in ChildStates}]

ResultsOK ==
  /\ results \in Seq(ReturnValues)
  /\ parent \in {"idle", "joining", "asking"}
  /\ parent = "idle" => Len(results) = Len(child)
  /\ parent # "idle" => Len(results) + 1 = Len(child)
  /\ \A i \in DOMAIN results : Told(results[i], child[i], pipe[i])
  /\ results # << >> => lastReport = results[Len(results)].enforcement

SandboxInv == ChildrenOK /\ ResultsOK

LEMMA SandboxImplies == SandboxInv => ResultIsTrue
<1> SUFFICES ASSUME SandboxInv, NEW i \in DOMAIN results
             PROVE  LET r == results[i]
                        its == child[i]
                    IN /\ r.outcome \in {"returned", "raised"} => r.outcome = its.did /\ ~Alive(i)
                       /\ r.outcome = "no_result" => \/ its.did \in {"nothing", "died", "hung"}
                                                     \/ pipe[i] \in {"nothing", "not_readable"}
                       /\ r.enforcement.namespaces \subseteq its.namespaces
                       /\ r.enforcement.limits \subseteq its.limits
                       /\ r.enforcement.level = "full" => its.namespaces # {} /\ its.limits # {}
                       /\ Alive(i) => its.deaf
                       /\ i = Len(results) => lastReport = r.enforcement
  BY DEF ResultIsTrue
<1> DEFINE r == results[i]
           its == child[i]
<1>1. Told(r, its, pipe[i]) /\ r.outcome \in {"returned", "raised", "no_result", "timeout"}
  <2>1. Told(r, its, pipe[i]) /\ r \in ReturnValues
    BY DEF SandboxInv, ResultsOK
  <2> HIDE DEF r, its
  <2>2. r.outcome \in {"returned", "raised", "no_result", "timeout"}
    BY <2>1, Zenon DEF ReturnValues
  <2> QED  BY <2>1, <2>2
<1>2. r.enforcement = NoReport \/ r.enforcement = Report(its)
  BY <1>1 DEF Told
<1>3. /\ r.enforcement.namespaces \subseteq its.namespaces
      /\ r.enforcement.limits \subseteq its.limits
      /\ r.enforcement.level = "full" => its.namespaces # {} /\ its.limits # {}
  <2> HIDE DEF r, its
  <2>1. CASE r.enforcement = NoReport
    BY <2>1 DEF NoReport
  <2>2. CASE r.enforcement = Report(its)
    BY <2>2 DEF Report, Level
  <2> QED  BY <1>2, <2>1, <2>2
<1>4. i = Len(results) => lastReport = r.enforcement
  BY DEF SandboxInv, ResultsOK
<1> QED  BY <1>1, <1>3, <1>4 DEF Told, Alive

LEMMA SandboxStarts == Init => SandboxInv
BY DEF Init, SandboxInv, ChildrenOK, ResultsOK

\* A child goes on; what was said of it when start() returned stays true.
LEMMA ChildStep ==
  ASSUME SandboxInv, NEW i \in DOMAIN child, Alive(i),
         NEW c \in ChildStates, NEW answer \in Answers, Consistent(c, answer),
         child' = [child EXCEPT ![i] = c], pipe' = [pipe EXCEPT ![i] = answer],
         UNCHANGED <<profile, parent, results, lastReport>>,
         i \in DOMAIN results => c.pc = "ended" \/ c.deaf
  PROVE  SandboxInv'
<1>1. child \in Seq(ChildStates) /\ pipe \in Seq(Answers) /\ Len(pipe) = Len(child)
  BY DEF SandboxInv, ChildrenOK
<1>2. /\ child' \in Seq(ChildStates) /\ pipe' \in Seq(Answers)
      /\ Len(pipe') = Len(pipe) /\ Len(child') = Len(child)
      /\ child'[i] = c /\ pipe'[i] = answer
      /\ \A j \in DOMAIN child : j # i => child'[j] = child[j] /\ pipe'[j] = pipe[j]
  BY <1>1
<1>3. ChildStates' = ChildStates /\ ReturnValues' = ReturnValues
  BY DEF ChildStates, ReturnValues
<1>4. ChildrenOK'
  BY <1>2, <1>3 DEF SandboxInv, ChildrenOK
<1>5. \A j \in DOMAIN results : Told(results[j], child'[j], pipe'[j])
  <2>1. SUFFICES ASSUME NEW j \in DOMAIN results PROVE Told(results[j], child'[j], pipe'[j])
    OBVIOUS
  <2>2. Told(results[j], child[j], pipe[j]) /\ j \in DOMAIN child
    BY <1>1 DEF SandboxInv, ResultsOK
  <2>3. CASE j # i
    BY <1>2, <2>2, <2>3
  <2>4. CASE j = i
    BY <1>2, <2>2, <2>4 DEF Told, Alive
  <2> QED  BY <2>3, <2>4
<1>6. ResultsOK'
  BY <1>2, <1>3, <1>5 DEF SandboxInv, ResultsOK
<1> QED  BY <1>4, <1>6 DEF SandboxInv

LEMMA PlaceFacts ==
  ASSUME SandboxInv, NEW i \in DOMAIN child
  PROVE  /\ child[i] \in ChildStates /\ pipe[i] \in Answers /\ Consistent(child[i], pipe[i])
         /\ pipe \in Seq(Answers) /\ i \in DOMAIN pipe /\ pipe = [pipe EXCEPT ![i] = pipe[i]]
         /\ i \in DOMAIN results /\ child[i].pc # "ended" => child[i].deaf
<1>1. /\ child \in Seq(ChildStates) /\ pipe \in Seq(Answers) /\ Len(pipe) = Len(child)
      /\ \A j \in DOMAIN child : Consistent(child[j], pipe[j])
      /\ \A j \in DOMAIN results : Told(results[j], child[j], pipe[j])
  BY DEF SandboxInv, ChildrenOK, ResultsOK
<1>2. i \in DOMAIN results /\ child[i].pc # "ended" => child[i].deaf
  BY <1>1 DEF Told
<1> QED  BY <1>1, <1>2

\* A child that is still taking rights from itself gets to pc; d is what it has then.
LEMMA Prepares ==
  ASSUME SandboxInv, NEW i, NEW place \in Preparing, At(i, place),
         NEW d \in ChildStates, d.pc \in Preparing, d.did = child[i].did, d.deaf = child[i].deaf,
         child' = [child EXCEPT ![i] = d],
         UNCHANGED <<platform, profile, timeout, parent, pipe, results, lastReport>>
  PROVE  SandboxInv'
<1>1. i \in DOMAIN child /\ child[i].pc = place
  BY DEF At
<1>2. Consistent(child[i], pipe[i]) /\ pipe' = [pipe EXCEPT ![i] = pipe[i]] /\ pipe[i] \in Answers
      /\ (i \in DOMAIN results /\ child[i].pc # "ended" => child[i].deaf)
  BY <1>1, PlaceFacts
<1>3. Alive(i) /\ ~child[i].deaf
  BY <1>1, <1>2 DEF Alive, Consistent, Preparing
<1>4. Consistent(d, pipe[i]) /\ i \notin DOMAIN results
  BY <1>1, <1>2, <1>3 DEF Consistent, Alive, Preparing
<1> QED  BY <1>1, <1>2, <1>3, <1>4, ChildStep

LEMMA LayersKeep ==
  ASSUME SandboxInv, NEW i, SanitizeEnv(i) \/ ApplyLimits(i) \/ CreateSandbox(i) \/ ApplyFilter(i)
  PROVE  SandboxInv'
<1>1. ASSUME NEW place, At(i, place) PROVE child[i] \in ChildStates /\ i \in DOMAIN child
  BY <1>1, PlaceFacts DEF At
<1> DEFINE c == child[i]
<1>2. CASE SanitizeEnv(i)
  <2> DEFINE d == [c EXCEPT !.pc = "limits", !.environ = Sanitize(Environ, profile)]
  <2>1. c \in ChildStates /\ At(i, "environment")
    BY <1>1, <1>2 DEF SanitizeEnv
  <2>2. Sanitize(Environ, profile) \in SUBSET Environ
    BY DEF Sanitize
  <2>3. d \in ChildStates /\ d.pc = "limits" /\ d.did = c.did /\ d.deaf = c.deaf
    BY <2>1, <2>2 DEF ChildStates, Preparing
  <2>4. child' = [child EXCEPT ![i] = d]
        /\ UNCHANGED <<platform, profile, timeout, parent, pipe, results, lastReport>>
    BY <1>2 DEF SanitizeEnv
  <2> HIDE DEF d
  <2> QED  BY <2>1, <2>3, <2>4, Prepares DEF Preparing
<1>3. CASE ApplyLimits(i)
  <2> DEFINE d == [c EXCEPT !.pc = "namespaces", !.limits = profile.limits \cap platform.limits]
  <2>1. c \in ChildStates /\ At(i, "limits")
    BY <1>1, <1>3 DEF ApplyLimits
  <2>2. d \in ChildStates /\ d.pc = "namespaces" /\ d.did = c.did /\ d.deaf = c.deaf
    BY <2>1 DEF ChildStates, Preparing
  <2>3. child' = [child EXCEPT ![i] = d]
        /\ UNCHANGED <<platform, profile, timeout, parent, pipe, results, lastReport>>
    BY <1>3 DEF ApplyLimits
  <2> HIDE DEF d
  <2> QED  BY <2>1, <2>2, <2>3, Prepares DEF Preparing
<1>4. CASE CreateSandbox(i)
  <2> DEFINE entered == IF platform.unshare
                        THEN {"user", "pid", "mount"} \cup {n \in {"network"} : ~profile.network}
                        ELSE {}
             d == [c EXCEPT !.pc = "filter", !.namespaces = entered]
  <2>1. c \in ChildStates /\ At(i, "namespaces")
    BY <1>1, <1>4 DEF CreateSandbox
  <2>2. entered \in SUBSET {"user", "pid", "mount", "network"}
    OBVIOUS
  <2>3. d \in ChildStates /\ d.pc = "filter" /\ d.did = c.did /\ d.deaf = c.deaf
    <3> HIDE DEF entered
    <3> QED  BY <2>1, <2>2 DEF ChildStates, Preparing
  <2>4. child' = [child EXCEPT ![i] = d]
        /\ UNCHANGED <<platform, profile, timeout, parent, pipe, results, lastReport>>
    BY <1>4 DEF CreateSandbox
  <2> HIDE DEF d
  <2> QED  BY <2>1, <2>3, <2>4, Prepares DEF Preparing
<1>5. CASE ApplyFilter(i)
  <2> DEFINE installed == IF platform.prctl
                          THEN BuildBpfProgram(ChooseAllowedSyscalls(profile)) ELSE << >>
             d == [c EXCEPT !.pc = "target", !.program = installed]
  <2>1. c \in ChildStates /\ At(i, "filter")
    BY <1>1, <1>5 DEF ApplyFilter
  <2>2. installed \in {<< >>, BuildBpfProgram(ChooseAllowedSyscalls(profile))}
    OBVIOUS
  <2>3. d \in ChildStates /\ d.pc = "target" /\ d.did = c.did /\ d.deaf = c.deaf
    <3> HIDE DEF installed
    <3> QED  BY <2>1, <2>2 DEF ChildStates, Preparing
  <2>4. child' = [child EXCEPT ![i] = d]
        /\ UNCHANGED <<platform, profile, timeout, parent, pipe, results, lastReport>>
    BY <1>5 DEF ApplyFilter
  <2> HIDE DEF d
  <2> QED  BY <2>1, <2>3, <2>4, Prepares DEF Preparing
<1> QED  BY <1>2, <1>3, <1>4, <1>5

LEMMA TargetKeeps ==
  ASSUME SandboxInv, NEW i, RunTarget(i) \/ SendResult(i) \/ Crash(i)
  PROVE  SandboxInv'
<1> DEFINE c == child[i]
<1>1. i \in DOMAIN child
  BY DEF RunTarget, SendResult, Crash, At
<1>2. /\ c \in ChildStates /\ pipe[i] \in Answers /\ Consistent(c, pipe[i])
      /\ pipe = [pipe EXCEPT ![i] = pipe[i]]
      /\ i \in DOMAIN results /\ c.pc # "ended" => c.deaf
  BY <1>1, PlaceFacts
<1>3. CASE RunTarget(i)
  <2>1. PICK how \in {"returned", "raised", "died", "hung"}, deaf \in BOOLEAN :
          child' = [child EXCEPT
            ![i].pc = CASE how = "died" -> "ended" [] how = "hung" -> "hung"
                        [] OTHER -> "sending",
            ![i].did = how, ![i].deaf = deaf]
    BY <1>3, Zenon DEF RunTarget
  <2> DEFINE next == CASE how = "died" -> "ended" [] how = "hung" -> "hung" [] OTHER -> "sending"
             d == [c EXCEPT !.pc = next, !.did = how, !.deaf = deaf]
  <2>2. /\ next \in {"ended", "hung", "sending"}
        /\ next = "sending" => how \in {"returned", "raised"}
    OBVIOUS
  <2>3. c.pc = "target" /\ UNCHANGED <<profile, parent, pipe, results, lastReport>>
    BY <1>3 DEF RunTarget, At
  <2>4. Alive(i) /\ i \notin DOMAIN results /\ pipe[i] = "nothing"
    BY <1>2, <2>3 DEF Alive, Consistent, Preparing
  <2> HIDE DEF next
  <2>5. d \in ChildStates /\ d.pc = next /\ d.did = how
    BY <1>2, <2>2 DEF ChildStates
  <2>6. Consistent(d, pipe[i])
    BY <2>2, <2>4, <2>5 DEF Consistent, Preparing
  <2>7. child' = [child EXCEPT ![i] = d] /\ pipe' = [pipe EXCEPT ![i] = pipe[i]]
    BY <1>2, <2>1, <2>3 DEF next
  <2> HIDE DEF d
  <2> QED  BY <1>1, <1>2, <2>3, <2>4, <2>5, <2>6, <2>7, ChildStep
<1>4. CASE SendResult(i)
  <2>1. PICK payload \in {"fits", "too_large", "not_picklable", "not_readable"} :
          /\ child' = [child EXCEPT ![i] = [c EXCEPT !.pc = IF payload = "too_large" THEN "blocked"
                                                             ELSE "ended"]]
          /\ pipe' = [pipe EXCEPT ![i] = CASE payload = "fits" -> c.did
                                           [] payload = "not_readable" -> payload
                                           [] OTHER -> "nothing"]
    BY <1>4 DEF SendResult
  <2> DEFINE next == IF payload = "too_large" THEN "blocked" ELSE "ended"
             answer == CASE payload = "fits" -> c.did [] payload = "not_readable" -> payload
                         [] OTHER -> "nothing"
             d == [c EXCEPT !.pc = next]
  <2>2. c.pc = "sending" /\ UNCHANGED <<profile, parent, results, lastReport>>
    BY <1>4 DEF SendResult, At
  <2>3. c.did \in {"returned", "raised"} /\ Alive(i) /\ (i \in DOMAIN results => c.deaf)
    BY <1>2, <2>2 DEF Consistent, Alive
  <2>4. /\ answer \in Answers
        /\ answer \in {"returned", "raised"} => answer = c.did
    BY <2>3 DEF Answers
  <2>5. d \in ChildStates /\ d.pc = next /\ d.did = c.did /\ d.deaf = c.deaf
        /\ next \in {"blocked", "ended"}
    BY <1>2 DEF ChildStates
  <2> HIDE DEF next, answer
  <2>6. Consistent(d, answer)
    BY <2>3, <2>4, <2>5 DEF Consistent, Preparing
  <2>7. child' = [child EXCEPT ![i] = d] /\ pipe' = [pipe EXCEPT ![i] = answer]
    BY <2>1 DEF next, answer
  <2> HIDE DEF d
  <2> QED  BY <1>1, <2>2, <2>3, <2>4, <2>5, <2>6, <2>7, ChildStep
<1>5. CASE Crash(i)
  <2> DEFINE d == [c EXCEPT !.pc = "ended"]
  <2>1. Alive(i) /\ UNCHANGED <<profile, parent, results, lastReport>>
        /\ child' = [child EXCEPT ![i] = d] /\ pipe' = [pipe EXCEPT ![i] = pipe[i]]
    BY <1>2, <1>5 DEF Crash
  <2>2. d \in ChildStates /\ d.pc = "ended" /\ d.did = c.did
    BY <1>2 DEF ChildStates
  <2>3. Consistent(d, pipe[i])
    BY <1>2, <2>2 DEF Consistent, Preparing
  <2> HIDE DEF d
  <2> QED  BY <1>1, <1>2, <2>1, <2>2, <2>3, ChildStep
<1> QED  BY <1>3, <1>4, <1>5

\* A result is added about the child that was started last.
LEMMA Returned ==
  ASSUME SandboxInv, parent = "asking", NEW outcome, NEW report, [outcome |-> outcome,
         enforcement |-> report] \in ReturnValues, Return(outcome, report),
         ChildrenOK', Len(child') = Len(child), profile' = profile,
         \A i \in DOMAIN results : Told(results[i], child'[i], pipe'[i]),
         Told([outcome |-> outcome, enforcement |-> report], child'[Current], pipe'[Current])
  PROVE  SandboxInv'
<1> DEFINE r == [outcome |-> outcome, enforcement |-> report]
<1>1. /\ results \in Seq(ReturnValues) /\ Len(results) + 1 = Len(child)
      /\ results' = Append(results, r) /\ lastReport' = report /\ parent' = "idle"
  BY DEF SandboxInv, ResultsOK, Return
<1> HIDE DEF r
<1>2. r \in ReturnValues /\ r.enforcement = report /\ Told(r, child'[Current], pipe'[Current])
  BY DEF r
<1>3. ReturnValues' = ReturnValues
  BY DEF ReturnValues, ChildStates
<1>4. /\ results' \in Seq(ReturnValues) /\ Len(results') = Len(results) + 1
      /\ results'[Len(results')] = r /\ results' # << >>
      /\ \A i \in DOMAIN results' : \/ i \in DOMAIN results /\ results'[i] = results[i]
                                    \/ i = Current /\ results'[i] = r
  <2>1. Current = Len(results) + 1
    BY <1>1 DEF Current
  <2>2. /\ results' \in Seq(ReturnValues) /\ results' # << >> /\ Len(results) \in Nat
        /\ Len(results') = Len(results) + 1 /\ results'[Len(results) + 1] = r
        /\ DOMAIN results' = DOMAIN results \cup {Len(results) + 1}
        /\ \A i \in DOMAIN results : results'[i] = results[i]
    BY <1>1, <1>2, AppendFacts
  <2>3. results'[Len(results')] = r
    BY <2>2
  <2>4. ASSUME NEW i \in DOMAIN results'
        PROVE  \/ i \in DOMAIN results /\ results'[i] = results[i]
               \/ i = Current /\ results'[i] = r
    BY <2>1, <2>2, Zenon
  <2>5. \A i \in DOMAIN results' : \/ i \in DOMAIN results /\ results'[i] = results[i]
                                   \/ i = Current /\ results'[i] = r
    BY <2>4, Zenon
  <2> QED  BY <2>2, <2>3, <2>5, Zenon
<1>5. \A i \in DOMAIN results' : Told(results'[i], child'[i], pipe'[i])
  BY <1>2, <1>4
<1> QED  BY <1>1, <1>2, <1>3, <1>4, <1>5 DEF SandboxInv, ResultsOK

LEMMA ParentKeeps ==
  ASSUME SandboxInv, Start \/ Join \/ Overrun \/ Read
  PROVE  SandboxInv'
<1>1. /\ child \in Seq(ChildStates) /\ pipe \in Seq(Answers) /\ Len(pipe) = Len(child)
      /\ \A i \in DOMAIN child : Consistent(child[i], pipe[i])
      /\ \A i \in DOMAIN results : Told(results[i], child[i], pipe[i])
      /\ Len(results) \in Nat /\ DOMAIN results = 1 .. Len(results)
  BY DEF SandboxInv, ChildrenOK, ResultsOK
<1>2. profile' = profile /\ ChildStates' = ChildStates /\ ReturnValues' = ReturnValues
  BY DEF Start, Join, Overrun, Read, ChildStates, ReturnValues
<1>3. CASE Start
  <2> DEFINE new == [pc |-> "environment", environ |-> Environ, limits |-> {},
                     namespaces |-> {}, program |-> << >>, did |-> "nothing", deaf |-> FALSE]
  <2>1. /\ child' = Append(child, new) /\ pipe' = Append(pipe, "nothing")
        /\ parent = "idle" /\ parent' = "joining" /\ UNCHANGED <<results, lastReport>>
    BY <1>3 DEF Start
  <2>2. new \in ChildStates /\ Consistent(new, "nothing") /\ "nothing" \in Answers
    BY DEF ChildStates, Consistent, Answers, Preparing
  <2> HIDE DEF new
  <2>3. /\ child' \in Seq(ChildStates) /\ pipe' \in Seq(Answers)
        /\ Len(child') = Len(child) + 1 /\ Len(pipe') = Len(child')
        /\ \A i \in DOMAIN child : child'[i] = child[i] /\ pipe'[i] = pipe[i]
        /\ \A i \in DOMAIN child' : i \in DOMAIN child \/ (child'[i] = new /\ pipe'[i] = "nothing")
    <3>1. /\ child' \in Seq(ChildStates) /\ Len(child') = Len(child) + 1
          /\ child'[Len(child) + 1] = new
          /\ DOMAIN child' = DOMAIN child \cup {Len(child) + 1}
          /\ DOMAIN child = 1 .. Len(child) /\ Len(child) \in Nat
          /\ \A i \in DOMAIN child : child'[i] = child[i]
      BY <1>1, <2>1, <2>2, AppendFacts
    <3>2. /\ pipe' \in Seq(Answers) /\ Len(pipe') = Len(pipe) + 1
          /\ pipe'[Len(pipe) + 1] = "nothing"
          /\ DOMAIN pipe = 1 .. Len(pipe)
          /\ \A i \in DOMAIN pipe : pipe'[i] = pipe[i]
      BY <1>1, <2>1, <2>2, AppendFacts
    <3>3. DOMAIN pipe = DOMAIN child /\ pipe'[Len(child) + 1] = "nothing"
      BY <1>1, <3>1, <3>2
    <3>4. \A i \in DOMAIN child : child'[i] = child[i] /\ pipe'[i] = pipe[i]
      BY <3>1, <3>2, <3>3, Zenon
    <3>5. \A i \in DOMAIN child' : i \in DOMAIN child \/ (child'[i] = new /\ pipe'[i] = "nothing")
      BY <3>1, <3>3
    <3> QED  BY <1>1, <3>1, <3>2, <3>4, <3>5, Zenon
  <2>4. ChildrenOK'
    BY <1>1, <1>2, <2>2, <2>3 DEF ChildrenOK
  <2>5. Len(results) = Len(child)
    BY <2>1 DEF SandboxInv, ResultsOK
  <2>6. \A i \in DOMAIN results : Told(results[i], child'[i], pipe'[i])
    BY <1>1, <2>3, <2>5
  <2>7. ResultsOK'
    BY <1>2, <2>1, <2>3, <2>5, <2>6 DEF SandboxInv, ResultsOK
  <2> QED  BY <2>4, <2>7 DEF SandboxInv
<1>4. CASE Join
  BY <1>2, <1>4 DEF Join, SandboxInv, ChildrenOK, ResultsOK
<1>5. CASE Overrun
  <2> DEFINE c == child[Current]
             d == Terminated(c)
             r == [outcome |-> "timeout", enforcement |-> NoReport]
  <2>1. /\ parent = "asking" /\ Alive(Current) /\ child' = [child EXCEPT ![Current] = d]
        /\ Return("timeout", NoReport) /\ pipe' = pipe
    BY <1>5 DEF Overrun
  <2>2. Len(results) + 1 = Len(child) /\ Current \in DOMAIN child /\ Current = Len(child)
    BY <1>1, <2>1 DEF SandboxInv, ResultsOK, Current
  <2>3. c \in ChildStates /\ Consistent(c, pipe[Current]) /\ pipe[Current] \in Answers
    BY <1>1, <2>2
  <2>4. d \in ChildStates /\ (d.pc = "ended" \/ d.deaf) /\ Consistent(d, pipe[Current])
    <3>1. CASE c.deaf
      BY <2>3, <3>1 DEF Terminated
    <3>2. CASE ~c.deaf
      <4>1. d = [c EXCEPT !.pc = "ended"]
        BY <3>2 DEF Terminated
      <4>2. d \in ChildStates /\ d.pc = "ended" /\ d.did = c.did
        BY <2>3, <4>1 DEF ChildStates
      <4> QED  BY <2>3, <4>2 DEF Consistent, Preparing
    <3> QED  BY <3>1, <3>2
  <2> HIDE DEF d
  <2>5. /\ child' \in Seq(ChildStates) /\ Len(child') = Len(child) /\ child'[Current] = d
        /\ \A i \in DOMAIN child : i # Current => child'[i] = child[i]
    BY <1>1, <2>1, <2>2, <2>4
  <2>6. ChildrenOK'
    BY <1>1, <1>2, <2>1, <2>4, <2>5 DEF ChildrenOK
  <2>7. \A i \in DOMAIN results : Told(results[i], child'[i], pipe'[i])
    BY <1>1, <2>1, <2>2, <2>5
  <2>8. Told(r, child'[Current], pipe'[Current])
    BY <2>4, <2>5 DEF Told
  <2>9. r \in ReturnValues
    BY DEF ReturnValues
  <2> QED  BY <1>2, <2>1, <2>5, <2>6, <2>7, <2>8, <2>9, Returned
<1>6. CASE Read
  <2> DEFINE c == child[Current]
             answer == pipe[Current]
  <2>1. parent = "asking" /\ c.pc = "ended" /\ UNCHANGED <<child, pipe>>
    BY <1>6 DEF Read, Alive
  <2>2. Current \in DOMAIN child
    BY <1>1, <2>1 DEF SandboxInv, ResultsOK, Current
  <2>3. c \in ChildStates /\ Consistent(c, answer) /\ answer \in Answers /\ ChildrenOK'
    BY <1>1, <1>2, <2>1, <2>2 DEF SandboxInv, ChildrenOK
  <2>4. CASE answer \in {"returned", "raised"}
    <3>1. Return(answer, Report(c))
      BY <1>6, <2>4 DEF Read
    <3>2. [outcome |-> answer, enforcement |-> Report(c)] \in ReturnValues
      BY <2>3, <2>4 DEF ReturnValues
    <3>3. Told([outcome |-> answer, enforcement |-> Report(c)], c, answer)
      BY <2>1, <2>3, <2>4 DEF Told, Consistent
    <3> QED  BY <1>1, <1>2, <2>1, <2>3, <3>1, <3>2, <3>3, Returned
  <2>5. CASE answer \notin {"returned", "raised"}
    <3>1. Return("no_result", NoReport)
      BY <1>6, <2>5 DEF Read
    <3>2. [outcome |-> "no_result", enforcement |-> NoReport] \in ReturnValues
      BY DEF ReturnValues
    <3>3. Told([outcome |-> "no_result", enforcement |-> NoReport], c, answer)
      BY <2>1, <2>3, <2>5 DEF Told, Answers
    <3> QED  BY <1>1, <1>2, <2>1, <2>3, <3>1, <3>2, <3>3, Returned
  <2> QED  BY <2>4, <2>5
<1> QED  BY <1>3, <1>4, <1>5, <1>6

LEMMA SandboxStep == SandboxInv /\ [Next]_vars => SandboxInv'
<1> SUFFICES ASSUME SandboxInv, [Next]_vars PROVE SandboxInv'
  OBVIOUS
<1>1. CASE UNCHANGED vars
  BY <1>1 DEF vars, SandboxInv, ChildrenOK, ResultsOK, ReturnValues, ChildStates
<1>2. CASE Start \/ Join \/ Overrun \/ Read
  BY <1>2, ParentKeeps
<1>3. ASSUME NEW i \in 1 .. MaxStarts,
             SanitizeEnv(i) \/ ApplyLimits(i) \/ CreateSandbox(i) \/ ApplyFilter(i)
      PROVE  SandboxInv'
  BY <1>3, LayersKeep
<1>4. ASSUME NEW i \in 1 .. MaxStarts, RunTarget(i) \/ SendResult(i) \/ Crash(i)
      PROVE  SandboxInv'
  BY <1>4, TargetKeeps
<1> QED  BY <1>1, <1>2, <1>3, <1>4 DEF Next

(***************************************************************************)
(* What start() says of a child holds of it, now and ever after, on every  *)
(* platform and for every profile: also of a child that was terminated, is *)
(* deaf to that, crashed, or sent what cannot be read.                     *)
(***************************************************************************)
THEOREM ResultsAreTrue == Spec => []ResultIsTrue
<1> QED  BY SandboxStarts, SandboxStep, SandboxImplies, PTL DEF Spec

-----------------------------------------------------------------------------
(* MessageBus: no message vanishes.                                         *)

Messages ==
  [from : Agents, to : Agents \cup {Everyone}, kind : Kinds, ttl : Lifetimes, id : Nat, sent : Nat]

\* What waits was sent in the order it waits, and before the next send.
BoxOK(q) ==
  /\ q \in Seq(Messages)
  /\ \A n \in DOMAIN q : q[n].id <= totalSent
  /\ \A m, n \in DOMAIN q : m < n => q[m].id < q[n].id

Waiting == [i \in DOMAIN boxes |-> Len(boxes[i])]

BoxesOK ==
  /\ IsFiniteSet(DOMAIN boxes) /\ totalSent \in Nat /\ now \in Nat
  /\ \A i \in DOMAIN boxes : BoxOK(boxes[i])

CopiesOK ==
  /\ addressed \in Nat /\ totalDropped \in Nat /\ taken \in Nat
  /\ addressed = totalDropped + taken + SumFunction(Waiting)

BusInv == BoxesOK /\ CopiesOK

LEMMA WaitingFacts ==
  ASSUME BoxesOK
  PROVE  /\ SumFunction(Waiting) = SumFunctionOnSet(Waiting, DOMAIN boxes)
         /\ DOMAIN Waiting = DOMAIN boxes
         /\ \A i \in DOMAIN boxes : Waiting[i] = Len(boxes[i]) /\ Waiting[i] \in Nat
         /\ SumFunction(Waiting) \in Nat
<1>1. DOMAIN Waiting = DOMAIN boxes
  BY DEF Waiting
<1>2. \A i \in DOMAIN boxes : Waiting[i] = Len(boxes[i]) /\ Waiting[i] \in Nat
  BY DEF Waiting, BoxesOK, BoxOK
<1>3. SumFunction(Waiting) = SumFunctionOnSet(Waiting, DOMAIN boxes)
  BY <1>1 DEF SumFunction
<1>4. SumFunctionOnSet(Waiting, DOMAIN boxes) \in Nat
  BY <1>2, SumFacts DEF BoxesOK
<1> QED  BY <1>1, <1>2, <1>3, <1>4

\* One box changes, comes or goes; the others stay as they are.
LEMMA OneBoxChanges ==
  ASSUME BusInv, BoxesOK', NEW i, DOMAIN boxes' \ {i} = DOMAIN boxes \ {i},
         \A j \in DOMAIN boxes \ {i} : boxes'[j] = boxes[j]
  PROVE  SumFunction(Waiting)' + (IF i \in DOMAIN boxes THEN Len(boxes[i]) ELSE 0)
           = SumFunction(Waiting) + (IF i \in DOMAIN boxes' THEN Len(boxes'[i]) ELSE 0)
<1> DEFINE D == DOMAIN boxes
           E == DOMAIN boxes'
           f == Waiting
           g == [j \in DOMAIN boxes' |-> Len(boxes'[j])]
<1>1. /\ IsFiniteSet(D) /\ IsFiniteSet(E) /\ D \ {i} = E \ {i}
      /\ SumFunction(Waiting) = SumFunctionOnSet(f, D)
      /\ \A j \in D : f[j] = Len(boxes[j]) /\ f[j] \in Nat
      /\ SumFunctionOnSet(f, D) \in Nat
  BY WaitingFacts DEF BusInv, BoxesOK
<1>2. /\ SumFunction(Waiting)' = SumFunctionOnSet(g, E)
      /\ \A j \in E : g[j] = Len(boxes'[j]) /\ g[j] \in Nat
  <2>1. \A j \in E : g[j] = Len(boxes'[j]) /\ g[j] \in Nat
    BY DEF BoxesOK, BoxOK
  <2>2. DOMAIN g = E /\ SumFunction(Waiting)' = SumFunction(g)
    BY DEF Waiting
  <2> HIDE DEF g
  <2> QED  BY <2>1, <2>2 DEF SumFunction
<1>3. \A j \in D \ {i} : g[j] = f[j]
  BY <1>1, <1>2
<1> HIDE DEF f, g, D, E
<1>4. /\ IsFiniteSet(D \ {i})
      /\ SumFunctionOnSet(f, D) = IF i \in D THEN f[i] + SumFunctionOnSet(f, D \ {i})
                                  ELSE SumFunctionOnSet(f, D \ {i})
  <2>1. IsFiniteSet(D \ {i})
    BY <1>1, FS_RemoveElement
  <2>2. i \notin D => D \ {i} = D
    OBVIOUS
  <2>3. i \in D => SumFunctionOnSet(f, D) = f[i] + SumFunctionOnSet(f, D \ {i})
    BY <1>1, SumFacts
  <2> QED  BY <2>1, <2>2, <2>3
<1>5. SumFunctionOnSet(g, E) = IF i \in E THEN g[i] + SumFunctionOnSet(g, E \ {i})
                               ELSE SumFunctionOnSet(g, E \ {i})
  <2>1. i \notin E => E \ {i} = E
    OBVIOUS
  <2>2. i \in E => SumFunctionOnSet(g, E) = g[i] + SumFunctionOnSet(g, E \ {i})
    BY <1>1, <1>2, SumFacts
  <2> QED  BY <2>1, <2>2
<1>6. /\ SumFunctionOnSet(g, E \ {i}) = SumFunctionOnSet(f, D \ {i})
      /\ SumFunctionOnSet(f, D \ {i}) \in Nat
  <2>1. \A j \in D \ {i} : f[j] \in Nat
    BY <1>1
  <2>2. /\ SumFunctionOnSet(g, D \ {i}) = SumFunctionOnSet(f, D \ {i})
        /\ SumFunctionOnSet(f, D \ {i}) \in Nat
    BY <1>3, <1>4, <2>1, SumFacts
  <2> QED  BY <1>1, <2>2
<1>7. /\ SumFunction(Waiting)' + (IF i \in D THEN f[i] ELSE 0)
           = SumFunction(Waiting) + (IF i \in E THEN g[i] ELSE 0)
  BY <1>1, <1>2, <1>4, <1>5, <1>6
<1> QED  BY <1>1, <1>2, <1>7 DEF D, E

\* n messages leave mailbox i, which may go, come or stay.
LEMMA MailIsTaken ==
  ASSUME BusInv, BoxesOK', NEW i, NEW n \in Nat,
         DOMAIN boxes' \ {i} = DOMAIN boxes \ {i},
         \A j \in DOMAIN boxes \ {i} : boxes'[j] = boxes[j],
         (IF i \in DOMAIN boxes THEN Len(boxes[i]) ELSE 0)
           = (IF i \in DOMAIN boxes' THEN Len(boxes'[i]) ELSE 0) + n,
         Loss(n), UNCHANGED counts
  PROVE  BusInv'
<1> DEFINE before == IF i \in DOMAIN boxes THEN Len(boxes[i]) ELSE 0
           after == IF i \in DOMAIN boxes' THEN Len(boxes'[i]) ELSE 0
<1>1. before = after + n /\ after \in Nat
  BY DEF BoxesOK, BoxOK
<1>2. SumFunction(Waiting)' + before = SumFunction(Waiting) + after
  BY OneBoxChanges
<1>3. SumFunction(Waiting) \in Nat
  BY WaitingFacts DEF BusInv
<1>4. SumFunction(Waiting)' \in Nat
  <2> DEFINE g == [j \in DOMAIN boxes' |-> Len(boxes'[j])]
  <2>1. \A j \in DOMAIN boxes' : g[j] \in Nat
    BY DEF BoxesOK, BoxOK
  <2>2. DOMAIN g = DOMAIN boxes' /\ SumFunction(Waiting)' = SumFunction(g)
    BY DEF Waiting
  <2>3. IsFiniteSet(DOMAIN boxes')
    BY DEF BoxesOK
  <2> HIDE DEF g
  <2> QED  BY <2>1, <2>2, <2>3, SumFacts DEF SumFunction
<1>5. taken' = taken + n /\ addressed' = addressed /\ totalDropped' = totalDropped
  BY DEF Loss, counts
<1> HIDE DEF before, after
<1>6. SumFunction(Waiting) = SumFunction(Waiting)' + n
  BY <1>1, <1>2, <1>3, <1>4
<1>7. CopiesOK'
  BY <1>3, <1>4, <1>5, <1>6 DEF BusInv, CopiesOK
<1> QED  BY <1>7 DEF BusInv

LEMMA BoxTypes ==
  ASSUME BusInv, NEW i \in DOMAIN boxes
  PROVE  /\ BoxOK(boxes[i]) /\ boxes[i] \in Seq(Messages) /\ Len(boxes[i]) \in Nat
         /\ DOMAIN boxes[i] = 1 .. Len(boxes[i])
BY DEF BusInv, BoxesOK, BoxOK

LEMMA EmptyBox == BoxOK(<< >>) /\ Len(<< >>) = 0
BY DEF BoxOK

\* The end of a mailbox is a mailbox.
LEMMA RestOfBox ==
  ASSUME NEW q, BoxOK(q), NEW n \in 0 .. Len(q)
  PROVE  BoxOK(SubSeq(q, n + 1, Len(q))) /\ Len(SubSeq(q, n + 1, Len(q))) = Len(q) - n
<1> DEFINE l == Len(q)
           r == SubSeq(q, n + 1, l)
<1>1. /\ q \in Seq(Messages) /\ l \in Nat /\ n \in Nat /\ n <= l /\ DOMAIN q = 1 .. l
      /\ n + 1 \in Int /\ \A i \in n + 1 .. l : q[i] \in Messages
  BY DEF BoxOK
<1>2. /\ r \in Seq(Messages)
      /\ Len(r) = IF n + 1 <= l THEN l - (n + 1) + 1 ELSE 0
      /\ \A i \in 1 .. l - (n + 1) + 1 : r[i] = q[n + 1 + i - 1]
  BY <1>1, SubSeqProperties
<1> HIDE DEF r, l
<1>3. Len(r) = l - n
  BY <1>1, <1>2
<1>4. \A i \in 1 .. l - n : r[i] = q[n + i] /\ n + i \in 1 .. l
  <2> SUFFICES ASSUME NEW i \in 1 .. l - n PROVE r[i] = q[n + i] /\ n + i \in 1 .. l
    OBVIOUS
  <2>1. i \in 1 .. l - (n + 1) + 1 /\ n + 1 + i - 1 = n + i /\ n + i \in 1 .. l
    BY <1>1
  <2> QED  BY <1>2, <2>1
<1>5. DOMAIN r = 1 .. l - n
  BY <1>2, <1>3
<1>6. \A i \in DOMAIN r : r[i].id <= totalSent
  BY <1>1, <1>4, <1>5 DEF BoxOK
<1>7. ASSUME NEW i \in DOMAIN r, NEW j \in DOMAIN r, i < j PROVE r[i].id < r[j].id
  <2>1. n + i < n + j /\ n + i \in DOMAIN q /\ n + j \in DOMAIN q
    BY <1>1, <1>4, <1>5, <1>7
  <2> QED  BY <1>4, <1>5, <2>1 DEF BoxOK
<1>8. BoxOK(r)
  BY <1>2, <1>6, <1>7 DEF BoxOK
<1> QED  BY <1>3, <1>8 DEF r, l

LEMMA ReadsKeep ==
  ASSUME BusInv, NEW i, Receive(i) \/ ReceiveAll(i)
  PROVE  BusInv'
<1> DEFINE q == boxes[i]
<1>1. i \in DOMAIN boxes /\ BoxOK(q) /\ Len(q) \in Nat /\ DOMAIN q = 1 .. Len(q)
  BY BoxTypes DEF Receive, ReceiveAll
<1>2. UNCHANGED counts /\ UNCHANGED <<totalSent, now>>
  BY DEF Receive, ReceiveAll, counts
<1>3. ASSUME NEW n \in Nat, NEW r, BoxOK(r), Len(q) = Len(r) + n,
             boxes' = [boxes EXCEPT ![i] = r], Loss(n)
      PROVE  BusInv'
  <2>1. /\ DOMAIN boxes' = DOMAIN boxes /\ boxes'[i] = r
        /\ \A j \in DOMAIN boxes \ {i} : boxes'[j] = boxes[j]
    BY <1>1, <1>3
  <2>2. \A s : BoxOK(s)' <=> BoxOK(s)
    BY <1>2 DEF BoxOK
  <2>3. BoxesOK'
    BY <1>2, <1>3, <2>1, <2>2 DEF BusInv, BoxesOK
  <2> QED  BY <1>1, <1>2, <1>3, <2>1, <2>3, MailIsTaken
<1>4. CASE Receive(i)
  <2> DEFINE stops == {k \in DOMAIN q : ~Expired(q[k])} \cup {Len(q)}
             n == Min(stops)
  <2>1. boxes' = [boxes EXCEPT ![i] = SubSeq(boxes[i], n + 1, Len(boxes[i]))] /\ Loss(n)
    BY <1>4 DEF Receive
  <2>2. stops \in SUBSET (0 .. Len(q)) /\ stops \in SUBSET Nat /\ stops # {}
    BY <1>1
  <2>3. \E x \in stops : \A y \in stops : x <= y
    BY <2>2, LeastElement
  <2>4. n \in stops
    BY <2>3 DEF Min
  <2> HIDE DEF n
  <2>5. n \in 0 .. Len(q) /\ n \in Nat
    BY <2>2, <2>4
  <2> DEFINE r == SubSeq(q, n + 1, Len(q))
             l == Len(q)
             k == Len(r)
  <2>6. BoxOK(r) /\ k = l - n
    BY <1>1, <2>5, RestOfBox
  <2>7. l \in Nat /\ n \in Nat /\ n <= l
    BY <1>1, <2>5
  <2>8. boxes' = [boxes EXCEPT ![i] = r]
    BY <2>1
  <2> HIDE DEF r, l, k
  <2>9. l = k + n
    BY <2>6, <2>7
  <2> USE DEF l, k
  <2> QED  BY <1>3, <2>1, <2>5, <2>6, <2>8, <2>9, Zenon
<1>5. CASE ReceiveAll(i)
  <2> DEFINE l == Len(q)
  <2>1. boxes' = [boxes EXCEPT ![i] = << >>] /\ Loss(l)
    BY <1>5 DEF ReceiveAll
  <2>2. l \in Nat
    BY <1>1
  <2> HIDE DEF l
  <2>3. l = 0 + l
    BY <2>2
  <2>4. l = Len(<< >>) + l
    BY <2>3, EmptyBox
  <2> USE DEF l
  <2> QED  BY <1>3, <2>1, <2>2, <2>4, EmptyBox, Zenon
<1> QED  BY <1>4, <1>5

LEMMA MailboxesKeep ==
  ASSUME BusInv, NEW i, Register(i) \/ Unregister(i)
  PROVE  BusInv'
<1> DEFINE n == Len(QueueOf(i))
<1>1. UNCHANGED <<totalSent, now>> /\ UNCHANGED counts /\ Loss(n)
  BY DEF Register, Unregister, counts
<1>2. n \in Nat /\ n = IF i \in DOMAIN boxes THEN Len(boxes[i]) ELSE 0
  BY BoxTypes DEF QueueOf
<1> HIDE DEF n
<1>3. \A s : BoxOK(s)' <=> BoxOK(s)
  BY <1>1 DEF BoxOK
<1>4. /\ IsFiniteSet(DOMAIN boxes \cup {i}) /\ IsFiniteSet(DOMAIN boxes \ {i})
      /\ \A j \in DOMAIN boxes : BoxOK(boxes[j])
      /\ totalSent \in Nat /\ now \in Nat
  BY FS_AddElement, FS_RemoveElement DEF BusInv, BoxesOK
<1>5. CASE Register(i)
  <2>1. /\ DOMAIN boxes' = DOMAIN boxes \cup {i} /\ boxes'[i] = << >>
        /\ \A j \in DOMAIN boxes \ {i} : boxes'[j] = boxes[j]
    BY <1>5 DEF Register
  <2>2. BoxesOK'
    BY <1>1, <1>3, <1>4, <2>1, EmptyBox DEF BoxesOK
  <2>3. (IF i \in DOMAIN boxes THEN Len(boxes[i]) ELSE 0)
          = (IF i \in DOMAIN boxes' THEN Len(boxes'[i]) ELSE 0) + n
    BY <1>2, <2>1, EmptyBox
  <2>4. DOMAIN boxes' \ {i} = DOMAIN boxes \ {i}
    BY <2>1
  <2> QED  BY <1>1, <1>2, <2>1, <2>2, <2>3, <2>4, MailIsTaken
<1>6. CASE Unregister(i)
  <2>1. /\ DOMAIN boxes' = DOMAIN boxes \ {i}
        /\ \A j \in DOMAIN boxes \ {i} : boxes'[j] = boxes[j]
    BY <1>6 DEF Unregister, Without
  <2>2. BoxesOK'
    BY <1>1, <1>3, <1>4, <2>1 DEF BoxesOK
  <2>3. (IF i \in DOMAIN boxes THEN Len(boxes[i]) ELSE 0)
          = (IF i \in DOMAIN boxes' THEN Len(boxes'[i]) ELSE 0) + n
    BY <1>2, <2>1
  <2>4. DOMAIN boxes' \ {i} = DOMAIN boxes \ {i}
    BY <2>1
  <2> QED  BY <1>1, <1>2, <2>1, <2>2, <2>3, <2>4, MailIsTaken
<1> QED  BY <1>5, <1>6

LEMMA SendKeeps ==
  ASSUME BusInv, NEW from \in Agents, NEW to \in Agents \cup {Everyone}, NEW kind \in Kinds,
         NEW ttl \in Lifetimes, Send(Message(from, to, kind, ttl))
  PROVE  BusInv'
<1> DEFINE m == Message(from, to, kind, ttl)
           D == DOMAIN boxes
           rec == Recipients(boxes, m)
           ref == Refused(boxes, m)
           reached == {i \in D : i \in rec /\ Takes(boxes, i)}
<1>1. /\ boxes' = [i \in D |-> IF i \in rec /\ Takes(boxes, i) THEN Append(boxes[i], m) ELSE boxes[i]]
      /\ totalSent' = totalSent + 1 /\ totalDropped' = totalDropped + Cardinality(ref)
      /\ addressed' = addressed + Cardinality(rec) /\ taken' = taken /\ now' = now
  BY DEF Send, Delivered, Counted
<1>2. m \in Messages /\ m.id = totalSent + 1 /\ totalSent \in Nat /\ IsFiniteSet(D)
  BY DEF BusInv, BoxesOK, Message, Messages
<1>3. IsFiniteSet(rec)
  <2>1. \A x : IsFiniteSet(D \ {x}) /\ IsFiniteSet({x})
    BY <1>2, FS_RemoveElement, FS_Singleton, Zenon
  <2>2. rec = D \ {m.from} \/ rec = {m.to}
    BY DEF Recipients
  <2> QED  BY <2>1, <2>2
<1>4. reached \cup ref = rec /\ reached \cap ref = {} /\ reached \subseteq D
  BY DEF Refused, Takes
<1> HIDE DEF m, rec, ref, reached
<1>5. \A i \in D : boxes'[i] = IF i \in reached THEN Append(boxes[i], m) ELSE boxes[i]
  BY <1>1 DEF reached
<1>6. /\ IsFiniteSet(reached) /\ IsFiniteSet(ref)
      /\ Cardinality(reached) \in Nat /\ Cardinality(ref) \in Nat
      /\ Cardinality(rec) = Cardinality(reached) + Cardinality(ref)
  <2>1. reached \subseteq rec /\ ref \subseteq rec
    BY <1>4
  <2>2. IsFiniteSet(reached) /\ IsFiniteSet(ref)
    BY <1>3, <2>1, FS_Subset
  <2>3. Cardinality(reached \cup ref) = Cardinality(reached) + Cardinality(ref)
    BY <1>4, <2>2, DisjointUnion, Zenon
  <2> QED  BY <1>4, <2>2, <2>3, FS_CardinalityType
<1>7. ASSUME NEW i \in D
      PROVE  /\ \A s : s = boxes'[i] => BoxOK(s)'
             /\ Len(boxes'[i]) = IF i \in reached THEN Len(boxes[i]) + 1 ELSE Len(boxes[i])
             /\ Len(boxes[i]) \in Nat
  <2> DEFINE q == boxes[i]
             l == Len(q)
  <2>1. BoxOK(q) /\ q \in Seq(Messages) /\ l \in Nat /\ DOMAIN q = 1 .. l
    BY BoxTypes
  <2>2. ASSUME NEW k \in DOMAIN q PROVE q[k].id \in Nat /\ q[k].id <= totalSent
    <3>1. q[k] \in Messages /\ q[k].id <= totalSent
      BY <2>1, <2>2 DEF BoxOK
    <3> QED  BY <3>1 DEF Messages
  <2>3. \A x \in Nat : x <= totalSent => x <= totalSent' /\ x < totalSent + 1
    BY <1>1, <1>2
  <2>4. totalSent + 1 <= totalSent'
    BY <1>1, <1>2
  <2>5. CASE i \notin reached
    <3>1. boxes'[i] = q
      BY <1>5, <2>5
    <3>2. \A k \in DOMAIN q : q[k].id <= totalSent'
      BY <2>2, <2>3
    <3>3. \A s : s = q => BoxOK(s)'
      BY <2>1, <3>2 DEF BoxOK
    <3> QED  BY <2>1, <2>5, <3>1, <3>3
  <2>6. CASE i \in reached
    <3> DEFINE r == Append(q, m)
    <3>1. boxes'[i] = r
      BY <1>5, <2>6
    <3>2. /\ r \in Seq(Messages) /\ Len(r) = l + 1 /\ r[l + 1] = m
          /\ DOMAIN r = DOMAIN q \cup {l + 1} /\ \A k \in DOMAIN q : r[k] = q[k]
      BY <1>2, <2>1, AppendFacts
    <3> HIDE DEF r
    <3>3. \A k \in DOMAIN r : r[k].id <= totalSent'
      BY <1>2, <2>2, <2>3, <2>4, <3>2
    <3>4. ASSUME NEW j \in DOMAIN r, NEW k \in DOMAIN r, j < k PROVE r[j].id < r[k].id
      <4>1. j \in DOMAIN q
        BY <2>1, <3>2, <3>4
      <4>2. CASE k \in DOMAIN q
        BY <2>1, <3>2, <3>4, <4>1, <4>2 DEF BoxOK
      <4>3. CASE k = l + 1
        BY <1>2, <2>2, <2>3, <3>2, <4>1, <4>3
      <4> QED  BY <3>2, <4>2, <4>3
    <3>5. \A s : s = r => BoxOK(s)'
      BY <3>2, <3>3, <3>4 DEF BoxOK
    <3> QED  BY <2>1, <2>6, <3>1, <3>2, <3>5
  <2> QED  BY <2>5, <2>6
<1> DEFINE f == Waiting
           g == [i \in DOMAIN boxes' |-> Len(boxes'[i])]
<1>8. DOMAIN boxes' = D
  BY <1>1
<1>9. BoxesOK'
  <2>1. \A i \in DOMAIN boxes' : BoxOK(boxes[i])'
    BY <1>7, <1>8
  <2> QED  BY <1>1, <1>2, <1>8, <2>1 DEF BusInv, BoxesOK
<1>10. /\ SumFunction(Waiting) = SumFunctionOnSet(f, D) /\ SumFunctionOnSet(f, D) \in Nat
       /\ \A i \in D : f[i] = Len(boxes[i]) /\ f[i] \in Nat
  BY WaitingFacts DEF BusInv
<1>11. /\ SumFunction(Waiting)' = SumFunctionOnSet(g, D)
       /\ \A i \in D : g[i] = IF i \in reached THEN f[i] + 1 ELSE f[i]
  <2>1. \A i \in D : g[i] = Len(boxes'[i])
    BY <1>8
  <2>2. DOMAIN g = D /\ SumFunction(Waiting)' = SumFunction(g)
    BY <1>8 DEF Waiting
  <2>3. \A i \in D : g[i] = IF i \in reached THEN f[i] + 1 ELSE f[i]
    BY <1>7, <1>10, <2>1
  <2> HIDE DEF g
  <2> QED  BY <2>2, <2>3 DEF SumFunction
<1> HIDE DEF f, g, D
<1>12. SumFunctionOnSet(g, D) = SumFunctionOnSet(f, D) + Cardinality(reached)
  BY <1>2, <1>4, <1>10, <1>11, SumGrows
<1>13. CopiesOK'
  <2> DEFINE w == SumFunctionOnSet(f, D)
             c == Cardinality(reached)
             e == Cardinality(ref)
  <2>1. /\ w \in Nat /\ c \in Nat /\ e \in Nat
        /\ addressed \in Nat /\ totalDropped \in Nat /\ taken \in Nat
        /\ addressed = totalDropped + taken + w
    BY <1>6, <1>10 DEF BusInv, CopiesOK
  <2>2. /\ addressed' = addressed + (c + e) /\ totalDropped' = totalDropped + e
        /\ taken' = taken /\ SumFunction(Waiting)' = w + c
    BY <1>1, <1>6, <1>11, <1>12
  <2> HIDE DEF w, c, e
  <2>3. /\ addressed' \in Nat /\ totalDropped' \in Nat /\ taken' \in Nat
        /\ addressed' = totalDropped' + taken' + (w + c)
    BY <2>1, <2>2
  <2> QED  BY <2>2, <2>3 DEF CopiesOK
<1> QED  BY <1>9, <1>13 DEF BusInv

LEMMA BusStart == BusInit({}) => BusInv
<1> SUFFICES ASSUME BusInit({}) PROVE BusInv
  OBVIOUS
<1>1. DOMAIN boxes = {} /\ IsFiniteSet(DOMAIN boxes)
  BY FS_EmptySet DEF BusInit
<1>2. BoxesOK
  BY <1>1 DEF BusInit, BoxesOK
<1>3. SumFunction(Waiting) = 0
  BY <1>1, <1>2, WaitingFacts, SumFacts
<1> QED  BY <1>2, <1>3 DEF BusInit, BusInv, CopiesOK

LEMMA BusStep == BusInv /\ [BusNext]_bus => BusInv'
<1> SUFFICES ASSUME BusInv, [BusNext]_bus PROVE BusInv'
  OBVIOUS
<1>1. ASSUME UNCHANGED <<boxes, counts, taken>>, now' \in Nat PROVE BusInv'
  <2>1. \A q : BoxOK(q)' <=> BoxOK(q)
    BY <1>1 DEF BoxOK, counts
  <2>2. BoxesOK'
    BY <1>1, <2>1 DEF BusInv, BoxesOK, counts
  <2>3. Waiting' = Waiting
    BY <1>1 DEF Waiting
  <2> QED  BY <1>1, <2>2, <2>3 DEF BusInv, CopiesOK, counts
<1>2. ASSUME NEW from \in Agents, NEW to \in Agents \cup {Everyone}, NEW kind \in Kinds,
             NEW ttl \in Lifetimes, Send(Message(from, to, kind, ttl))
      PROVE  BusInv'
  BY <1>2, SendKeeps
<1>3. ASSUME NEW i, Register(i) \/ Unregister(i) \/ Receive(i) \/ ReceiveAll(i) PROVE BusInv'
  BY <1>3, MailboxesKeep, ReadsKeep
<1>4. ASSUME NEW i, NEW topic, Publish(topic, i) PROVE BusInv'
  BY <1>1, <1>4 DEF Publish, BusInv, BoxesOK
<1>5. ASSUME Tick PROVE BusInv'
  BY <1>1, <1>5 DEF Tick, BusInv, BoxesOK
<1>6. ASSUME UNCHANGED bus PROVE BusInv'
  BY <1>1, <1>6 DEF bus, BusInv, BoxesOK
<1> QED  BY <1>2, <1>3, <1>4, <1>5, <1>6 DEF BusNext

(***************************************************************************)
(* _deliver and receive of IPCManager: whatever mailboxes are full,        *)
(* missing or registered anew, every copy of every message is dropped and  *)
(* counted, waits in send order, or was taken with its mailbox or from it. *)
(***************************************************************************)
THEOREM MailIsAccountedFor == BusSpec => []NothingVanishes
<1>1. BusInv => NothingVanishes
  <2>1. BusInv => addressed = totalDropped + taken
                                + SumFunction([i \in DOMAIN boxes |-> Len(boxes[i])])
    BY Zenon DEF BusInv, CopiesOK, Waiting
  <2>2. BusInv => \A i \in DOMAIN boxes : \A m, n \in DOMAIN boxes[i] :
                    m < n => boxes[i][m].id < boxes[i][n].id
    BY DEF BusInv, BoxesOK, BoxOK
  <2> QED  BY <2>1, <2>2 DEF NothingVanishes
<1> QED  BY <1>1, BusStart, BusStep, PTL DEF BusSpec

-----------------------------------------------------------------------------
(* SignedIpc: what reaches its recipient does so for a reason.              *)

StepNames ==
  Counters \cup Events
    \cup {"sender_key", "verify_key", "outgoing", "bad_signature", "unsigned", "deliver"}

\* All but the last step of a call only count.
Planned(s) ==
  /\ s \in Seq(StepNames)
  /\ \A k \in 1 .. Len(s) : k < Len(s) => s[k] \in Counters \cup Events

\* The last step is what the call is up to, ks and ps are what it has seen.
Justified(m, s, ks, ps) ==
  LET goal == s[Len(s)] IN
    /\ goal \in {"sender_key", "outgoing", "unsigned"} => m.key = 0
    /\ goal = "deliver" => m.key = 0 \/ m.key \in ks \/ "PERMISSIVE" \in ps

\* A thread that makes a call.
Sound(m, s, ks, ps) ==
  /\ m.from \in Signers /\ keys[m.from] \in ks /\ policy \in ps
  /\ Planned(s) /\ Justified(m, s, ks, ps)

SigningInv ==
  /\ DOMAIN keys = Signers /\ policy \in Policies
  /\ DOMAIN message = Threads /\ DOMAIN steps = Threads
  /\ DOMAIN held = Threads /\ DOMAIN inForce = Threads
  /\ \A t \in Threads :
       /\ DOMAIN message[t] = {"from", "key"}
       /\ ~Idle(t) => Sound(message[t], steps[t], held[t], inForce[t])

LEMMA SigningStarts == SigningInit => SigningInv
BY DEF SigningInit, SigningInv, Idle

\* The thread goes on to other steps, with its message or a signed one.
LEMMA ThreadGoesOn ==
  ASSUME SigningInv, NEW t \in Threads, NEW m, NEW s, NEW ks, NEW ps,
         DOMAIN m = {"from", "key"}, s # << >> => Sound(m, s, ks, ps),
         DOMAIN message' = Threads, DOMAIN steps' = Threads,
         DOMAIN held' = Threads, DOMAIN inForce' = Threads,
         message'[t] = m, steps'[t] = s, held'[t] = ks, inForce'[t] = ps,
         \A u \in Threads \ {t} : /\ message'[u] = message[u] /\ steps'[u] = steps[u]
                                  /\ held'[u] = held[u] /\ inForce'[u] = inForce[u],
         UNCHANGED <<keys, policy>>
  PROVE  SigningInv'
<1>1. ASSUME NEW u \in Threads
      PROVE  /\ DOMAIN message'[u] = {"from", "key"}
             /\ steps'[u] # << >> => Sound(message'[u], steps'[u], held'[u], inForce'[u])
  <2>1. CASE u = t
    BY <2>1 DEF SigningInv
  <2>2. CASE u # t
    BY <2>2 DEF SigningInv, Idle
  <2> QED  BY <2>1, <2>2
<1>2. \A x, y, z, w : Sound(x, y, z, w)' <=> Sound(x, y, z, w)
  BY DEF Sound
<1> QED  BY <1>1, <1>2 DEF SigningInv, Idle

LEMMA StepNamesAre ==
  /\ {"total_verified", "total_failed", "total_unsigned"} \subseteq Counters \cup Events
  /\ {"sign", "verify_ok", "verify_fail", "unsigned_bypass", "reject"} \subseteq Counters \cup Events
  /\ Counters \cup Events \subseteq StepNames
  /\ {"sender_key", "verify_key", "outgoing", "bad_signature", "unsigned", "deliver"} \subseteq StepNames
BY DEF Counters, Events, StepNames

LEMMA OneStep ==
  ASSUME NEW x \in StepNames
  PROVE  Planned(<<x>>) /\ <<x>>[Len(<<x>>)] = x
<1>1. <<x>> \in Seq(StepNames) /\ Len(<<x>>) = 1
  OBVIOUS
<1> QED  BY <1>1 DEF Planned

LEMMA TwoSteps ==
  ASSUME NEW x \in Counters \cup Events, NEW y \in StepNames
  PROVE  Planned(<<x, y>>) /\ <<x, y>>[Len(<<x, y>>)] = y
<1> DEFINE s == <<x, y>>
<1>1. x \in StepNames
  BY DEF StepNames
<1>2. s \in Seq(StepNames) /\ Len(s) = 2 /\ s[1] = x /\ s[2] = y
  BY <1>1
<1> HIDE DEF s
<1>3. \A k \in 1 .. Len(s) : k < Len(s) => s[k] \in Counters \cup Events
  BY <1>2
<1> QED  BY <1>2, <1>3 DEF Planned, s

LEMMA ThreeSteps ==
  ASSUME NEW x \in Counters \cup Events, NEW y \in Counters \cup Events, NEW z \in StepNames
  PROVE  Planned(<<x, y, z>>) /\ <<x, y, z>>[Len(<<x, y, z>>)] = z
<1> DEFINE s == <<x, y, z>>
<1>1. x \in StepNames /\ y \in StepNames
  BY DEF StepNames
<1>2. s \in Seq(StepNames) /\ Len(s) = 3 /\ s[1] = x /\ s[2] = y /\ s[3] = z
  BY <1>1
<1> HIDE DEF s
<1>3. \A k \in 1 .. Len(s) : k < Len(s) => s[k] \in Counters \cup Events
  <2> SUFFICES ASSUME NEW k \in 1 .. 3, k < 3 PROVE s[k] \in Counters \cup Events
    BY <1>2
  <2>1. k = 1 \/ k = 2
    OBVIOUS
  <2> QED  BY <1>2, <2>1
<1> QED  BY <1>2, <1>3 DEF Planned, s

LEMMA StepBefore ==
  ASSUME NEW x \in Counters \cup Events, NEW rest, Planned(rest), rest # << >>, NEW b \in BOOLEAN
  PROVE  LET s == (IF b THEN <<x>> ELSE << >>) \o rest IN
           Planned(s) /\ s # << >> /\ s[Len(s)] = rest[Len(rest)]
<1>1. /\ rest \in Seq(StepNames) /\ <<x>> \in Seq(StepNames) /\ Len(<<x>>) = 1 /\ <<x>>[1] = x
      /\ Len(rest) \in Nat /\ Len(rest) > 0
  BY StepNamesAre DEF Planned
<1>2. CASE b
  <2> DEFINE s == <<x>> \o rest
             n == Len(rest)
  <2>1. /\ s \in Seq(StepNames) /\ Len(s) = 1 + n
        /\ \A i \in 1 .. 1 + n : s[i] = IF i <= 1 THEN <<x>>[i] ELSE rest[i - 1]
    BY <1>1, ConcatProperties
  <2> HIDE DEF s
  <2>2. ASSUME NEW k \in 1 .. Len(s), k < Len(s) PROVE s[k] \in Counters \cup Events
    <3>1. CASE k = 1
      BY <1>1, <2>1, <3>1
    <3>2. CASE k # 1
      <4>1. k - 1 \in 1 .. n /\ k - 1 < n /\ s[k] = rest[k - 1]
        BY <1>1, <2>1, <2>2, <3>2
      <4> QED  BY <4>1 DEF Planned
    <3> QED  BY <3>1, <3>2
  <2>3. s # << >> /\ s[Len(s)] = rest[n]
    <3>1. n \in Nat /\ n > 0
      BY <1>1
    <3>2. \A i \in 1 .. 1 + n : i = 1 + n => s[i] = rest[n]
      BY <2>1, <3>1
    <3>3. s # << >>
      BY <1>1, <2>1
    <3> QED  BY <2>1, <3>1, <3>2, <3>3
  <2>4. Planned(s)
    BY <2>1, <2>2 DEF Planned
  <2> QED  BY <1>2, <2>3, <2>4 DEF s
<1>3. CASE ~b
  <2>1. << >> \o rest = rest
    BY <1>1, ConcatEmptySeq
  <2> QED  BY <1>3, <2>1
<1> QED  BY <1>2, <1>3

\* A step that counts leaves the aim of the call; any other step is the last.
LEMMA StepsLeft ==
  ASSUME NEW s, Planned(s), s # << >>
  PROVE  /\ Head(s) \notin Counters \cup Events => Head(s) = s[Len(s)]
         /\ Tail(s) # << >> => Planned(Tail(s)) /\ Tail(s)[Len(Tail(s))] = s[Len(s)]
<1>1. /\ s \in Seq(StepNames) /\ Len(s) \in Nat /\ Len(s) > 0 /\ Head(s) = s[1]
  BY DEF Planned
<1>2. Head(s) \notin Counters \cup Events => Len(s) = 1
  <2>1. \A n \in Nat : n > 0 => 1 \in 1 .. n /\ (n = 1 \/ 1 < n)
    OBVIOUS
  <2> QED  BY <1>1, <2>1 DEF Planned
<1>3. ASSUME Tail(s) # << >>
      PROVE  Planned(Tail(s)) /\ Tail(s)[Len(Tail(s))] = s[Len(s)]
  <2> DEFINE n == Len(s)
             r == Tail(s)
  <2>1. /\ r \in Seq(StepNames) /\ Len(r) = n - 1 /\ Len(r) > 0
        /\ \A k \in 1 .. n - 1 : r[k] = s[k + 1]
    BY <1>1, <1>3
  <2>2. ASSUME NEW k \in 1 .. Len(r), k < Len(r) PROVE r[k] \in Counters \cup Events
    <3>1. k + 1 \in 1 .. n /\ k + 1 < n /\ r[k] = s[k + 1]
      BY <1>1, <2>1, <2>2
    <3> QED  BY <3>1 DEF Planned
  <2>3. r[Len(r)] = s[n]
    BY <1>1, <2>1
  <2> QED  BY <2>1, <2>2, <2>3 DEF Planned
<1> QED  BY <1>1, <1>2, <1>3

LEMMA KeysAndPolicyChange ==
  ASSUME SigningInv, UNCHANGED <<message, steps>>,
         \/ /\ \E a \in Signers : \E k : SetKey(a, k)
            /\ UNCHANGED <<policy, inForce>>
         \/ /\ \E p \in Policies : /\ policy' = p
                                   /\ inForce' = [t \in Threads |-> IF Idle(t) THEN inForce[t]
                                                                   ELSE inForce[t] \cup {p}]
            /\ UNCHANGED <<keys, held>>
  PROVE  SigningInv'
<1>1. /\ DOMAIN keys' = Signers /\ policy' \in Policies
      /\ DOMAIN held' = Threads /\ DOMAIN inForce' = Threads
  BY DEF SigningInv, SetKey
<1>2. ASSUME NEW t \in Threads, ~Idle(t)
      PROVE  Sound(message[t], steps[t], held[t], inForce[t])'
  <2>1. Sound(message[t], steps[t], held[t], inForce[t])
    BY <1>2 DEF SigningInv
  <2>2. held[t] \subseteq held'[t] /\ inForce[t] \subseteq inForce'[t]
    BY <1>2 DEF SetKey, SigningInv
  <2>3. keys'[message[t].from] \in held'[t] /\ policy' \in inForce'[t]
    BY <1>2, <2>1 DEF SetKey, SigningInv, Sound
  <2> QED  BY <2>1, <2>2, <2>3 DEF Sound, Justified
<1> QED  BY <1>1, <1>2 DEF SigningInv, Idle

LEMMA CallKeeps ==
  ASSUME SigningInv, NEW t \in Threads, NEW a \in Signers, NEW k,
         NEW program, Call(t, [from |-> a, key |-> k], program),
         program # << >>, Planned(program),
         LET goal == program[Len(program)] IN
           goal \in {"sender_key", "outgoing", "unsigned", "deliver"} => k = 0
  PROVE  SigningInv'
<1> DEFINE m == [from |-> a, key |-> k]
<1>1. /\ DOMAIN m = {"from", "key"} /\ m.from = a /\ m.key = k
      /\ DOMAIN message' = Threads /\ DOMAIN steps' = Threads
      /\ DOMAIN held' = Threads /\ DOMAIN inForce' = Threads
      /\ message'[t] = m /\ steps'[t] = program /\ held'[t] = {keys[a]} /\ inForce'[t] = {policy}
      /\ \A u \in Threads \ {t} : /\ message'[u] = message[u] /\ steps'[u] = steps[u]
                                   /\ held'[u] = held[u] /\ inForce'[u] = inForce[u]
      /\ UNCHANGED <<keys, policy>>
  BY DEF Call, Continue, ring, SigningInv
<1> HIDE DEF m
<1>2. Sound(m, program, {keys[a]}, {policy})
  BY <1>1 DEF Sound, Justified
<1> DEFINE ks == {keys[a]}
           ps == {policy}
<1>3. held'[t] = ks /\ inForce'[t] = ps /\ Sound(m, program, ks, ps)
  BY <1>1, <1>2
<1> HIDE DEF ks, ps
<1> QED  BY <1>1, <1>3, ThreadGoesOn

LEMMA CallsKeep ==
  ASSUME SigningInv, NEW t \in Threads, NEW a \in Signers,
         \/ SignedSend(t, a) \/ SendUnsigned(t, a)
         \/ \E k : VerifyAndDeliver(t, a, k)
  PROVE  SigningInv'
<1>1. CASE SignedSend(t, a)
  <2>1. Planned(<<"sender_key">>) /\ <<"sender_key">>[Len(<<"sender_key">>)] = "sender_key"
    BY OneStep, StepNamesAre
  <2> QED  BY <1>1, <2>1, CallKeeps DEF SignedSend
<1>2. ASSUME NEW k, VerifyAndDeliver(t, a, k) PROVE SigningInv'
  <2>1. CASE k = 0
    <3>1. Planned(<<"total_unsigned", "unsigned">>)
      BY TwoSteps, StepNamesAre
    <3>2. Call(t, [from |-> a, key |-> k], <<"total_unsigned", "unsigned">>)
      BY <1>2, <2>1 DEF VerifyAndDeliver
    <3> QED  BY <2>1, <3>1, <3>2, CallKeeps
  <2>2. CASE k # 0
    <3>1. Planned(<<"verify_key">>) /\ <<"verify_key">>[Len(<<"verify_key">>)] = "verify_key"
      BY OneStep, StepNamesAre
    <3>2. Call(t, [from |-> a, key |-> k], <<"verify_key">>)
      BY <1>2, <2>2 DEF VerifyAndDeliver
    <3> QED  BY <3>1, <3>2, CallKeeps
  <2> QED  BY <2>1, <2>2
<1>3. CASE SendUnsigned(t, a)
  <2>1. PICK audited \in BOOLEAN :
          Call(t, [from |-> a, key |-> 0],
               (IF audited THEN <<"unsigned_bypass">> ELSE << >>)
                 \o <<"total_unsigned", "deliver">>)
    BY <1>3 DEF SendUnsigned
  <2> DEFINE counted == <<"total_unsigned", "deliver">>
             program == (IF audited THEN <<"unsigned_bypass">> ELSE << >>) \o counted
  <2>2. Planned(counted) /\ counted[Len(counted)] = "deliver" /\ counted # << >>
    BY TwoSteps, StepNamesAre
  <2> HIDE DEF counted
  <2>3. Planned(program) /\ program # << >> /\ program[Len(program)] = "deliver"
    BY <2>2, StepBefore, StepNamesAre
  <2>4. Call(t, [from |-> a, key |-> 0], program)
    BY <2>1 DEF counted
  <2> HIDE DEF program
  <2> QED  BY <2>3, <2>4, CallKeeps
<1> QED  BY <1>1, <1>2, <1>3

\* The thread is busy: what is known of it, and what the next steps must satisfy.
LEMMA ThreadContinues ==
  ASSUME SigningInv, NEW t \in Threads, ~Idle(t), NEW rest, Continue(t, rest),
         rest # << >> => Planned(rest) /\ Justified(message[t], rest, held[t], inForce[t]),
         UNCHANGED <<keys, policy, message, held, inForce>>
  PROVE  SigningInv'
<1>1. /\ Sound(message[t], steps[t], held[t], inForce[t]) /\ DOMAIN message[t] = {"from", "key"}
      /\ DOMAIN message = Threads /\ DOMAIN held = Threads /\ DOMAIN inForce = Threads
  BY DEF SigningInv
<1>3. /\ DOMAIN steps' = Threads /\ steps'[t] = rest
      /\ \A u \in Threads \ {t} : steps'[u] = steps[u]
  BY DEF SigningInv, Continue
<1>2. rest # << >> => Sound(message[t], rest, held[t], inForce[t])
  BY <1>1 DEF Sound
<1> QED  BY <1>1, <1>2, <1>3, ThreadGoesOn

LEMMA LookUpsKeep ==
  ASSUME SigningInv, NEW t \in Threads, LookUpToSign(t) \/ LookUpToVerify(t)
  PROVE  SigningInv'
<1> DEFINE m == message[t]
           ks == held[t]
           ps == inForce[t]
           k == keys[m.from]
<1>1. /\ ~Idle(t) /\ Sound(m, steps[t], ks, ps) /\ DOMAIN m = {"from", "key"} /\ k \in ks
      /\ Planned(steps[t]) /\ steps[t] # << >>
  BY DEF LookUpToSign, LookUpToVerify, Does, Idle, SigningInv, Sound
<1>2. CASE LookUpToSign(t)
  <2> DEFINE rest == IF k # 0 THEN <<"sign", "deliver">> ELSE <<"outgoing">>
             signed == Signed(m, k)
  <2>1. /\ message' = [message EXCEPT ![t] = signed] /\ Continue(t, rest)
        /\ UNCHANGED <<keys, policy, held, inForce>>
    BY <1>2 DEF LookUpToSign, ring, sinceCall
  <2>2. DOMAIN signed = {"from", "key"} /\ signed.from = m.from /\ signed.key = k
    BY <1>1 DEF Signed
  <2>3. CASE k # 0
    <3>1. Planned(rest) /\ rest[Len(rest)] = "deliver"
      BY <2>3, TwoSteps, StepNamesAre
    <3> QED
      <4> HIDE DEF rest, signed
      <4>1. Sound(signed, rest, ks, ps)
        BY <1>1, <2>2, <3>1 DEF Sound, Justified
      <4> QED  BY <2>1, <2>2, <4>1, ThreadGoesOn DEF Continue, SigningInv
  <2>4. CASE k = 0
    <3>1. Planned(rest) /\ rest[Len(rest)] = "outgoing"
      BY <2>4, OneStep, StepNamesAre
    <3> QED
      <4> HIDE DEF rest, signed
      <4>1. Sound(signed, rest, ks, ps)
        BY <1>1, <2>2, <2>4, <3>1 DEF Sound, Justified
      <4> QED  BY <2>1, <2>2, <4>1, ThreadGoesOn DEF Continue, SigningInv
  <2> QED  BY <2>3, <2>4
<1>3. CASE LookUpToVerify(t)
  <2> DEFINE rest == IF Valid(m, k) THEN <<"total_verified", "verify_ok", "deliver">>
                     ELSE <<"total_failed", "verify_fail", "bad_signature">>
  <2>1. Continue(t, rest) /\ UNCHANGED <<keys, policy, message, held, inForce>>
    BY <1>3 DEF LookUpToVerify, ring, sinceCall
  <2>2. CASE Valid(m, k)
    <3>1. Planned(rest) /\ rest[Len(rest)] = "deliver" /\ m.key \in ks
      BY <1>1, <2>2, ThreeSteps, StepNamesAre DEF Valid
    <3> HIDE DEF rest
    <3>2. Justified(m, rest, ks, ps)
      BY <3>1 DEF Justified
    <3> QED  BY <1>1, <2>1, <3>1, <3>2, ThreadContinues
  <2>3. CASE ~Valid(m, k)
    <3>1. Planned(rest) /\ rest[Len(rest)] = "bad_signature"
      BY <2>3, ThreeSteps, StepNamesAre
    <3> HIDE DEF rest
    <3>2. Justified(m, rest, ks, ps)
      BY <3>1 DEF Justified
    <3> QED  BY <1>1, <2>1, <3>1, <3>2, ThreadContinues
  <2> QED  BY <2>2, <2>3
<1> QED  BY <1>2, <1>3

LEMMA EnforceKeeps ==
  ASSUME SigningInv, NEW t \in Threads, Enforce(t)
  PROVE  SigningInv'
<1> DEFINE m == message[t]
           ks == held[t]
           ps == inForce[t]
           rule == Head(steps[t])
           audited == rule = "unsigned"
           deliver == <<"deliver">>
           refusal == IF rule = "outgoing" THEN << >> ELSE <<"reject">>
           passes == (IF audited THEN <<"unsigned_bypass">> ELSE << >>) \o deliver
           rest == IF Refuses(rule, policy) THEN refusal ELSE passes
<1>1. /\ ~Idle(t) /\ Sound(m, steps[t], ks, ps) /\ rule \in Rules
      /\ Planned(steps[t]) /\ steps[t] # << >> /\ policy \in ps /\ policy \in Policies
  BY DEF Enforce, Does, Idle, SigningInv, Sound
<1>2. Continue(t, rest) /\ UNCHANGED <<keys, policy, message, held, inForce>>
  BY DEF Enforce, ring, sinceCall
<1>3. rule = steps[t][Len(steps[t])]
  <2>1. rule \notin Counters \cup Events
    BY <1>1 DEF Rules, Counters, Events
  <2> QED  BY <1>1, <2>1, StepsLeft
<1>4. rule \in {"outgoing", "unsigned"} => m.key = 0
  BY <1>1, <1>3 DEF Sound, Justified
<1>5. CASE Refuses(rule, policy)
  <2>1. rest # << >> => rest = <<"reject">>
    BY <1>5
  <2>2. Planned(<<"reject">>) /\ <<"reject">>[Len(<<"reject">>)] = "reject"
    BY OneStep, StepNamesAre
  <2> HIDE DEF rest
  <2>3. Justified(m, <<"reject">>, ks, ps)
    BY <2>2 DEF Justified
  <2> QED  BY <1>1, <1>2, <2>1, <2>2, <2>3, ThreadContinues
<1>6. CASE ~Refuses(rule, policy)
  <2>1. Planned(deliver) /\ deliver # << >> /\ deliver[Len(deliver)] = "deliver"
    BY OneStep, StepNamesAre
  <2>2. rest = passes
    BY <1>6
  <2> HIDE DEF deliver
  <2>3. Planned(passes) /\ passes[Len(passes)] = "deliver"
    BY <2>1, StepBefore, StepNamesAre
  <2>4. m.key = 0 \/ "PERMISSIVE" \in ps
    <3>1. CASE rule \in {"outgoing", "unsigned"}
      BY <1>4, <3>1
    <3>2. CASE rule \notin {"outgoing", "unsigned"}
      BY <1>1, <1>6, <3>2 DEF Refuses, Policies
    <3> QED  BY <3>1, <3>2
  <2> HIDE DEF passes, rest
  <2>5. Justified(m, passes, ks, ps)
    BY <2>3, <2>4 DEF Justified
  <2> QED  BY <1>1, <1>2, <2>2, <2>3, <2>5, ThreadContinues
<1> QED  BY <1>5, <1>6

LEMMA CountingKeeps ==
  ASSUME SigningInv, NEW t \in Threads, Increment(t) \/ Log(t) \/ Deliver(t)
  PROVE  SigningInv'
<1> DEFINE m == message[t]
           rest == Tail(steps[t])
<1>1. /\ ~Idle(t) /\ Sound(m, steps[t], held[t], inForce[t])
      /\ Planned(steps[t]) /\ steps[t] # << >>
  BY DEF Increment, Log, Deliver, Does, Idle, SigningInv, Sound
<1>2. Continue(t, rest) /\ UNCHANGED <<keys, policy, message, held, inForce>>
  BY DEF Increment, Log, Deliver, ring, sinceCall
<1>3. rest # << >> => Planned(rest) /\ rest[Len(rest)] = steps[t][Len(steps[t])]
  BY <1>1, StepsLeft
<1> HIDE DEF rest
<1>4. rest # << >> => Justified(m, rest, held[t], inForce[t])
  BY <1>1, <1>3 DEF Sound, Justified
<1> QED  BY <1>1, <1>2, <1>3, <1>4, ThreadContinues

LEMMA SigningStep == SigningInv /\ [SigningNext]_signing => SigningInv'
<1> SUFFICES ASSUME SigningInv, [SigningNext]_signing PROVE SigningInv'
  OBVIOUS
<1>1. CASE UNCHANGED signing
  BY <1>1, Zenon DEF signing, ring, sinceCall, SigningInv, Sound, Idle
<1>2. ASSUME NEW a \in Signers, RegisterAgent(a) \/ RotateKey(a) \/ RemoveAgent(a)
      PROVE  SigningInv'
  <2>1. /\ UNCHANGED <<message, steps, policy, inForce>>
        /\ \E k : SetKey(a, k)
    BY <1>2 DEF RegisterAgent, RotateKey, RemoveAgent, NewKey
  <2> QED  BY <2>1, KeysAndPolicyChange
<1>3. ASSUME NEW p \in Policies, SetPolicy(p) PROVE SigningInv'
  <2>1. /\ UNCHANGED <<message, steps, keys, held>> /\ policy' = p
        /\ inForce' = [t \in Threads |-> IF Idle(t) THEN inForce[t] ELSE inForce[t] \cup {p}]
    BY <1>3 DEF SetPolicy, ring
  <2> QED  BY <2>1, KeysAndPolicyChange
<1>4. ASSUME NEW t \in Threads,
             \/ \E a \in Signers : SignedSend(t, a) \/ SendUnsigned(t, a)
             \/ \E a \in Signers, k \in 0 .. lastKey : VerifyAndDeliver(t, a, k)
      PROVE  SigningInv'
  BY <1>4, CallsKeep
<1>5. ASSUME NEW t \in Threads,
             \/ LookUpToSign(t) \/ LookUpToVerify(t) \/ Enforce(t)
             \/ Increment(t) \/ Log(t) \/ Deliver(t)
      PROVE  SigningInv'
  BY <1>5, LookUpsKeep, EnforceKeeps, CountingKeeps
<1> QED  BY <1>1, <1>2, <1>3, <1>4, <1>5 DEF SigningNext

LEMMA DeliveryIsJustified ==
  ASSUME SigningInv, NEW t \in Threads, Deliver(t), message[t].key # 0
  PROVE  message[t].key \in held[t] \/ "PERMISSIVE" \in inForce[t]
<1>1. /\ Head(steps[t]) = "deliver" /\ steps[t] # << >>
      /\ Planned(steps[t]) /\ Justified(message[t], steps[t], held[t], inForce[t])
  BY DEF Deliver, Does, Idle, SigningInv, Sound
<1>2. "deliver" \notin Counters \cup Events
  BY DEF Counters, Events
<1>3. steps[t][Len(steps[t])] = "deliver"
  BY <1>1, <1>2, StepsLeft
<1> QED  BY <1>1, <1>3 DEF Justified

(***************************************************************************)
(* Whatever rotations, removals and changes of the policy fall between the *)
(* look at the key and the look at the policy, for any number of threads,  *)
(* agents and keys: a message that is delivered has a signature that its   *)
(* sender's key at some time since the call began bears out, or a policy   *)
(* in force since then lets it pass.                                       *)
(***************************************************************************)
THEOREM DeliveryHasReason == SigningSpec => DeliveredWithReason
<1>1. SigningInv /\ [SigningNext]_signing
        => [\A t \in Threads :
              Deliver(t) /\ message[t].key # 0
                => message[t].key \in held[t] \/ "PERMISSIVE" \in inForce[t]]_signing
  BY DeliveryIsJustified
<1> QED  BY <1>1, SigningStarts, SigningStep, PTL DEF SigningSpec, DeliveredWithReason

-----------------------------------------------------------------------------
(* Filesystem: the tree is sound, and what it holds is counted.             *)

FileRecords == [owner : Users, size : Nat, worldWrite : BOOLEAN]

Sizes == [p \in DOMAIN files |-> files[p].size]

TreeOK ==
  /\ dirs \subseteq Seq(FileNames) /\ DOMAIN files \subseteq Seq(FileNames)
  /\ \A p \in dirs \cup DOMAIN files : Above(p) \subseteq dirs
  /\ dirs \cap DOMAIN files = {}

CountOK ==
  /\ IsFiniteSet(DOMAIN files) /\ \A p \in DOMAIN files : files[p] \in FileRecords
  /\ buried.count \in Nat /\ buried.size \in Nat
  /\ totalFiles = Cardinality(DOMAIN files) + buried.count
  /\ totalSize = Size(DOMAIN files) + buried.size

FilesInv == TreeOK /\ CountOK

LEMMA PathsAreSequences == Paths \subseteq Seq(FileNames)
<1> SUFFICES ASSUME NEW n \in 1 .. MaxDepth, NEW p \in [1 .. n -> FileNames]
             PROVE  p \in Seq(FileNames)
  BY DEF Paths
<1> QED  OBVIOUS

LEMMA PartsFacts ==
  ASSUME NEW p \in Seq(FileNames)
  PROVE  /\ PartsOf(p) \subseteq Seq(FileNames)
         /\ \A q \in PartsOf(p) : Len(q) <= Len(p) /\ (Len(q) = Len(p) => q = p)
         /\ \A q \in PartsOf(p) : PartsOf(q) \subseteq PartsOf(p)
<1>1. ASSUME NEW n \in 1 .. Len(p)
      PROVE  /\ SubSeq(p, 1, n) \in Seq(FileNames) /\ Len(SubSeq(p, 1, n)) = n
             /\ \A m \in 1 .. n : SubSeq(SubSeq(p, 1, n), 1, m) = SubSeq(p, 1, m)
  <2>1. Len(p) \in Nat /\ n \in Int /\ 1 <= n /\ \A i \in 1 .. n : p[i] \in FileNames
    OBVIOUS
  <2>2. /\ SubSeq(p, 1, n) \in Seq(FileNames)
        /\ Len(SubSeq(p, 1, n)) = IF 1 <= n THEN n - 1 + 1 ELSE 0
    BY <2>1, SubSeqProperties
  <2>3. ASSUME NEW m \in 1 .. n PROVE SubSeq(SubSeq(p, 1, n), 1, m) = SubSeq(p, 1, m)
    <3>1. /\ 1 \in 1 .. Len(p) /\ 1 \in 1 .. n - 1 + 1 /\ m \in 1 .. n - 1 + 1
          /\ 1 + 1 - 1 = 1 /\ 1 + m - 1 = m
      BY <2>1
    <3> QED  BY <3>1, SubSeqOfSubSeq
  <2> QED  BY <2>1, <2>2, <2>3
<1>2. SubSeq(p, 1, Len(p)) = p
  BY SubSeqFull
<1>3. ASSUME NEW q \in PartsOf(p)
      PROVE  /\ q \in Seq(FileNames) /\ Len(q) <= Len(p) /\ (Len(q) = Len(p) => q = p)
             /\ PartsOf(q) \subseteq PartsOf(p)
  <2>1. PICK n \in 1 .. Len(p) : q = SubSeq(p, 1, n)
    BY DEF PartsOf
  <2>2. q \in Seq(FileNames) /\ Len(q) = n /\ Len(p) \in Nat
    BY <1>1, <2>1
  <2>3. ASSUME NEW r \in PartsOf(q) PROVE r \in PartsOf(p)
    <3>1. PICK m \in 1 .. n : r = SubSeq(q, 1, m)
      BY <2>2 DEF PartsOf
    <3>2. r = SubSeq(p, 1, m) /\ m \in 1 .. Len(p)
      BY <1>1, <2>1, <3>1
    <3> QED  BY <3>2 DEF PartsOf
  <2>4. n <= Len(p) /\ (n = Len(p) => q = p)
    <3>1. n <= Len(p)
      BY <2>2
    <3>2. n = Len(p) => q = p
      BY <1>2, <2>1, Zenon
    <3> QED  BY <3>1, <3>2
  <2> QED  BY <2>2, <2>3, <2>4, Zenon
<1> QED  BY <1>3

\* What is above a part of a path is above the path.
LEMMA AbovePart ==
  ASSUME NEW p \in Seq(FileNames), NEW q \in PartsOf(p)
  PROVE  Above(q) \subseteq Above(p)
<1> SUFFICES ASSUME NEW r \in Above(q) PROVE r \in Above(p)
  OBVIOUS
<1>1. q \in Seq(FileNames) /\ r \in PartsOf(q) /\ r # q /\ r \in PartsOf(p) /\ Len(q) <= Len(p)
  BY PartsFacts DEF Above
<1>2. Len(r) <= Len(q) /\ Len(r) # Len(q) /\ r \in Seq(FileNames)
  BY <1>1, PartsFacts
<1>3. r # p
  <2>1. Len(r) \in Nat /\ Len(q) \in Nat /\ Len(p) \in Nat
    BY <1>1, <1>2
  <2> QED  BY <1>1, <1>2, <2>1
<1> QED  BY <1>1, <1>3 DEF Above

LEMMA SizeFacts ==
  ASSUME CountOK
  PROVE  /\ Sizes = [p \in DOMAIN files |-> files[p].size] /\ DOMAIN Sizes = DOMAIN files
         /\ \A s : Size(s) = SumFunctionOnSet(Sizes, s)
         /\ \A p \in DOMAIN files : Sizes[p] \in Nat /\ Sizes[p] = files[p].size
         /\ \A s \in SUBSET DOMAIN files : Size(s) \in Nat /\ IsFiniteSet(s) /\ Cardinality(s) \in Nat
<1>1. /\ \A s : Size(s) = SumFunctionOnSet(Sizes, s)
      /\ \A p \in DOMAIN files : Sizes[p] \in Nat /\ Sizes[p] = files[p].size
      /\ DOMAIN Sizes = DOMAIN files
  BY DEF Size, Sizes, CountOK, FileRecords
<1>2. ASSUME NEW s \in SUBSET DOMAIN files
      PROVE  Size(s) \in Nat /\ IsFiniteSet(s) /\ Cardinality(s) \in Nat
  <2>1. IsFiniteSet(s) /\ Cardinality(s) \in Nat
    BY FS_Subset, FS_CardinalityType DEF CountOK
  <2> QED  BY <1>1, <2>1, SumFacts
<1> QED  BY <1>1, <1>2 DEF Sizes

LEMMA MakeKeepsTree ==
  ASSUME TreeOK, NEW path \in Seq(FileNames), MakeDirs(path)
  PROVE  TreeOK'
<1>1. /\ dirs' = dirs \cup PartsOf(path) /\ files' = files
      /\ PartsOf(path) \cap DOMAIN files = {}
  BY DEF MakeDirs, CanMake
<1>2. ASSUME NEW p \in PartsOf(path) PROVE Above(p) \subseteq PartsOf(path) /\ p \in Seq(FileNames)
  BY PartsFacts DEF Above
<1> QED  BY <1>1, <1>2 DEF TreeOK

LEMMA CreateKeeps ==
  ASSUME FilesInv, NEW path \in Seq(FileNames), NEW agent \in Users, NEW size \in Nat,
         NEW worldWrite \in BOOLEAN, CreateFile(agent, path, size, worldWrite)
  PROVE  FilesInv'
<1> DEFINE new == NewFile(agent, size, worldWrite)
           ps == DOMAIN files
<1>1. /\ path \notin dirs /\ path \notin ps /\ Above(path) \cap ps = {}
      /\ dirs' = dirs \cup Above(path) /\ DOMAIN files' = ps \cup {path}
      /\ files'[path] = new /\ \A p \in ps : files'[p] = files[p]
      /\ totalFiles' = totalFiles + 1 /\ totalSize' = totalSize + size /\ buried' = buried
  BY DEF CreateFile
<1>2. new.size = size /\ new \in FileRecords
  BY DEF NewFile, FileRecords
<1> HIDE DEF new
<1>3. TreeOK'
  <2>1. ASSUME NEW p \in Above(path)
        PROVE  Above(p) \subseteq Above(path) /\ p \in Seq(FileNames) /\ p # path
    BY AbovePart, PartsFacts DEF Above
  <2> QED  BY <1>1, <2>1 DEF FilesInv, TreeOK
<1>4. IsFiniteSet(ps) /\ CountOK /\ Cardinality(ps) \in Nat
  BY FS_CardinalityType DEF FilesInv, CountOK
<1>5. IsFiniteSet(ps \cup {path}) /\ Cardinality(ps \cup {path}) = Cardinality(ps) + 1
  BY <1>1, <1>4, FS_AddElement
<1>6. \A p \in DOMAIN files' : files'[p] \in FileRecords
  BY <1>1, <1>2, <1>4 DEF CountOK
<1>7. Size(DOMAIN files)' = Size(ps) + size
  <2> DEFINE f == Sizes
             g == [p \in DOMAIN files' |-> files'[p].size]
             all == ps \cup {path}
  <2>1. Size(DOMAIN files)' = SumFunctionOnSet(g, all)
    BY <1>1 DEF Size
  <2>2. /\ \A p \in all : g[p] \in Nat
        /\ g[path] = size /\ \A p \in ps : g[p] = f[p] /\ f[p] \in Nat
    BY <1>1, <1>2, <1>4, SizeFacts
  <2> HIDE DEF g, f
  <2>3. all \ {path} = ps
    BY <1>1
  <2>4. SumFunctionOnSet(g, all) = size + SumFunctionOnSet(g, ps)
    <3>1. SumFunctionOnSet(g, all) = g[path] + SumFunctionOnSet(g, all \ {path})
      BY <1>5, <2>2, SumFacts
    <3> QED  BY <2>2, <2>3, <3>1
  <2>5. SumFunctionOnSet(g, ps) = SumFunctionOnSet(f, ps) /\ SumFunctionOnSet(f, ps) \in Nat
    BY <1>4, <2>2, SumFacts
  <2>6. Size(ps) = SumFunctionOnSet(f, ps)
    BY <1>4, SizeFacts DEF f
  <2> QED  BY <2>1, <2>4, <2>5, <2>6
<1>8. Size(ps) \in Nat
  BY <1>4, SizeFacts
<1>9. CountOK'
  <2>1. totalSize = Size(ps) + buried.size /\ buried.size \in Nat
    BY <1>4 DEF CountOK
  <2>2. totalSize' = Size(DOMAIN files)' + buried'.size
    BY <1>1, <1>7, <1>8, <2>1
  <2>3. totalFiles' = Cardinality(DOMAIN files') + buried'.count /\ IsFiniteSet(DOMAIN files')
    BY <1>1, <1>4, <1>5 DEF CountOK
  <2> QED  BY <1>1, <1>4, <1>6, <2>2, <2>3 DEF CountOK
<1> QED  BY <1>3, <1>9 DEF FilesInv

LEMMA OverwriteKeeps ==
  ASSUME FilesInv, NEW path, NEW agent, NEW size \in Nat, OverwriteFile(agent, path, size)
  PROVE  FilesInv'
<1> DEFINE ps == DOMAIN files
           f == Sizes
           g == [p \in DOMAIN files' |-> files'[p].size]
<1>1. /\ path \in ps /\ DOMAIN files' = ps /\ \A p \in ps \ {path} : files'[p] = files[p]
      /\ files'[path] = [files[path] EXCEPT !.size = size]
      /\ totalSize' = totalSize + size - files[path].size
      /\ UNCHANGED <<dirs, totalFiles, buried>>
  BY DEF OverwriteFile
<1>2. /\ CountOK /\ IsFiniteSet(ps) /\ IsFiniteSet(ps \ {path})
      /\ files[path] \in FileRecords /\ files[path].size \in Nat
  BY <1>1, FS_RemoveElement DEF FilesInv, CountOK, FileRecords
<1>3. files'[path] \in FileRecords /\ files'[path].size = size
  BY <1>1, <1>2 DEF FileRecords
<1>4. /\ f[path] = files[path].size /\ g[path] = size
      /\ \A p \in ps \ {path} : g[p] = f[p]
      /\ \A p \in ps : f[p] \in Nat /\ g[p] \in Nat
  BY <1>1, <1>2, <1>3, SizeFacts
<1>5. Size(ps) = SumFunctionOnSet(f, ps) /\ Size(DOMAIN files)' = SumFunctionOnSet(g, ps)
  BY <1>1, <1>2, SizeFacts DEF Size
<1> HIDE DEF f, g
<1>6. /\ SumFunctionOnSet(f, ps) = f[path] + SumFunctionOnSet(f, ps \ {path})
      /\ SumFunctionOnSet(g, ps) = g[path] + SumFunctionOnSet(g, ps \ {path})
  BY <1>1, <1>2, <1>4, SumFacts
<1>7. /\ SumFunctionOnSet(g, ps \ {path}) = SumFunctionOnSet(f, ps \ {path})
      /\ SumFunctionOnSet(f, ps \ {path}) \in Nat
  <2>1. \A p \in ps \ {path} : f[p] \in Nat /\ g[p] = f[p]
    BY <1>4
  <2> QED  BY <1>2, <2>1, SumFacts
<1>8. totalSize' = Size(DOMAIN files)' + buried'.size
  <2>1. totalSize = Size(ps) + buried.size /\ buried.size \in Nat
    BY <1>2 DEF CountOK
  <2> QED  BY <1>1, <1>2, <1>4, <1>5, <1>6, <1>7, <2>1
<1>9. CountOK'
  BY <1>1, <1>2, <1>3, <1>8 DEF CountOK
<1>10. TreeOK'
  BY <1>1 DEF FilesInv, TreeOK
<1> QED  BY <1>9, <1>10 DEF FilesInv

LEMMA DeleteFileKeeps ==
  ASSUME FilesInv, NEW path, NEW agent, DeleteFile(agent, path)
  PROVE  FilesInv'
<1> DEFINE ps == DOMAIN files
           gone == Below(path)
           lost == IF path \in dirs THEN gone \cap DOMAIN files ELSE {}
           counted == (gone \cap DOMAIN files) \ lost
           left == ps \ gone
<1>1. /\ dirs' = dirs \ gone /\ DOMAIN files' = left /\ \A p \in left : files'[p] = files[p]
      /\ totalFiles' = totalFiles - Cardinality(counted)
      /\ totalSize' = totalSize - Size(counted)
      /\ buried' = [count |-> buried.count + Cardinality(lost), size |-> buried.size + Size(lost)]
  BY DEF DeleteFile
<1>2. gone = {p \in dirs \cup ps : path \in PartsOf(p)}
  BY DEF Below
<1>3. /\ left \subseteq ps /\ lost \subseteq ps /\ counted \subseteq ps
      /\ lost \cap counted = {} /\ left \cap (lost \cup counted) = {}
      /\ ps = left \cup (lost \cup counted)
  OBVIOUS
<1> HIDE DEF gone, lost, counted, left
<1>4. TreeOK'
  <2>1. ASSUME NEW p \in dirs' \cup DOMAIN files', NEW q \in Above(p) PROVE q \in dirs'
    <3>1. p \in dirs \cup ps /\ p \notin gone /\ q \in dirs /\ q \in PartsOf(p) /\ p \in Seq(FileNames)
      BY <1>1, <2>1 DEF FilesInv, TreeOK, Above, left
    <3>2. path \notin PartsOf(p) /\ PartsOf(q) \subseteq PartsOf(p)
      BY <1>2, <3>1, PartsFacts
    <3> QED  BY <1>1, <1>2, <3>1, <3>2
  <2>2. dirs' \subseteq dirs /\ DOMAIN files' \subseteq ps
    BY <1>1, <1>3
  <2> QED  BY <2>1, <2>2 DEF FilesInv, TreeOK
<1>5. /\ CountOK /\ IsFiniteSet(ps)
      /\ IsFiniteSet(left) /\ IsFiniteSet(lost) /\ IsFiniteSet(counted)
      /\ Cardinality(left) \in Nat /\ Cardinality(lost) \in Nat /\ Cardinality(counted) \in Nat
      /\ Size(left) \in Nat /\ Size(lost) \in Nat /\ Size(counted) \in Nat
  BY <1>3, SizeFacts DEF FilesInv, CountOK
<1>6. IsFiniteSet(lost \cup counted)
  BY <1>5, FS_Union
<1>7. Cardinality(ps) = Cardinality(left) + (Cardinality(lost) + Cardinality(counted))
  <2>1. Cardinality(lost \cup counted) = Cardinality(lost) + Cardinality(counted)
    BY <1>3, <1>5, DisjointUnion, Zenon
  <2>2. Cardinality(left \cup (lost \cup counted)) = Cardinality(left) + Cardinality(lost \cup counted)
    BY <1>3, <1>5, <1>6, DisjointUnion, Zenon
  <2> QED  BY <1>3, <2>1, <2>2, Zenon
<1>8. Size(ps) = Size(left) + (Size(lost) + Size(counted))
  <2> DEFINE f == Sizes
  <2>1. (\A s : Size(s) = SumFunctionOnSet(f, s)) /\ (\A p \in ps : f[p] \in Nat)
    BY <1>5, SizeFacts
  <2> HIDE DEF f
  <2>2. SumFunctionOnSet(f, lost \cup counted) = SumFunctionOnSet(f, lost) + SumFunctionOnSet(f, counted)
    BY <1>3, <1>5, <2>1, SumOfTwo
  <2>3. SumFunctionOnSet(f, left \cup (lost \cup counted))
          = SumFunctionOnSet(f, left) + SumFunctionOnSet(f, lost \cup counted)
    BY <1>3, <1>5, <1>6, <2>1, SumOfTwo
  <2> QED  BY <1>3, <2>1, <2>2, <2>3, Zenon
<1>9. Size(DOMAIN files)' = Size(left)
  <2> DEFINE f == Sizes
             g == [p \in DOMAIN files' |-> files'[p].size]
  <2>1. Size(DOMAIN files)' = SumFunctionOnSet(g, left)
    BY <1>1 DEF Size
  <2>2. \A p \in left : f[p] \in Nat /\ g[p] = f[p]
    BY <1>1, <1>3, <1>5, SizeFacts
  <2>3. Size(left) = SumFunctionOnSet(f, left)
    BY <1>5, SizeFacts
  <2> HIDE DEF f, g
  <2> QED  BY <1>5, <2>1, <2>2, <2>3, SumFacts
<1>10. /\ totalFiles = Cardinality(ps) + buried.count /\ totalSize = Size(ps) + buried.size
       /\ buried.count \in Nat /\ buried.size \in Nat
  BY <1>5 DEF CountOK
<1>11. /\ buried'.count = buried.count + Cardinality(lost)
       /\ buried'.size = buried.size + Size(lost)
  BY <1>1
<1>12. /\ totalFiles' = Cardinality(DOMAIN files') + buried'.count
       /\ totalSize' = Size(DOMAIN files)' + buried'.size
       /\ buried'.count \in Nat /\ buried'.size \in Nat
  BY <1>1, <1>5, <1>7, <1>8, <1>9, <1>10, <1>11
<1>13. CountOK'
  BY <1>1, <1>3, <1>5, <1>12 DEF CountOK
<1> QED  BY <1>4, <1>13 DEF FilesInv

LEMMA FilesStart == FilesInit => FilesInv
<1> SUFFICES ASSUME FilesInit PROVE FilesInv
  OBVIOUS
<1>1. /\ dirs = {} /\ DOMAIN files = {} /\ totalFiles = 0 /\ totalSize = 0
      /\ buried.count = 0 /\ buried.size = 0
  BY DEF FilesInit
<1>2. IsFiniteSet(DOMAIN files) /\ Cardinality(DOMAIN files) = 0
  BY <1>1, FS_EmptySet
<1>3. Size(DOMAIN files) = 0
  BY <1>1, <1>2, SumFacts DEF Size
<1> QED  BY <1>1, <1>2, <1>3 DEF FilesInv, TreeOK, CountOK

LEMMA FilesStep == FilesInv /\ [FilesNext]_filesystem => FilesInv'
<1> SUFFICES ASSUME FilesInv, [FilesNext]_filesystem PROVE FilesInv'
  OBVIOUS
<1>1. ASSUME UNCHANGED <<files, totalFiles, totalSize, buried>> PROVE CountOK'
  <2>1. Size(DOMAIN files)' = Size(DOMAIN files)
    BY <1>1 DEF Size
  <2> QED  BY <1>1, <2>1 DEF FilesInv, CountOK
<1>2. CASE UNCHANGED filesystem
  BY <1>1, <1>2 DEF filesystem, statistics, FilesInv, TreeOK
<1>3. ASSUME NEW path \in Paths, MakeDirs(path) PROVE FilesInv'
  <2>1. path \in Seq(FileNames)
    BY PathsAreSequences
  <2>2. UNCHANGED <<files, totalFiles, totalSize, buried>>
    BY <1>3 DEF MakeDirs, statistics
  <2> QED  BY <1>1, <1>3, <2>1, <2>2, MakeKeepsTree DEF FilesInv
<1>4. ASSUME NEW path \in Paths, NEW agent \in Users,
             \/ \E size \in 0 .. MaxSize :
                  \/ OverwriteFile(agent, path, size)
                  \/ \E worldWrite \in BOOLEAN : CreateFile(agent, path, size, worldWrite)
             \/ DeleteFile(agent, path)
      PROVE  FilesInv'
  <2>1. path \in Seq(FileNames)
    BY PathsAreSequences
  <2>2. 0 .. MaxSize \subseteq Nat
    OBVIOUS
  <2> QED  BY <1>4, <2>1, <2>2, OverwriteKeeps, CreateKeeps, DeleteFileKeeps
<1> QED  BY <1>2, <1>3, <1>4 DEF FilesNext

(***************************************************************************)
(* For every set of names, depth and number of files, whatever is made,    *)
(* overwritten and deleted: the tree is sound, and the statistics are off  *)
(* by exactly the files that went with deleted directories.                *)
(***************************************************************************)
THEOREM TreeStaysCounted == FilesSpec => []TreeIsCounted
<1>1. FilesInv => TreeIsCounted
  BY DEF FilesInv, TreeOK, CountOK, TreeIsCounted
<1> QED  BY <1>1, FilesStart, FilesStep, PTL DEF FilesSpec

-----------------------------------------------------------------------------
(* Integrity: the chain accounts for the store.                             *)

Bad == <<"bad">>

\* An entry is damaged exactly if its hash is not that of its fields.
EntryOK(e, hurt) ==
  LET written == <<e.key, e.version>> IN
    /\ DOMAIN e = {"key", "version", "data", "previous", "hash"}
    /\ e.key \in Keys /\ e.version \in Nat /\ e.data \in {written, Bad}
    /\ e.hash = Bad \/ (e.hash = <<written, e.hash[2]>> /\ e.previous \in {e.hash[2], Bad})
    /\ hurt <=> e.hash # <<e.data, e.previous>>

ChainOK ==
  /\ chain \in Seq({chain[i] : i \in DOMAIN chain})
  /\ damaged \subseteq DOMAIN chain
  /\ \A i \in DOMAIN chain : EntryOK(chain[i], i \in damaged)
  /\ \A i \in DOMAIN chain :
       i \notin damaged /\ i - 1 \notin damaged => chain[i].previous = PreviousHash(i)

IsLatest(key, i) ==
  /\ i \in DOMAIN chain /\ chain[i].key = key
  /\ \A j \in DOMAIN chain : chain[j].key = key => j <= i

StoreEntries == [version : Nat, index : Nat, expires : Nat]

\* What the chain says of a key that is there, and of one that is not.
Accounted(key) ==
  /\ store[key] # Absent =>
       /\ IsLatest(key, store[key].index)
       /\ chain[store[key].index].version = store[key].version
       /\ store[key].expires >= Lifetime
  /\ store[key] = Absent =>
       \A i \in DOMAIN chain :
         IsLatest(key, i) /\ chain[i].version # 0 => clock >= Lifetime

\* The versions of a key that are kept, counter included.
VersionsOK(kept, counter) ==
  /\ kept \in Seq(Nat) /\ counter \in Nat
  /\ \A i \in DOMAIN kept : kept[i] <= counter
  /\ \A i, j \in DOMAIN kept : kept[i] = kept[j] => i = j

StoreOK ==
  /\ store \in [Keys -> StoreEntries] /\ clock \in Nat
  /\ DOMAIN versions = Keys /\ DOMAIN history = Keys
  /\ \A key \in Keys : Accounted(key) /\ VersionsOK(history[key], versions[key])

IntegrityInv == ChainOK /\ StoreOK

LEMMA Tuples ==
  ASSUME NEW x, NEW y
  PROVE  /\ Bad # <<x, y>> /\ <<x, y>>[1] = x /\ <<x, y>>[2] = y
         /\ \A z : <<x, y>> = <<x, z>> => y = z
<1>1. Len(Bad) = 1 /\ Len(<<x, y>>) = 2
  BY DEF Bad
<1>2. \A z : <<x, y>>[2] = y /\ <<x, z>>[2] = z
  OBVIOUS
<1> QED  BY <1>1, <1>2

LEMMA OverItsRange ==
  ASSUME NEW S, NEW s \in Seq(S)
  PROVE  s \in Seq({s[i] : i \in DOMAIN s})
<1> DEFINE n == Len(s)
           R == {s[i] : i \in DOMAIN s}
<1>1. n \in Nat /\ s \in [1 .. n -> R]
  OBVIOUS
<1> HIDE DEF n, R
<1>2. s \in Seq(R)
  BY <1>1
<1> QED  BY <1>2 DEF R

LEMMA EntryIsOK ==
  ASSUME NEW key \in Keys, NEW version \in Nat, NEW previous
  PROVE  EntryOK([key |-> key, version |-> version, data |-> <<key, version>>,
                  previous |-> previous, hash |-> <<<<key, version>>, previous>>], FALSE)
<1> DEFINE written == <<key, version>>
           hash == <<written, previous>>
           e == [key |-> key, version |-> version, data |-> written,
                 previous |-> previous, hash |-> hash]
<1>1. hash[2] = previous
  BY Tuples
<1>2. /\ DOMAIN e = {"key", "version", "data", "previous", "hash"}
      /\ e.key = key /\ e.version = version /\ e.data = written /\ e.previous = previous
      /\ e.hash = hash
  OBVIOUS
<1>3. e.hash = <<e.data, e.previous>> /\ <<e.key, e.version>> = written
  BY <1>2
<1>4. EntryOK(e, FALSE)
  <2>1. e.hash[2] = previous /\ e.hash = <<written, e.hash[2]>>
    BY <1>1, <1>2
  <2> HIDE DEF e, hash, written
  <2> QED  BY <1>2, <1>3, <2>1 DEF EntryOK
<1> QED  BY <1>4

\* The chain grows by an entry that is not damaged.
LEMMA AppendKeepsChain ==
  ASSUME ChainOK, NEW key \in Keys, NEW version \in Nat,
         chain' = Appended(key, version), damaged' = damaged
  PROVE  /\ ChainOK'
         /\ DOMAIN chain = 1 .. Len(chain) /\ Len(chain) \in Nat
         /\ DOMAIN chain' = DOMAIN chain \cup {Len(chain) + 1}
         /\ \A i \in DOMAIN chain : chain'[i] = chain[i]
         /\ chain'[Len(chain) + 1].key = key /\ chain'[Len(chain) + 1].version = version
<1> DEFINE n == Len(chain)
           p == PreviousHash(n + 1)
           e == [key |-> key, version |-> version, data |-> <<key, version>>,
                 previous |-> p, hash |-> <<<<key, version>>, p>>]
           R == {chain[i] : i \in DOMAIN chain} \cup {e}
<1>1. chain \in Seq(R)
  BY DEF ChainOK
<1>2. chain' = Append(chain, e)
  BY DEF Appended
<1>3. EntryOK(e, FALSE) /\ e.key = key /\ e.version = version /\ e.previous = p
  BY EntryIsOK
<1>4. e \in R
  OBVIOUS
<1> HIDE DEF e, R
<1>5. /\ chain' \in Seq(R) /\ DOMAIN chain' = DOMAIN chain \cup {n + 1} /\ chain'[n + 1] = e
      /\ DOMAIN chain = 1 .. n /\ n \in Nat
      /\ \A i \in DOMAIN chain : chain'[i] = chain[i]
  BY <1>1, <1>2, <1>4, AppendFacts
<1>6. chain' \in Seq({chain'[i] : i \in DOMAIN chain'})
  BY <1>5, OverItsRange
<1>7. n + 1 \notin damaged /\ damaged \subseteq DOMAIN chain
  BY <1>5 DEF ChainOK
<1>8. \A i \in DOMAIN chain' : EntryOK(chain'[i], i \in damaged')
  <2> SUFFICES ASSUME NEW i \in DOMAIN chain' PROVE EntryOK(chain'[i], i \in damaged)
    OBVIOUS
  <2>1. CASE i \in DOMAIN chain
    BY <1>5, <2>1 DEF ChainOK
  <2>2. CASE i = n + 1
    <3>1. (i \in damaged) = FALSE
      BY <1>7, <2>2
    <3> QED  BY <1>3, <1>5, <2>2, <3>1
  <2> QED  BY <1>5, <2>1, <2>2
<1>9. \A i \in DOMAIN chain' : PreviousHash(i)' = PreviousHash(i)
  <2> SUFFICES ASSUME NEW i \in DOMAIN chain' PROVE PreviousHash(i)' = PreviousHash(i)
    OBVIOUS
  <2>1. i # 1 => i - 1 \in DOMAIN chain
    BY <1>5
  <2> QED  BY <1>5, <2>1 DEF PreviousHash
<1>10. \A i \in DOMAIN chain' :
         i \notin damaged' /\ i - 1 \notin damaged' => chain'[i].previous = PreviousHash(i)'
  <2> SUFFICES ASSUME NEW i \in DOMAIN chain', i \notin damaged, i - 1 \notin damaged
               PROVE  chain'[i].previous = PreviousHash(i)
    BY <1>9
  <2>1. CASE i \in DOMAIN chain
    BY <1>5, <2>1 DEF ChainOK
  <2>2. CASE i = n + 1
    BY <1>3, <1>5, <2>2
  <2> QED  BY <1>5, <2>1, <2>2
<1>11. ChainOK'
  BY <1>5, <1>6, <1>7, <1>8, <1>10 DEF ChainOK
<1> QED  BY <1>3, <1>5, <1>11

\* Damage to a field cannot be mended by damage to another.
LEMMA DamageShows ==
  ASSUME NEW e, NEW hurt, EntryOK(e, hurt), NEW field \in {"data", "previous", "hash"},
         e[field] # Bad
  PROVE  /\ EntryOK([e EXCEPT ![field] = Bad], TRUE)
         /\ [e EXCEPT ![field] = Bad].key = e.key
         /\ [e EXCEPT ![field] = Bad].version = e.version
<1> DEFINE written == <<e.key, e.version>>
           d == [e EXCEPT ![field] = Bad]
<1>1. /\ DOMAIN e = {"key", "version", "data", "previous", "hash"}
      /\ e.key \in Keys /\ e.version \in Nat /\ e.data \in {written, Bad}
      /\ e.hash = Bad \/ (e.hash = <<written, e.hash[2]>> /\ e.previous \in {e.hash[2], Bad})
  BY DEF EntryOK
<1>2. /\ DOMAIN d = DOMAIN e /\ d.key = e.key /\ d.version = e.version
      /\ d.data = IF field = "data" THEN Bad ELSE e.data
      /\ d.previous = IF field = "previous" THEN Bad ELSE e.previous
      /\ d.hash = IF field = "hash" THEN Bad ELSE e.hash
  BY <1>1
<1>3. Bad # written /\ \A x : Bad # <<d.data, x>> /\ Bad # <<e.data, x>>
  BY Tuples
<1> HIDE DEF d, written
<1>4. d.hash # <<d.data, d.previous>>
  <2>1. CASE field = "hash"
    BY <1>2, <1>3, <2>1
  <2>2. CASE field = "data"
    <3>1. d.data = Bad /\ d.hash = e.hash
      BY <1>2, <2>2
    <3>2. CASE e.hash = Bad
      BY <1>3, <3>1, <3>2
    <3>3. CASE e.hash = <<written, e.hash[2]>>
      <4>1. e.hash[1] = written /\ <<d.data, d.previous>>[1] = Bad
        BY <3>1, <3>3, Tuples
      <4> QED  BY <1>3, <3>1, <4>1
    <3> QED  BY <1>1, <3>2, <3>3
  <2>3. CASE field = "previous"
    <3>1. d.data = e.data /\ d.hash = e.hash /\ d.previous = Bad /\ e.previous # Bad
      BY <1>2, <2>3
    <3>2. CASE e.hash = Bad
      BY <1>3, <3>1, <3>2
    <3>3. CASE e.hash # Bad
      <4>1. e.previous = e.hash[2]
        BY <1>1, <3>1, <3>3
      <4>2. <<d.data, d.previous>>[2] = Bad
        BY <3>1, Tuples
      <4> QED  BY <3>1, <4>1, <4>2
    <3> QED  BY <3>2, <3>3
  <2> QED  BY <2>1, <2>2, <2>3
<1>5. EntryOK(d, TRUE)
  <2>1. /\ d.data \in {written, Bad}
        /\ d.hash = Bad \/ (d.hash = <<written, d.hash[2]>> /\ d.previous \in {d.hash[2], Bad})
    BY <1>1, <1>2
  <2>2. written = <<d.key, d.version>>
    BY <1>2 DEF written
  <2> QED  BY <1>1, <1>2, <1>4, <2>1, <2>2 DEF EntryOK
<1> QED  BY <1>2, <1>5 DEF d

LEMMA CorruptKeepsChain ==
  ASSUME ChainOK, NEW i, NEW field \in {"data", "previous", "hash"}, Corrupt(i, field)
  PROVE  /\ ChainOK' /\ DOMAIN chain' = DOMAIN chain
         /\ \A j \in DOMAIN chain : /\ chain'[j].key = chain[j].key
                                    /\ chain'[j].version = chain[j].version
<1> DEFINE n == Len(chain)
           d == [chain[i] EXCEPT ![field] = Bad]
           R == {chain[j] : j \in DOMAIN chain} \cup {d}
<1>1. chain \in Seq(R) /\ DOMAIN chain = 1 .. n /\ n \in Nat /\ d \in R
  BY DEF ChainOK
<1>2. i \in DOMAIN chain /\ chain' = [chain EXCEPT ![i] = d] /\ damaged' = damaged \cup {i}
      /\ chain[i][field] # Bad
  BY DEF Corrupt, Bad
<1>3. EntryOK(d, TRUE) /\ d.key = chain[i].key /\ d.version = chain[i].version
  BY <1>2, DamageShows DEF ChainOK
<1> HIDE DEF d, R
<1>4. /\ chain' \in Seq(R) /\ DOMAIN chain' = DOMAIN chain /\ chain'[i] = d
      /\ \A j \in DOMAIN chain : j # i => chain'[j] = chain[j]
  BY <1>1, <1>2
<1>5. chain' \in Seq({chain'[j] : j \in DOMAIN chain'})
  BY <1>4, OverItsRange
<1>6. \A j \in DOMAIN chain' : EntryOK(chain'[j], j \in damaged')
  <2> SUFFICES ASSUME NEW j \in DOMAIN chain PROVE EntryOK(chain'[j], j \in damaged')
    BY <1>4
  <2>1. CASE j = i
    <3>1. (j \in damaged') = TRUE
      BY <1>2, <2>1
    <3> QED  BY <1>3, <1>4, <2>1, <3>1
  <2>2. CASE j # i
    <3>1. (j \in damaged') = (j \in damaged)
      BY <1>2, <2>2
    <3>2. EntryOK(chain[j], j \in damaged)
      BY DEF ChainOK
    <3> QED  BY <1>4, <2>2, <3>1, <3>2
  <2> QED  BY <2>1, <2>2
<1>7. ASSUME NEW j \in DOMAIN chain', j \notin damaged', j - 1 \notin damaged'
      PROVE  chain'[j].previous = PreviousHash(j)'
  <2>1. j # i /\ j - 1 # i /\ j \notin damaged /\ j - 1 \notin damaged
    BY <1>2, <1>7
  <2>2. chain[j].previous = PreviousHash(j) /\ chain'[j] = chain[j]
    BY <1>4, <2>1 DEF ChainOK
  <2>3. PreviousHash(j)' = PreviousHash(j)
    <3>1. j # 1 => j - 1 \in DOMAIN chain
      BY <1>1, <1>4
    <3> QED  BY <1>4, <2>1, <3>1 DEF PreviousHash
  <2> QED  BY <2>2, <2>3
<1>8. damaged' \subseteq DOMAIN chain'
  BY <1>2, <1>4 DEF ChainOK
<1>9. ChainOK'
  BY <1>5, <1>6, <1>7, <1>8 DEF ChainOK
<1> QED  BY <1>3, <1>4, <1>9

\* verify finds the first damaged entry, and nothing in a chain that has none.
LEMMA TamperingIsFound ==
  ASSUME ChainOK
  PROVE  /\ damaged = {} => FirstTampered = 0
         /\ damaged # {} => /\ FirstTampered \in damaged /\ FirstTampered # 0
                            /\ \A i \in damaged : FirstTampered <= i
<1> DEFINE bad == {i \in DOMAIN chain : ~VerifyEntry(i)}
<1>1. DOMAIN chain = 1 .. Len(chain) /\ Len(chain) \in Nat /\ damaged \subseteq DOMAIN chain
  BY DEF ChainOK
<1>2. damaged \subseteq bad
  BY <1>1 DEF ChainOK, EntryOK, VerifyEntry
<1>3. \A i \in bad : i \in damaged \/ i - 1 \in damaged
  BY DEF ChainOK, EntryOK, VerifyEntry
<1>4. bad \subseteq DOMAIN chain
  OBVIOUS
<1>5. FirstTampered = IF bad = {} THEN 0 ELSE CHOOSE i \in bad : \A j \in bad : i <= j
  BY DEF FirstTampered
<1> HIDE DEF bad
<1>6. CASE damaged = {}
  <2>1. bad = {}
    BY <1>3, <1>6
  <2> QED  BY <1>5, <1>6, <2>1
<1>7. CASE damaged # {}
  <2>1. damaged \in SUBSET Nat
    BY <1>1
  <2>2. PICK m \in damaged : \A i \in damaged : m <= i
    BY <1>7, <2>1, LeastElement
  <2>3. ASSUME NEW j \in bad PROVE m <= j
    <3>1. j \in Nat /\ m \in Nat /\ (j \in damaged \/ j - 1 \in damaged)
      BY <1>1, <1>3, <1>4, <2>1
    <3> QED  BY <2>2, <3>1
  <2>4. m \in bad /\ \A j \in bad : m <= j
    BY <1>2, <2>3
  <2>5. /\ FirstTampered \in bad /\ \A j \in bad : FirstTampered <= j
    BY <1>5, <2>4
  <2>6. FirstTampered = m
    <3>1. FirstTampered \in Nat /\ m \in Nat
      BY <1>1, <1>4, <2>4, <2>5
    <3> QED  BY <2>4, <2>5, <3>1
  <2> QED  BY <1>1, <1>7, <2>2, <2>6
<1> QED  BY <1>6, <1>7

\* The latest entry about a key after one is added.
LEMMA LatestAfterAppend ==
  ASSUME DOMAIN chain = 1 .. Len(chain), Len(chain) \in Nat,
         DOMAIN chain' = DOMAIN chain \cup {Len(chain) + 1},
         \A i \in DOMAIN chain : chain'[i] = chain[i],
         NEW key, chain'[Len(chain) + 1].key = key
  PROVE  /\ \A i : IsLatest(key, i)' <=> i = Len(chain) + 1
         /\ \A k, i : k # key => (IsLatest(k, i)' <=> IsLatest(k, i))
<1> DEFINE n == Len(chain)
<1>1. ASSUME NEW i, IsLatest(key, i)' PROVE i = n + 1
  <2>1. i \in 1 .. n \/ i = n + 1
    BY <1>1 DEF IsLatest
  <2>2. n + 1 \in DOMAIN chain' /\ chain'[n + 1].key = key
    OBVIOUS
  <2>3. n + 1 <= i
    BY <1>1, <2>2 DEF IsLatest
  <2> QED  BY <2>1, <2>3
<1>2. ASSUME NEW i, i = n + 1 PROVE IsLatest(key, i)'
  <2>1. i \in DOMAIN chain' /\ chain'[i].key = key /\ \A j \in DOMAIN chain' : j <= i
    BY <1>2
  <2> QED  BY <2>1 DEF IsLatest
<1>3. ASSUME NEW k, NEW i, k # key PROVE IsLatest(k, i)' <=> IsLatest(k, i)
  BY <1>3 DEF IsLatest
<1> QED  BY <1>1, <1>2, <1>3, Zenon

LEMMA IntegrityTypes ==
  ASSUME IntegrityInv, NEW key \in Keys
  PROVE  /\ store[key] \in StoreEntries /\ versions[key] \in Nat /\ history[key] \in Seq(Nat)
         /\ Accounted(key) /\ VersionsOK(history[key], versions[key])
         /\ DOMAIN store = Keys /\ DOMAIN versions = Keys /\ DOMAIN history = Keys
         /\ clock \in Nat
BY DEF IntegrityInv, StoreOK, VersionsOK

\* A key whose entries stay the latest, and that stays as it was or outlived its lifetime.
LEMMA OtherKeysStay ==
  ASSUME IntegrityAssumption, IntegrityInv, NEW key \in Keys, clock' \in Nat, clock <= clock',
         \A i : IsLatest(key, i)' <=> IsLatest(key, i),
         \A i \in DOMAIN chain : IsLatest(key, i) => chain'[i].version = chain[i].version,
         \/ store'[key] = store[key]
         \/ store'[key] = Absent /\ clock' >= store[key].expires /\ store[key] # Absent
  PROVE  Accounted(key)'
<1>1. /\ store[key] \in StoreEntries /\ Accounted(key) /\ clock \in Nat
      /\ Lifetime \in Nat /\ store[key].expires \in Nat
  BY IntegrityTypes DEF IntegrityAssumption, StoreEntries
<1>2. \A i : IsLatest(key, i) => i \in DOMAIN chain
  BY DEF IsLatest
<1>3. CASE store'[key] = store[key]
  BY <1>1, <1>2, <1>3 DEF Accounted
<1>4. CASE store'[key] = Absent /\ clock' >= store[key].expires /\ store[key] # Absent
  <2>1. clock' >= Lifetime
    BY <1>1, <1>4 DEF Accounted
  <2> QED  BY <1>4, <2>1 DEF Accounted
<1> QED  BY <1>3, <1>4

LEMMA WriteKeeps ==
  ASSUME IntegrityAssumption, IntegrityInv, NEW key \in Keys, Write(key)
  PROVE  IntegrityInv'
<1> DEFINE n == Len(chain)
           v == versions[key] + 1
           new == [version |-> v, index |-> n + 1, expires |-> clock + Lifetime]
<1>1. /\ versions[key] \in Nat /\ v \in Nat /\ v > 0 /\ Lifetime \in Nat /\ clock \in Nat
  BY IntegrityTypes DEF IntegrityAssumption
<1>2. /\ chain' = Appended(key, v) /\ damaged' = damaged /\ clock' = clock
      /\ versions' = [versions EXCEPT ![key] = v] /\ store' = [store EXCEPT ![key] = new]
      /\ history' = [history EXCEPT ![key] = Append(history[key], v)]
  BY DEF Write
<1>3. /\ ChainOK' /\ DOMAIN chain = 1 .. n /\ n \in Nat
      /\ DOMAIN chain' = DOMAIN chain \cup {n + 1}
      /\ \A i \in DOMAIN chain : chain'[i] = chain[i]
      /\ chain'[n + 1].key = key /\ chain'[n + 1].version = v
  BY <1>1, <1>2, AppendKeepsChain DEF IntegrityInv
<1>4. /\ \A i : IsLatest(key, i)' <=> i = n + 1
      /\ \A k, i : k # key => (IsLatest(k, i)' <=> IsLatest(k, i))
  BY <1>3, LatestAfterAppend
<1>5. new \in StoreEntries /\ new # Absent /\ new.version = v /\ new.index = n + 1
      /\ new.expires = clock + Lifetime
  BY <1>1, <1>3 DEF StoreEntries, Absent
<1> HIDE DEF v, new
<1>6. store \in [Keys -> StoreEntries] /\ DOMAIN versions = Keys /\ DOMAIN history = Keys
  BY DEF IntegrityInv, StoreOK
<1>7. Accounted(key)'
  BY <1>1, <1>2, <1>3, <1>4, <1>5, <1>6 DEF Accounted
<1>8. ASSUME NEW k \in Keys, k # key PROVE Accounted(k)'
  <2>1. store'[k] = store[k]
    BY <1>2, <1>6, <1>8
  <2>2. \A i \in DOMAIN chain : chain'[i].version = chain[i].version
    BY <1>3
  <2>3. \A i : IsLatest(k, i)' <=> IsLatest(k, i)
    BY <1>4, <1>8
  <2> QED  BY <1>1, <1>2, <2>1, <2>2, <2>3, OtherKeysStay
<1>9. VersionsOK(history'[key], versions'[key])
  <2> DEFINE kept == history[key]
             more == Append(kept, v)
  <2>1. VersionsOK(kept, versions[key]) /\ history'[key] = more /\ versions'[key] = v
    BY <1>2, <1>6, IntegrityTypes
  <2>2. kept \in Seq(Nat) /\ \A i \in DOMAIN kept : kept[i] < v /\ kept[i] \in Nat
    BY <1>1, <2>1 DEF VersionsOK, v
  <2>3. /\ more \in Seq(Nat) /\ more[Len(kept) + 1] = v
        /\ DOMAIN more = DOMAIN kept \cup {Len(kept) + 1}
        /\ \A i \in DOMAIN kept : more[i] = kept[i]
    <3>1. v \in Nat /\ kept \in Seq(Nat)
      BY <1>1, <2>2
    <3> HIDE DEF kept
    <3> QED  BY <3>1, AppendFacts
  <2> HIDE DEF kept, more
  <2>4. \A i \in DOMAIN more : more[i] <= v
    BY <1>1, <2>2, <2>3
  <2>5. \A i, j \in DOMAIN more : more[i] = more[j] => i = j
    BY <1>1, <2>1, <2>2, <2>3 DEF VersionsOK
  <2> QED  BY <1>1, <2>1, <2>3, <2>4, <2>5 DEF VersionsOK
<1>10. ASSUME NEW k \in Keys, k # key PROVE VersionsOK(history'[k], versions'[k])
  BY <1>2, <1>6, <1>10, IntegrityTypes
<1>11. /\ store' \in [Keys -> StoreEntries] /\ DOMAIN versions' = Keys /\ DOMAIN history' = Keys
  BY <1>2, <1>5, <1>6
<1> QED  BY <1>1, <1>2, <1>3, <1>7, <1>8, <1>9, <1>10, <1>11 DEF IntegrityInv, StoreOK

LEMMA DeleteKeeps ==
  ASSUME IntegrityAssumption, IntegrityInv, NEW key \in Keys, Delete(key)
  PROVE  IntegrityInv'
<1> DEFINE n == Len(chain)
<1>1. /\ chain' = Appended(key, 0) /\ UNCHANGED <<damaged, clock, versions, history>>
      /\ store' = [store EXCEPT ![key] = Absent]
  BY DEF Delete, Forgotten
<1>2. /\ ChainOK' /\ DOMAIN chain = 1 .. n /\ n \in Nat
      /\ DOMAIN chain' = DOMAIN chain \cup {n + 1}
      /\ \A i \in DOMAIN chain : chain'[i] = chain[i]
      /\ chain'[n + 1].key = key /\ chain'[n + 1].version = 0
  BY <1>1, AppendKeepsChain DEF IntegrityInv
<1>3. /\ \A i : IsLatest(key, i)' <=> i = n + 1
      /\ \A k, i : k # key => (IsLatest(k, i)' <=> IsLatest(k, i))
  BY <1>2, LatestAfterAppend
<1>4. store \in [Keys -> StoreEntries] /\ clock \in Nat /\ Absent \in StoreEntries
  BY DEF IntegrityInv, StoreOK, StoreEntries, Absent
<1>5. Accounted(key)'
  BY <1>1, <1>2, <1>3, <1>4 DEF Accounted
<1>6. ASSUME NEW k \in Keys, k # key PROVE Accounted(k)'
  <2>1. store'[k] = store[k]
    BY <1>1, <1>4, <1>6
  <2>2. \A i \in DOMAIN chain : chain'[i].version = chain[i].version
    BY <1>2
  <2>3. \A i : IsLatest(k, i)' <=> IsLatest(k, i)
    BY <1>3, <1>6
  <2> QED  BY <1>1, <1>4, <2>1, <2>2, <2>3, OtherKeysStay
<1>7. store' \in [Keys -> StoreEntries]
  BY <1>1, <1>4
<1> QED  BY <1>1, <1>2, <1>5, <1>6, <1>7 DEF IntegrityInv, StoreOK

\* What leaves the keys and versions of the entries alone.
LEMMA ChainStays ==
  ASSUME IntegrityAssumption, IntegrityInv, ChainOK', UNCHANGED <<versions, history>>,
         DOMAIN chain' = DOMAIN chain, clock' \in Nat, clock <= clock',
         \A j \in DOMAIN chain : /\ chain'[j].key = chain[j].key
                                 /\ chain'[j].version = chain[j].version,
         store' \in [Keys -> StoreEntries],
         \A key \in Keys :
           \/ store'[key] = store[key]
           \/ store'[key] = Absent /\ clock' >= store[key].expires /\ store[key] # Absent
  PROVE  IntegrityInv'
<1>1. \A key, i : IsLatest(key, i)' <=> IsLatest(key, i)
  BY DEF IsLatest
<1>2. ASSUME NEW key \in Keys PROVE Accounted(key)'
  BY <1>1, OtherKeysStay
<1> QED  BY <1>2 DEF IntegrityInv, StoreOK

LEMMA IntegrityStep ==
  IntegrityAssumption /\ IntegrityInv /\ [IntegrityNext]_integrity => IntegrityInv'
<1> SUFFICES ASSUME IntegrityAssumption, IntegrityInv, [IntegrityNext]_integrity
             PROVE  IntegrityInv'
  OBVIOUS
<1>1. clock \in Nat /\ store \in [Keys -> StoreEntries] /\ Absent \in StoreEntries /\ clock <= clock
  BY DEF IntegrityInv, StoreOK, StoreEntries, Absent
<1>2. ASSUME UNCHANGED <<chain, damaged>> PROVE ChainOK'
  BY <1>2 DEF IntegrityInv, ChainOK, PreviousHash
<1>3. ASSUME UNCHANGED <<memory, damaged>>, clock' \in Nat, clock <= clock'
      PROVE  IntegrityInv'
  BY <1>1, <1>2, <1>3, ChainStays DEF memory
<1>4. CASE UNCHANGED integrity \/ SnapshotRegistry \/ \E t \in Tools, s \in 0 .. 2 : ChangeTool(t, s)
  BY <1>1, <1>3, <1>4 DEF integrity, SnapshotRegistry, ChangeTool
<1>5. CASE ClockTick
  BY <1>1, <1>3, <1>5 DEF ClockTick
<1>6. CASE ExpireStale
  <2>1. /\ UNCHANGED <<chain, damaged, versions, history, clock>>
        /\ store' = [key \in Keys |-> IF IsExpired(key) THEN Absent ELSE store[key]]
    BY <1>6 DEF ExpireStale
  <2>2. store' \in [Keys -> StoreEntries]
    BY <1>1, <2>1
  <2>3. \A key \in Keys :
          \/ store'[key] = store[key]
          \/ store'[key] = Absent /\ clock' >= store[key].expires /\ store[key] # Absent
    BY <2>1 DEF IsExpired
  <2> QED  BY <1>1, <1>2, <2>1, <2>2, <2>3, ChainStays
<1>7. ASSUME NEW i, NEW field \in {"data", "previous", "hash"}, Corrupt(i, field)
      PROVE  IntegrityInv'
  <2>1. /\ ChainOK' /\ DOMAIN chain' = DOMAIN chain
        /\ \A j \in DOMAIN chain : /\ chain'[j].key = chain[j].key
                                   /\ chain'[j].version = chain[j].version
    BY <1>7, CorruptKeepsChain DEF IntegrityInv
  <2>2. UNCHANGED <<store, versions, history, clock>>
    BY <1>7 DEF Corrupt
  <2> QED  BY <1>1, <2>1, <2>2, ChainStays
<1> QED  BY <1>4, <1>5, <1>6, <1>7, WriteKeeps, DeleteKeeps DEF IntegrityNext

LEMMA IntegrityStarts == IntegrityAssumption /\ IntegrityInit => IntegrityInv
<1> SUFFICES ASSUME IntegrityAssumption, IntegrityInit PROVE IntegrityInv
  OBVIOUS
<1>1. chain = << >> /\ damaged = {} /\ clock = 0
  BY DEF IntegrityInit
<1>2. ChainOK
  BY <1>1 DEF ChainOK
<1>3. ASSUME NEW key \in Keys PROVE Accounted(key) /\ VersionsOK(history[key], versions[key])
  BY <1>1 DEF IntegrityInit, Accounted, VersionsOK
<1>4. store \in [Keys -> StoreEntries]
  BY DEF IntegrityInit, StoreEntries, Absent
<1> QED  BY <1>1, <1>2, <1>3, <1>4 DEF IntegrityInit, IntegrityInv, StoreOK

LEMMA IntegrityImplies == IntegrityInv => ChainAccounts
<1> SUFFICES ASSUME IntegrityInv PROVE ChainAccounts
  OBVIOUS
<1>1. /\ damaged = {} => FirstTampered = 0
      /\ damaged # {} => /\ FirstTampered \in damaged /\ FirstTampered # 0
                         /\ \A i \in damaged : FirstTampered <= i
  BY TamperingIsFound DEF IntegrityInv
<1>2. ASSUME NEW key \in Keys
      PROVE  LET about == {i \in DOMAIN chain : chain[i].key = key}
                 latest == {i \in about : \A j \in about : j <= i}
             IN /\ store[key] # Absent =>
                     latest = {store[key].index}
                       /\ \A i \in latest : chain[i].version = store[key].version
                /\ store[key] = Absent =>
                     \A i \in latest : chain[i].version # 0 => clock >= Lifetime
                /\ \A i, j \in DOMAIN history[key] :
                     history[key][i] = history[key][j] => i = j
                /\ damaged # {} => ReadVerified(key) = 0
  <2> DEFINE about == {i \in DOMAIN chain : chain[i].key = key}
             latest == {i \in about : \A j \in about : j <= i}
  <2>1. \A i : i \in latest <=> IsLatest(key, i)
    BY DEF IsLatest
  <2>2. \A i, j : IsLatest(key, i) /\ IsLatest(key, j) => i = j
    BY DEF IsLatest, IntegrityInv, ChainOK
  <2>3. Accounted(key) /\ VersionsOK(history[key], versions[key])
    BY <1>2, IntegrityTypes
  <2> HIDE DEF latest
  <2>4. /\ store[key] # Absent =>
             latest = {store[key].index}
               /\ \A i \in latest : chain[i].version = store[key].version
        /\ store[key] = Absent =>
             \A i \in latest : chain[i].version # 0 => clock >= Lifetime
    BY <2>1, <2>2, <2>3 DEF Accounted, IsLatest
  <2>5. /\ \A i, j \in DOMAIN history[key] : history[key][i] = history[key][j] => i = j
        /\ damaged # {} => ReadVerified(key) = 0
    BY <1>1, <2>3 DEF VersionsOK, ReadVerified
  <2> QED  BY <2>4, <2>5 DEF latest
<1>3. IF damaged = {} THEN Audit.index = 0
      ELSE ~Audit.passed /\ Audit.index \in damaged /\ \A i \in damaged : Audit.index <= i
  BY <1>1 DEF Audit
<1>4. Audit.passed => Audit.diff = {}
  BY DEF Audit, Diff
<1> QED  BY <1>2, <1>3, <1>4 DEF ChainAccounts

(***************************************************************************)
(* The chain accounts for every key of the store, no version is given      *)
(* twice, and damage to any number of entries is found, the first of them  *)
(* by name, whatever is written, deleted or expires before and after it.   *)
(***************************************************************************)
THEOREM ChainIsAccountable ==
  ASSUME IntegrityAssumption PROVE IntegritySpec => []ChainAccounts
<1>1. IntegrityInit => IntegrityInv
  BY IntegrityStarts
<1>2. IntegrityInv /\ [IntegrityNext]_integrity => IntegrityInv'
  BY IntegrityStep
<1> QED  BY <1>1, <1>2, IntegrityImplies, PTL DEF IntegritySpec

-----------------------------------------------------------------------------
(* Hardware: jobs start in order, the actuator stays between its ends.      *)

JobStates == [status : {"QUEUED", "RUNNING", "COMPLETED"}, needed : Nat, run : Nat]

\* How far a job has come, and what its status says.
JobFits(job) ==
  /\ job.run <= job.needed /\ job.needed > 0
  /\ job.status = "QUEUED" => job.run = 0
  /\ (job.status = "COMPLETED") = (job.run = job.needed)

JobsOK ==
  /\ jobs \in Seq(JobStates)
  /\ \A i \in DOMAIN jobs : JobFits(jobs[i])
  /\ \A i, j \in DOMAIN jobs :
       i < j /\ jobs[i].status = "QUEUED" => jobs[j].status = "QUEUED"

MotionOK ==
  /\ position \in 0 .. MaxPosition /\ target \in 0 .. MaxPosition /\ moving \in BOOLEAN
  /\ ~moving => position = target

HardwareInv == JobsOK /\ MotionOK

\* The jobs that start come before those that go on waiting.
LEMMA FirstIsDownward ==
  ASSUME NEW queued, IsFiniteSet(queued), queued \subseteq Nat,
         NEW i \in queued, NEW j \in First(queued), i < j
  PROVE  i \in First(queued)
<1> DEFINE before(k) == {m \in queued : m < k}
<1>1. j \in queued /\ before(i) \subseteq before(j)
  <2>1. j \in queued
    BY DEF First
  <2>2. i \in Nat /\ j \in Nat
    BY <2>1
  <2>3. ASSUME NEW m \in queued, m < i PROVE m < j
    BY <2>2, <2>3
  <2>4. before(i) \subseteq before(j)
    BY <2>3, Zenon
  <2> QED  BY <2>1, <2>4
<1>2. IsFiniteSet(before(j)) /\ IsFiniteSet(before(i))
  BY FS_Subset
<1>3. /\ Cardinality(before(i)) \in Nat /\ Cardinality(before(j)) \in Nat
      /\ Cardinality(before(i)) <= Cardinality(before(j))
  BY <1>1, <1>2, FS_Subset, FS_CardinalityType
<1>4. Cardinality(before(j)) < 2
  BY DEF First
<1> HIDE DEF before
<1>5. Cardinality(before(i)) < 2
  BY <1>3, <1>4
<1> QED  BY <1>5 DEF First, before

\* What reading the device makes of one job.
LEMMA JobGoesOn ==
  ASSUME NEW job \in JobStates, JobFits(job), NEW next,
         \/ next = job
         \/ job.status = "QUEUED" /\ next = [job EXCEPT !.status = "RUNNING"]
         \/ /\ job.status = "RUNNING"
            /\ next = [job EXCEPT !.run = @ + 1,
                         !.status = IF job.run + 1 >= job.needed THEN "COMPLETED" ELSE @]
  PROVE  next \in JobStates /\ JobFits(next)
<1>0. job = [status |-> job.status, needed |-> job.needed, run |-> job.run]
  BY DEF JobStates
<1>1. job.run \in Nat /\ job.needed \in Nat
  BY DEF JobStates
<1>2. CASE job.status = "QUEUED" /\ next = [job EXCEPT !.status = "RUNNING"]
  <2>1. next \in JobStates /\ next.status = "RUNNING" /\ next.run = job.run /\ next.needed = job.needed
    BY <1>2 DEF JobStates
  <2> QED  BY <1>1, <1>2, <2>1 DEF JobFits
<1>3. CASE /\ job.status = "RUNNING"
           /\ next = [job EXCEPT !.run = @ + 1,
                        !.status = IF job.run + 1 >= job.needed THEN "COMPLETED" ELSE @]
  <2>1. job.run # job.needed
    BY <1>3 DEF JobFits
  <2>2. CASE job.run + 1 >= job.needed
    <3>1. next = [status |-> "COMPLETED", needed |-> job.needed, run |-> job.run + 1]
      BY <1>0, <1>3, <2>2
    <3>2. /\ next.status = "COMPLETED" /\ next.run = job.run + 1
          /\ next.needed = job.needed /\ next \in JobStates
      BY <1>1, <3>1 DEF JobStates
    <3> QED  BY <1>1, <2>1, <2>2, <3>2 DEF JobFits
  <2>3. CASE ~(job.run + 1 >= job.needed)
    <3>1. next = [status |-> "RUNNING", needed |-> job.needed, run |-> job.run + 1]
      BY <1>0, <1>3, <2>3
    <3>2. /\ next \in JobStates /\ next.status = "RUNNING" /\ next.run = job.run + 1
          /\ next.needed = job.needed
      BY <1>1, <3>1 DEF JobStates
    <3> QED  BY <1>1, <2>1, <2>3, <3>2 DEF JobFits
  <2> QED  BY <2>2, <2>3
<1> QED  BY <1>2, <1>3

LEMMA ReadKeepsJobs ==
  ASSUME JobsOK, ReadCompute
  PROVE  JobsOK'
<1> DEFINE queued == Indices("QUEUED")
           advanced(job) == [job EXCEPT !.run = @ + 1,
             !.status = IF job.run + 1 >= job.needed THEN "COMPLETED" ELSE @]
<1>1. jobs \in Seq(JobStates) /\ DOMAIN jobs = 1 .. Len(jobs) /\ Len(jobs) \in Nat
  BY DEF JobsOK
<1>2. queued \subseteq Nat /\ IsFiniteSet(queued)
  <2>1. IsFiniteSet(1 .. Len(jobs)) /\ queued \subseteq 1 .. Len(jobs)
    BY <1>1, FS_Interval DEF Indices
  <2> QED  BY <2>1, FS_Subset
<1>3. /\ DOMAIN jobs' = DOMAIN jobs
      /\ jobs' = [i \in 1 .. Len(jobs) |-> jobs'[i]]
      /\ \A i \in DOMAIN jobs :
           jobs'[i] = IF i \in Indices("RUNNING") THEN advanced(jobs[i])
                      ELSE IF i \in First(queued) THEN [jobs[i] EXCEPT !.status = "RUNNING"]
                      ELSE jobs[i]
  BY <1>1, Zenon DEF ReadCompute
<1>4. \A i \in DOMAIN jobs : jobs'[i] \in JobStates /\ JobFits(jobs'[i])
  <2> SUFFICES ASSUME NEW i \in DOMAIN jobs PROVE jobs'[i] \in JobStates /\ JobFits(jobs'[i])
    OBVIOUS
  <2>1. jobs[i] \in JobStates /\ JobFits(jobs[i])
    BY <1>1 DEF JobsOK
  <2>2. i \in Indices("RUNNING") => jobs[i].status = "RUNNING"
    BY DEF Indices
  <2>3. i \in First(queued) => jobs[i].status = "QUEUED"
    BY DEF First, Indices
  <2>4. \/ jobs'[i] = jobs[i]
        \/ jobs[i].status = "QUEUED" /\ jobs'[i] = [jobs[i] EXCEPT !.status = "RUNNING"]
        \/ jobs[i].status = "RUNNING" /\ jobs'[i] = advanced(jobs[i])
    BY <1>3, <2>2, <2>3, Zenon
  <2> QED  BY <2>1, <2>4, JobGoesOn
<1>5. jobs' \in Seq(JobStates)
  <2> DEFINE n == Len(jobs)
  <2>1. jobs' \in [1 .. n -> JobStates] /\ n \in Nat
    BY <1>1, <1>3, <1>4
  <2> HIDE DEF n
  <2> QED  BY <2>1
<1>6. \A i \in DOMAIN jobs : /\ jobs'[i].status = "QUEUED" => i \in queued \ First(queued)
                             /\ i \in queued \ First(queued) => jobs'[i].status = "QUEUED"
  <2> SUFFICES ASSUME NEW i \in DOMAIN jobs
               PROVE  /\ jobs'[i].status = "QUEUED" => i \in queued \ First(queued)
                      /\ i \in queued \ First(queued) => jobs'[i].status = "QUEUED"
    OBVIOUS
  <2>1. jobs[i] \in JobStates
    BY <1>1
  <2>2. CASE i \in Indices("RUNNING")
    <3>1. jobs'[i] = advanced(jobs[i]) /\ jobs[i].status = "RUNNING"
      BY <1>3, <2>2, Zenon DEF Indices
    <3>2. jobs'[i].status # "QUEUED" /\ i \notin queued
      BY <2>1, <3>1 DEF JobStates, Indices
    <3> QED  BY <3>2
  <2>3. CASE i \notin Indices("RUNNING") /\ i \in First(queued)
    BY <1>3, <2>1, <2>3 DEF JobStates
  <2>4. CASE i \notin Indices("RUNNING") /\ i \notin First(queued)
    BY <1>3, <2>4 DEF Indices
  <2> QED  BY <2>2, <2>3, <2>4
<1>7. ASSUME NEW i \in DOMAIN jobs, NEW j \in DOMAIN jobs, i < j, jobs'[i].status = "QUEUED"
      PROVE  jobs'[j].status = "QUEUED"
  <2>1. i \in queued \ First(queued)
    BY <1>6, <1>7
  <2>2. j \in queued
    BY <1>7, <2>1 DEF JobsOK, Indices
  <2>3. j \notin First(queued)
    BY <1>2, <1>7, <2>1, FirstIsDownward
  <2> QED  BY <1>6, <2>2, <2>3
<1> QED  BY <1>3, <1>4, <1>5, <1>7 DEF JobsOK

LEMMA SubmitKeepsJobs ==
  ASSUME JobsOK, NEW ticks \in 1 .. MaxTicks, SubmitJob(ticks)
  PROVE  JobsOK'
<1> DEFINE new == [status |-> "QUEUED", needed |-> ticks, run |-> 0]
<1>1. /\ jobs' = Append(jobs, new) /\ jobs \in Seq(JobStates)
      /\ new \in JobStates /\ JobFits(new) /\ new.status = "QUEUED"
  BY DEF SubmitJob, JobsOK, JobStates, JobFits
<1> HIDE DEF new
<1>2. /\ jobs' \in Seq(JobStates) /\ DOMAIN jobs' = DOMAIN jobs \cup {Len(jobs) + 1}
      /\ jobs'[Len(jobs) + 1] = new /\ DOMAIN jobs = 1 .. Len(jobs) /\ Len(jobs) \in Nat
      /\ \A i \in DOMAIN jobs : jobs'[i] = jobs[i]
  BY <1>1, AppendFacts
<1>3. \A i \in DOMAIN jobs' : JobFits(jobs'[i])
  BY <1>1, <1>2 DEF JobsOK
<1>4. ASSUME NEW i \in DOMAIN jobs', NEW j \in DOMAIN jobs', i < j, jobs'[i].status = "QUEUED"
      PROVE  jobs'[j].status = "QUEUED"
  <2>1. i \in DOMAIN jobs
    BY <1>2, <1>4
  <2>2. CASE j \in DOMAIN jobs
    BY <1>2, <1>4, <2>1, <2>2 DEF JobsOK
  <2>3. CASE j \notin DOMAIN jobs
    BY <1>1, <1>2, <2>3
  <2> QED  BY <2>2, <2>3
<1> QED  BY <1>2, <1>3, <1>4 DEF JobsOK

LEMMA ActuatorKeepsMotion ==
  ASSUME HardwareAssumption, MotionOK,
         ReadActuator \/ Stop \/ \E p \in 0 .. MaxPosition + 1 : MoveTo(p)
  PROVE  MotionOK'
<1>1. MaxPosition \in Nat /\ Speed \in Nat
  BY DEF HardwareAssumption
<1>2. CASE ReadActuator
  <2>1. CASE UNCHANGED motion
    BY <2>1 DEF motion, MotionOK
  <2>2. CASE /\ position' = IF target > position
                           THEN IF position + Speed > target THEN target ELSE position + Speed
                           ELSE IF position < target + Speed THEN target ELSE position - Speed
             /\ moving' = (position' # target) /\ target' = target
    <3>1. position \in 0 .. MaxPosition /\ target \in 0 .. MaxPosition
      BY DEF MotionOK
    <3>2. position' \in 0 .. MaxPosition
      BY <1>1, <2>2, <3>1
    <3>3. moving' \in BOOLEAN /\ (~moving' => position' = target')
      BY <2>2, Zenon
    <3> QED  BY <2>2, <3>1, <3>2, <3>3 DEF MotionOK
  <2> QED  BY <1>2, <2>1, <2>2 DEF ReadActuator
<1>3. CASE Stop
  BY <1>1, <1>3 DEF Stop, MotionOK
<1>4. ASSUME NEW p \in 0 .. MaxPosition + 1, MoveTo(p) PROVE MotionOK'
  BY <1>1, <1>4 DEF MoveTo, MotionOK
<1> QED  BY <1>2, <1>3, <1>4

LEMMA HardwareStarts == HardwareAssumption /\ HardwareInit => HardwareInv
<1> SUFFICES ASSUME HardwareAssumption, HardwareInit PROVE HardwareInv
  OBVIOUS
<1>1. 0 \in 0 .. MaxPosition
  BY DEF HardwareAssumption
<1>2. MotionOK
  BY <1>1, Zenon DEF HardwareInit, MotionOK
<1>3. JobsOK
  BY DEF HardwareInit, JobsOK
<1> QED  BY <1>2, <1>3 DEF HardwareInv

LEMMA HardwareStep == HardwareAssumption /\ HardwareInv /\ [HardwareNext]_hardware => HardwareInv'
<1> SUFFICES ASSUME HardwareAssumption, HardwareInv, [HardwareNext]_hardware PROVE HardwareInv'
  OBVIOUS
<1>1. MaxPosition \in Nat
  BY DEF HardwareAssumption
<1>2. ASSUME UNCHANGED jobs PROVE JobsOK'
  BY <1>2 DEF HardwareInv, JobsOK
<1>3. ASSUME UNCHANGED motion PROVE MotionOK'
  BY <1>3 DEF HardwareInv, MotionOK, motion
<1>4. ASSUME NEW ds, Restarted(ds) PROVE HardwareInv'
  <2>1. jobs' = << >> \/ UNCHANGED jobs
    BY <1>4 DEF Restarted
  <2>2. jobs' = << >> => JobsOK'
    BY DEF JobsOK
  <2>3. (position' = 0 /\ target' = 0 /\ moving' = FALSE) \/ UNCHANGED motion
    BY <1>4 DEF Restarted
  <2>4. position' = 0 /\ target' = 0 /\ moving' = FALSE => MotionOK'
    <3>1. 0 \in 0 .. MaxPosition
      BY <1>1
    <3> QED  BY <3>1, Zenon DEF MotionOK
  <2> QED  BY <1>2, <1>3, <2>1, <2>2, <2>3, <2>4 DEF HardwareInv
<1>5. CASE UNCHANGED hardware
  BY <1>2, <1>3, <1>5 DEF hardware, HardwareInv
<1>6. CASE Scan
  BY <1>4, <1>6 DEF Scan
<1>7. CASE Compute
  <2>1. CASE ReadCompute
    BY <1>3, <2>1, ReadKeepsJobs DEF ReadCompute, HardwareInv
  <2>2. ASSUME NEW ticks \in 1 .. MaxTicks, SubmitJob(ticks) PROVE HardwareInv'
    BY <1>3, <2>2, SubmitKeepsJobs DEF SubmitJob, HardwareInv
  <2> QED  BY <1>7, <2>1, <2>2 DEF Compute, Drive
<1>8. CASE Actuator
  <2>1. ReadActuator \/ Stop \/ \E p \in 0 .. MaxPosition + 1 : MoveTo(p)
    BY <1>8 DEF Actuator, Drive
  <2>2. UNCHANGED jobs
    BY <2>1 DEF ReadActuator, Stop, MoveTo
  <2> QED  BY <1>2, <2>1, <2>2, ActuatorKeepsMotion DEF HardwareInv
<1>9. ASSUME NEW d \in Devices, RegisterDevice(d) \/ UnregisterDevice(d) \/ Fault(d)
      PROVE  HardwareInv'
  <2>1. Restarted({d}) \/ UNCHANGED <<jobs, motion>>
    BY <1>9 DEF RegisterDevice, UnregisterDevice, Fault
  <2> QED  BY <1>2, <1>3, <1>4, <2>1 DEF HardwareInv
<1> QED  BY <1>5, <1>6, <1>7, <1>8, <1>9 DEF HardwareNext

LEMMA HardwareImplies == HardwareInv => DevicesKeepOrder
BY DEF HardwareInv, JobsOK, MotionOK, DevicesKeepOrder, JobFits

(***************************************************************************)
(* Jobs start in the order they came and are done after their ticks, and   *)
(* the actuator stays between its ends and rests where it was sent, for    *)
(* every number of jobs and ticks, every range and every speed, whatever   *)
(* faults, scans and registrations come between.                           *)
(***************************************************************************)
THEOREM DevicesAreOrderly ==
  ASSUME HardwareAssumption PROVE HardwareSpec => []DevicesKeepOrder
<1>1. HardwareInit => HardwareInv
  BY HardwareStarts
<1>2. HardwareInv /\ [HardwareNext]_hardware => HardwareInv'
  BY HardwareStep
<1> QED  BY <1>1, <1>2, HardwareImplies, PTL DEF HardwareSpec

-----------------------------------------------------------------------------
(* Evolution                                                                *)

\* The rank of an element of a finite set in a total order R.
RankIn(T, R, i) == Cardinality({j \in T : <<j, i>> \in R})

Orders(R, T) ==
  /\ \A i, j \in T : <<i, j>> \in R \/ <<j, i>> \in R
  /\ \A i, j \in T : <<i, j>> \in R /\ <<j, i>> \in R => i = j
  /\ \A i, j, k \in T : <<i, j>> \in R /\ <<j, k>> \in R => <<i, k>> \in R

\* Ranks differ as the order has it, so each is taken.
LEMMA RankFacts ==
  ASSUME NEW T, IsFiniteSet(T), NEW R, Orders(R, T)
  PROVE  /\ \A i \in T : RankIn(T, R, i) \in 1 .. Cardinality(T)
         /\ \A i, j \in T : RankIn(T, R, i) <= RankIn(T, R, j) => <<i, j>> \in R
         /\ \A k \in 1 .. Cardinality(T) : \E i \in T : RankIn(T, R, i) = k
<1> DEFINE upTo(i) == {j \in T : <<j, i>> \in R}
           n == Cardinality(T)
           place(i) == RankIn(T, R, i)
           rank == [i \in T |-> place(i)]
<1> USE DEF Orders
<1>1. n \in Nat
  BY FS_CardinalityType
<1>2. ASSUME NEW i \in T
      PROVE  IsFiniteSet(upTo(i)) /\ Cardinality(upTo(i)) \in 1 .. n
  <2>1. upTo(i) \in SUBSET T /\ i \in upTo(i)
    OBVIOUS
  <2>2. IsFiniteSet(upTo(i)) /\ Cardinality(upTo(i)) <= n
    BY <2>1, FS_Subset
  <2>3. Cardinality(upTo(i)) \in Nat /\ Cardinality(upTo(i)) # 0
    BY <2>1, <2>2, FS_CardinalityType, FS_EmptySet
  <2> QED  BY <1>1, <2>2, <2>3
<1>3. ASSUME NEW i \in T, NEW j \in T, <<i, j>> \notin R
      PROVE  Cardinality(upTo(j)) < Cardinality(upTo(i))
  <2>1. <<j, i>> \in R /\ upTo(j) \in SUBSET upTo(i)
    BY <1>3
  <2>2. i \in upTo(i) /\ i \notin upTo(j)
    BY <1>3
  <2>3. IsFiniteSet(upTo(i)) /\ Cardinality(upTo(i)) \in Nat /\ Cardinality(upTo(j)) \in Nat
    BY <1>1, <1>2
  <2> DEFINE a == upTo(j)
             b == upTo(i)
  <2>4. a \in SUBSET b /\ a # b /\ IsFiniteSet(b)
    BY <2>1, <2>2, <2>3
  <2> HIDE DEF a, b
  <2>5. Cardinality(a) <= Cardinality(b) /\ Cardinality(a) # Cardinality(b)
    BY <2>4, FS_Subset
  <2> QED  BY <2>3, <2>5 DEF a, b
<1>4. \A i \in T : place(i) = Cardinality(upTo(i))
  BY DEF RankIn
<1> HIDE DEF upTo, place, n
<1>5. \A i \in T : place(i) \in 1 .. n
  BY <1>2, <1>4
<1>6. \A i, j \in T : place(i) <= place(j) => <<i, j>> \in R
  <2> SUFFICES ASSUME NEW i \in T, NEW j \in T, <<i, j>> \notin R
               PROVE  ~ (place(i) <= place(j))
    OBVIOUS
  <2>1. place(j) < place(i) /\ place(i) \in Nat /\ place(j) \in Nat
    BY <1>1, <1>3, <1>4, <1>5
  <2> QED  BY <2>1
<1>7. \A i, j \in T : place(i) = place(j) => i = j
  <2> SUFFICES ASSUME NEW i \in T, NEW j \in T, place(i) = place(j)
               PROVE  i = j
    OBVIOUS
  <2>1. place(i) <= place(j) /\ place(j) <= place(i)
    BY <1>1, <1>5
  <2> QED  BY <1>6, <2>1
<1>8. rank \in [T -> 1 .. n] /\ \A i, j \in T : rank[i] = rank[j] => i = j
  BY <1>5, <1>7
<1>9. rank \in Injection(T, 1 .. n)
  BY <1>8 DEF Injection, IsInjective
<1>10. IsFiniteSet(1 .. n) /\ Cardinality(1 .. n) = n
  BY <1>1, FS_Interval
<1> HIDE DEF rank
<1>11. rank \in Surjection(T, 1 .. n)
  BY <1>9, <1>10, FS_Injection DEF n
<1>12. \A k \in 1 .. n : \E i \in T : rank[i] = k
  BY <1>11 DEF Surjection
<1>13. \A k \in 1 .. n : \E i \in T : place(i) = k
  BY <1>12 DEF rank
<1> QED  BY <1>5, <1>6, <1>13 DEF n, place

Genomes == [id : Nat, source : Sources, fitness : Int, gen : Int]

\* Sorting permutes, and what comes earlier is no less fit.
LEMMA RankedFacts ==
  ASSUME NEW q \in Seq(Genomes)
  PROVE  /\ Ranked(q) \in Seq(Genomes) /\ Len(Ranked(q)) = Len(q)
         /\ \A k \in 1 .. Len(q) : \E i \in 1 .. Len(q) : Ranked(q)[k] = q[i]
         /\ \A i \in 1 .. Len(q) : \E k \in 1 .. Len(q) : Ranked(q)[k] = q[i]
         /\ \A k, l \in 1 .. Len(q) : k <= l => Ranked(q)[k].fitness >= Ranked(q)[l].fitness
         /\ (\A i, j \in 1 .. Len(q) : q[i] = q[j] => i = j)
              => \A k, l \in 1 .. Len(q) : Ranked(q)[k] = Ranked(q)[l] => k = l
<1> DEFINE T == DOMAIN q
           Before(j, i) == \/ q[j].fitness > q[i].fitness
                           \/ q[j].fitness = q[i].fitness /\ j <= i
           R == {p \in T \X T : Before(p[1], p[2])}
           at(k) == CHOOSE i \in T : Cardinality({j \in T : Before(j, i)}) = k
<1>1. /\ T = 1 .. Len(q) /\ Len(q) \in Nat
      /\ \A i \in T : i \in Nat /\ q[i] \in Genomes /\ q[i].fitness \in Int
  <2>1. T = 1 .. Len(q) /\ Len(q) \in Nat /\ \A i \in T : i \in Nat /\ q[i] \in Genomes
    OBVIOUS
  <2>2. \A g \in Genomes : g.fitness \in Int
    BY DEF Genomes
  <2> QED  BY <2>1, <2>2
<1>2. IsFiniteSet(T) /\ Cardinality(T) = Len(q)
  BY <1>1, FS_Interval
<1>3. \A i, j \in T : <<i, j>> \in R <=> Before(i, j)
  OBVIOUS
<1>4. \A i \in T : RankIn(T, R, i) = Cardinality({j \in T : Before(j, i)})
  <2> TAKE i \in T
  <2>1. {j \in T : <<j, i>> \in R} = {j \in T : Before(j, i)}
    BY <1>3
  <2> QED  BY <2>1 DEF RankIn
<1>5. Ranked(q) = [k \in T |-> q[at(k)]]
  BY DEF Ranked
<1> HIDE DEF R, T, at
<1>6. Orders(R, T)
  <2>1. \A i, j \in T : Before(i, j) \/ Before(j, i)
    BY <1>1
  <2>2. \A i, j \in T : Before(i, j) /\ Before(j, i) => i = j
    BY <1>1
  <2>3. \A i, j, k \in T : Before(i, j) /\ Before(j, k) => Before(i, k)
    BY <1>1
  <2> HIDE DEF Before
  <2> QED  BY <1>3, <2>1, <2>2, <2>3 DEF Orders
<1>7. /\ \A i \in T : RankIn(T, R, i) \in 1 .. Cardinality(T)
      /\ \A i, j \in T : RankIn(T, R, i) <= RankIn(T, R, j) => <<i, j>> \in R
      /\ \A k \in 1 .. Cardinality(T) : \E i \in T : RankIn(T, R, i) = k
  BY <1>2, <1>6, RankFacts
<1>8. \A k \in T : at(k) \in T /\ RankIn(T, R, at(k)) = k
  <2> SUFFICES ASSUME NEW k \in T PROVE at(k) \in T /\ RankIn(T, R, at(k)) = k
    OBVIOUS
  <2>1. k \in 1 .. Cardinality(T)
    BY <1>1, <1>2
  <2>2. PICK i \in T : RankIn(T, R, i) = k
    BY <1>7, <2>1
  <2>3. at(k) \in T /\ Cardinality({j \in T : Before(j, at(k))}) = k
    <3> HIDE DEF Before
    <3>1. Cardinality({j \in T : Before(j, i)}) = k
      BY <1>4, <2>2
    <3> QED  BY <3>1 DEF at
  <2> QED  BY <1>4, <2>3
<1>9. ASSUME NEW i \in T PROVE RankIn(T, R, i) \in T /\ at(RankIn(T, R, i)) = i
  <2> DEFINE r == RankIn(T, R, i)
  <2>1. r \in T /\ r \in Nat
    BY <1>1, <1>2, <1>7
  <2>2. at(r) \in T /\ RankIn(T, R, at(r)) = RankIn(T, R, i)
    BY <1>8, <2>1
  <2>3. <<i, at(r)>> \in R /\ <<at(r), i>> \in R
    BY <1>7, <2>1, <2>2
  <2>4. at(r) = i
    BY <1>6, <2>2, <2>3 DEF Orders
  <2> QED  BY <2>1, <2>4
<1>10. ASSUME NEW k \in T, NEW l \in T, k <= l
       PROVE  q[at(k)].fitness >= q[at(l)].fitness
  <2>1. at(k) \in T /\ at(l) \in T /\ <<at(k), at(l)>> \in R
    BY <1>7, <1>8, <1>10
  <2>2. Before(at(k), at(l))
    BY <1>3, <2>1
  <2>3. q[at(k)].fitness \in Int /\ q[at(l)].fitness \in Int
    BY <1>1, <2>1
  <2> QED  BY <2>2, <2>3
<1>11. \A k \in T : q[at(k)] \in Genomes
  BY <1>1, <1>8
<1>12. Ranked(q) = [k \in 1 .. Len(q) |-> q[at(k)]]
  BY <1>1, <1>5
<1>13. Ranked(q) \in Seq(Genomes) /\ Len(Ranked(q)) = Len(q)
  BY <1>1, <1>11, <1>12
<1>14. \A k \in T : Ranked(q)[k] = q[at(k)]
  BY <1>5
<1> HIDE DEF Before
<1>15. \A k \in T : \E i \in T : Ranked(q)[k] = q[i]
  BY <1>8, <1>14
<1>16. \A i \in T : \E k \in T : Ranked(q)[k] = q[i]
  BY <1>9, <1>14
<1>17. \A k, l \in T : k <= l => Ranked(q)[k].fitness >= Ranked(q)[l].fitness
  BY <1>10, <1>14
<1>18. (\A i, j \in T : q[i] = q[j] => i = j)
         => \A k, l \in T : Ranked(q)[k] = Ranked(q)[l] => k = l
  <2> SUFFICES ASSUME \A i, j \in T : q[i] = q[j] => i = j,
                      NEW k \in T, NEW l \in T, q[at(k)] = q[at(l)]
               PROVE  k = l
    BY <1>14
  <2>1. at(k) = at(l)
    BY <1>8
  <2> QED  BY <1>8, <2>1
<1> QED  BY <1>1, <1>13, <1>15, <1>16, <1>17, <1>18

PoolOK ==
  /\ genomes \in Seq(Genomes) /\ born \in Nat /\ generation \in Nat
  /\ Len(genomes) <= MaxPopulation
  /\ \A i \in DOMAIN genomes : genomes[i].id <= born
  /\ \A i, j \in DOMAIN genomes : genomes[i].id = genomes[j].id => i = j

RegistryOK == DOMAIN registry = {ClassOf[s] : s \in Sources}
              /\ \A class \in DOMAIN registry : registry[class] \in Seq(Sources)

EvolutionInv == PoolOK /\ RegistryOK

LEMMA Percentage ==
  ASSUME NEW n \in Nat, NEW e \in 0 .. 100
  PROVE  (n * e) \div 100 \in 0 .. n
<1>1. n * e \in Nat /\ n * (100 - e) \in Nat
  OBVIOUS
<1>2. n * e + n * (100 - e) = n * 100
  OBVIOUS
<1>3. \A p \in Nat : p <= n * 100 => p \div 100 \in 0 .. n
  OBVIOUS
<1> QED  BY <1>1, <1>2, <1>3

LEMMA EvolutionStarts == ASSUME EvolutionAssumption, EvolutionInit PROVE EvolutionInv
BY DEF EvolutionAssumption, EvolutionInit, EvolutionInv, PoolOK, RegistryOK

LEMMA NewGenomeFacts ==
  ASSUME EvolutionAssumption, NEW id \in Nat, NEW s \in Sources, NEW gen \in Int
  PROVE  /\ NewGenome(id, s, gen) \in Genomes /\ NewGenome(id, s, gen).id = id
         /\ NewGenome(id, s, gen).source = s
BY DEF EvolutionAssumption, NewGenome, Genomes

\* What one step may do to the pool.
PoolStep ==
  /\ Len(genomes') <= MaxPopulation
  /\ \A i, j \in DOMAIN genomes :
       genomes[i].id \notin Ids(genomes') /\ genomes[j].id \in Ids(genomes')
         => genomes[j].fitness >= genomes[i].fitness
  /\ generation' # generation =>
       /\ genomes # << >> => Ids(genomes) \cap Ids(genomes') # {}
       /\ \A i \in DOMAIN genomes' :
            \E j \in DOMAIN genomes : /\ genomes[j].source = genomes'[i].source
                                      /\ genomes[j].id \in Ids(genomes')

\* The first n of the pool by fitness stay, with m new genomes behind them.
Renewed(n, m, fresh) ==
  /\ fresh \in [1 .. m -> Genomes]
  /\ \A i \in 1 .. m : fresh[i].id = born + i
  /\ n + m <= MaxPopulation /\ born' = born + m /\ generation' \in Nat
  /\ genomes' = SubSeq(Ranked(genomes), 1, n) \o fresh

\* The fittest of the pool, with fresh genomes behind them.
LEMMA FittestStay ==
  ASSUME EvolutionAssumption, PoolOK, NEW n \in 0 .. Len(genomes), NEW m \in Nat,
         NEW fresh, Renewed(n, m, fresh)
  PROVE  /\ PoolOK' /\ Len(genomes') <= MaxPopulation
         /\ \A i, j \in DOMAIN genomes :
              genomes[i].id \notin Ids(genomes') /\ genomes[j].id \in Ids(genomes')
                => genomes[j].fitness >= genomes[i].fitness
         /\ \A k \in 1 .. n :
              /\ genomes'[k] = Ranked(genomes)[k] /\ genomes'[k].id \in Ids(genomes')
              /\ \E i \in DOMAIN genomes : genomes[i] = genomes'[k]
         /\ \A k \in 1 .. m : genomes'[n + k] = fresh[k]
         /\ DOMAIN genomes' = 1 .. n + m
<1> DEFINE q == genomes
           R == Ranked(genomes)
<1>1. /\ q \in Seq(Genomes) /\ born \in Nat /\ MaxPopulation \in Nat
      /\ DOMAIN q = 1 .. Len(q) /\ Len(q) \in Nat /\ n \in Nat /\ n <= Len(q)
      /\ \A i \in DOMAIN q : q[i].id <= born
      /\ \A i, j \in DOMAIN q : q[i].id = q[j].id => i = j
      /\ n + m <= MaxPopulation /\ born' = born + m /\ generation' \in Nat
  BY DEF PoolOK, EvolutionAssumption, Renewed
<1>2. /\ R \in Seq(Genomes) /\ Len(R) = Len(q)
      /\ \A k \in 1 .. Len(q) : \E i \in 1 .. Len(q) : R[k] = q[i]
      /\ \A i \in 1 .. Len(q) : \E k \in 1 .. Len(q) : R[k] = q[i]
      /\ \A k, l \in 1 .. Len(q) : k <= l => R[k].fitness >= R[l].fitness
      /\ (\A i, j \in 1 .. Len(q) : q[i] = q[j] => i = j)
           => \A k, l \in 1 .. Len(q) : R[k] = R[l] => k = l
  BY <1>1, RankedFacts
<1>3. \A g \in Genomes : g.id \in Nat /\ g.fitness \in Int
  BY DEF Genomes
<1> HIDE DEF R
<1>4. /\ SubSeq(R, 1, n) \in Seq(Genomes) /\ Len(SubSeq(R, 1, n)) = n
      /\ \A k \in 1 .. n : SubSeq(R, 1, n)[k] = R[k]
  <2>1. R \in Seq(Genomes) /\ 1 \in 1 .. Len(R) + 1 /\ n \in 1 - 1 .. Len(R)
    BY <1>1, <1>2
  <2>2. /\ SubSeq(R, 1, n) \in Seq(Genomes) /\ Len(SubSeq(R, 1, n)) = n - 1 + 1
        /\ \A k \in 1 .. n - 1 + 1 : SubSeq(R, 1, n)[k] = R[1 + k - 1]
    BY <2>1, SubSeqProperties
  <2> QED  BY <1>1, <2>2
<1>5. fresh \in Seq(Genomes) /\ Len(fresh) = m /\ \A i \in 1 .. m : fresh[i].id = born + i
  BY DEF Renewed
<1>6. genomes' = SubSeq(R, 1, n) \o fresh
  BY DEF R, Renewed
<1>7. /\ genomes' \in Seq(Genomes) /\ Len(genomes') = n + m /\ DOMAIN genomes' = 1 .. n + m
      /\ \A k \in 1 .. n : genomes'[k] = R[k]
      /\ \A k \in 1 .. m : genomes'[n + k] = fresh[k]
  <2> DEFINE head == SubSeq(R, 1, n)
  <2>1. head \in Seq(Genomes) /\ Len(head) = n /\ \A k \in 1 .. n : head[k] = R[k]
    BY <1>4
  <2>2. genomes' = head \o fresh
    BY <1>6
  <2> HIDE DEF head
  <2>3. /\ head \o fresh \in Seq(Genomes) /\ Len(head \o fresh) = n + m
        /\ \A k \in 1 .. n + m : (head \o fresh)[k] = IF k <= n THEN head[k] ELSE fresh[k - n]
    BY <1>5, <2>1, ConcatProperties
  <2>4. \A k \in 1 .. n : k \in 1 .. n + m /\ k <= n
    BY <1>1
  <2>5. \A k \in 1 .. m : n + k \in 1 .. n + m /\ ~ (n + k <= n) /\ (n + k) - n = k
    BY <1>1
  <2>6. \A k \in 1 .. n : genomes'[k] = R[k]
    BY <2>1, <2>2, <2>3, <2>4
  <2>7. \A k \in 1 .. m : genomes'[n + k] = fresh[k]
    BY <2>2, <2>3, <2>5
  <2>8. genomes' \in Seq(Genomes) /\ Len(genomes') = n + m /\ DOMAIN genomes' = 1 .. n + m
    BY <2>2, <2>3
  <2> QED  BY <2>6, <2>7, <2>8
<1>8. \A k \in 1 .. n + m : k \in 1 .. n \/ \E j \in 1 .. m : k = n + j
  <2> TAKE k \in 1 .. n + m
  <2>1. CASE k <= n
    BY <1>1, <2>1
  <2>2. CASE k > n
    <3>1. k - n \in 1 .. m /\ k = n + (k - n)
      BY <1>1, <2>2
    <3> QED  BY <3>1
  <2> QED  BY <1>1, <2>1, <2>2
<1>9. ASSUME NEW k \in 1 .. n
      PROVE  \E i \in DOMAIN q : q[i] = genomes'[k] /\ genomes'[k] = R[k] /\ k \in 1 .. Len(q)
  <2>1. k \in 1 .. Len(q)
    BY <1>1
  <2>2. PICK i \in 1 .. Len(q) : R[k] = q[i]
    BY <1>2, <2>1
  <2> QED  BY <1>1, <1>7, <2>1, <2>2
<1>10. ASSUME NEW k \in 1 .. n + m, NEW i \in DOMAIN q, genomes'[k].id = q[i].id
       PROVE  k \in 1 .. n /\ R[k] = q[i] /\ k \in 1 .. Len(q)
  <2>1. q[i].id \in Nat /\ q[i].id <= born
    BY <1>1, <1>3
  <2>2. k \in 1 .. n
    <3> SUFFICES ASSUME NEW j \in 1 .. m, k = n + j PROVE FALSE
      BY <1>8
    <3>1. genomes'[k].id = born + j
      BY <1>5, <1>7
    <3> QED  BY <1>1, <1>10, <2>1, <3>1
  <2>3. PICK e \in DOMAIN q : q[e] = genomes'[k] /\ genomes'[k] = R[k] /\ k \in 1 .. Len(q)
    BY <1>9, <2>2
  <2>4. e = i
    BY <1>1, <1>10, <2>3
  <2> QED  BY <2>2, <2>3, <2>4
<1>11. \A i, j \in DOMAIN q :
         q[i].id \notin Ids(genomes') /\ q[j].id \in Ids(genomes')
           => q[j].fitness >= q[i].fitness
  <2> SUFFICES ASSUME NEW i \in DOMAIN q, NEW j \in DOMAIN q,
                      q[i].id \notin Ids(genomes'), q[j].id \in Ids(genomes')
               PROVE  q[j].fitness >= q[i].fitness
    OBVIOUS
  <2>1. PICK k \in 1 .. n + m : genomes'[k].id = q[j].id
    BY <1>7 DEF Ids
  <2>2. k \in 1 .. n /\ R[k] = q[j] /\ k \in 1 .. Len(q)
    BY <1>10, <2>1
  <2>3. PICK l \in 1 .. Len(q) : R[l] = q[i]
    BY <1>1, <1>2
  <2>4. ~ (l <= n)
    <3> SUFFICES ASSUME l <= n PROVE FALSE
      OBVIOUS
    <3>1. l \in 1 .. n /\ l \in 1 .. n + m
      BY <1>1
    <3>2. genomes'[l].id = q[i].id /\ l \in DOMAIN genomes'
      BY <1>7, <2>3, <3>1
    <3>3. q[i].id \in Ids(genomes')
      BY <3>2 DEF Ids
    <3> QED  BY <3>3
  <2>5. k <= l
    BY <1>1, <2>2, <2>4
  <2> QED  BY <1>2, <2>2, <2>3, <2>5
<1>12. \A i \in DOMAIN genomes' : genomes'[i].id <= born'
  <2> TAKE i \in DOMAIN genomes'
  <2>1. CASE i \in 1 .. n
    <3>1. PICK e \in DOMAIN q : q[e] = genomes'[i]
      BY <1>9, <2>1
    <3>2. q[e].id <= born /\ q[e].id \in Nat
      BY <1>1, <1>3
    <3>3. genomes'[i].id <= born /\ genomes'[i].id \in Nat /\ born' = born + m
      <4>1. genomes'[i].id = q[e].id
        BY <3>1
      <4> QED  BY <1>1, <3>2, <4>1
    <3>4. born \in Nat /\ m \in Nat
      BY <1>1
    <3> QED  BY <3>3, <3>4
  <2>2. ASSUME NEW j \in 1 .. m, i = n + j PROVE genomes'[i].id <= born'
    <3>1. genomes'[i].id = born + j /\ j \in Nat /\ j <= m
      BY <1>5, <1>7, <2>2
    <3> QED  BY <1>1, <3>1
  <2> QED  BY <1>7, <1>8, <2>1, <2>2
<1>13. \A k, l \in DOMAIN genomes' : genomes'[k].id = genomes'[l].id => k = l
  <2> SUFFICES ASSUME NEW k \in 1 .. n + m, NEW l \in 1 .. n + m,
                      genomes'[k].id = genomes'[l].id
               PROVE  k = l
    BY <1>7
  <2>1. CASE \E i \in DOMAIN q : q[i].id = genomes'[k].id
    <3>1. PICK i \in DOMAIN q : q[i].id = genomes'[k].id
      BY <2>1
    <3>2. R[k] = q[i] /\ R[l] = q[i] /\ k \in 1 .. Len(q) /\ l \in 1 .. Len(q)
      BY <1>10, <3>1
    <3>3. \A e, d \in 1 .. Len(q) : q[e] = q[d] => e = d
      BY <1>1
    <3>4. \A e, d \in 1 .. Len(q) : R[e] = R[d] => e = d
      BY <1>2, <3>3
    <3> QED  BY <3>2, <3>4
  <2>2. CASE ~ \E i \in DOMAIN q : q[i].id = genomes'[k].id
    <3>1. k \notin 1 .. n /\ l \notin 1 .. n
      BY <1>9, <2>2
    <3>2. PICK i \in 1 .. m : k = n + i
      BY <1>8, <3>1
    <3>3. PICK j \in 1 .. m : l = n + j
      BY <1>8, <3>1
    <3>4. genomes'[k].id = born + i /\ genomes'[l].id = born + j
      BY <1>5, <1>7, <3>2, <3>3
    <3>5. i = j
      <4>1. born + i = born + j
        BY <3>4
      <4>2. born \in Nat /\ i \in Nat /\ j \in Nat
        BY <1>1
      <4> QED  BY <4>1, <4>2
    <3> QED  BY <3>2, <3>3, <3>5
  <2> QED  BY <2>1, <2>2
<1>14. PoolOK'
  <2>1. born' \in Nat /\ Len(genomes') <= MaxPopulation /\ generation' \in Nat
    BY <1>1, <1>7
  <2> QED  BY <1>7, <1>12, <1>13, <2>1 DEF PoolOK
<1>15. \A k \in 1 .. n : genomes'[k].id \in Ids(genomes')
  <2>1. \A k \in 1 .. n : k \in DOMAIN genomes'
    BY <1>1, <1>7
  <2> QED  BY <2>1 DEF Ids
<1> QED  BY <1>1, <1>7, <1>9, <1>11, <1>14, <1>15 DEF R

LEMMA AddKeeps ==
  ASSUME EvolutionAssumption, PoolOK, NEW s \in Sources, Add(s)
  PROVE  PoolOK' /\ PoolStep
<1> DEFINE q == genomes
           new == NewGenome(born + 1, s, 0)
<1>1. /\ q \in Seq(Genomes) /\ Len(q) \in Nat /\ DOMAIN q = 1 .. Len(q) /\ born \in Nat
      /\ generation \in Nat /\ Len(q) <= MaxPopulation /\ MaxPopulation \in Nat
      /\ MaxPopulation # 0
      /\ \A i \in DOMAIN q : q[i].id <= born
      /\ \A i, j \in DOMAIN q : q[i].id = q[j].id => i = j
  BY DEF PoolOK, EvolutionAssumption
<1>2. new \in Genomes /\ new.id = born + 1
  <2>1. born + 1 \in Nat /\ 0 \in Int
    BY <1>1
  <2> QED  BY <2>1, NewGenomeFacts
<1>3. born' = born + 1 /\ generation' = generation /\ genomes' = Append(Evicted(q), new)
  BY DEF Add
<1> HIDE DEF new
<1>4. CASE Len(q) >= MaxPopulation
  <2> DEFINE R == Ranked(q)
             n == Len(q) - 1
  <2>1. n \in 0 .. Len(q) /\ n + 1 = Len(q)
    BY <1>1, <1>4
  <2>2. R \in Seq(Genomes) /\ Len(R) = Len(q)
    BY <1>1, RankedFacts
  <2> HIDE DEF R
  <2>3. \A i \in 1 .. n : R[i] \in Genomes
    BY <1>1, <2>1, <2>2
  <2>4. SubSeq(R, 1, n) \in Seq(Genomes)
    BY <2>1, <2>3, SubSeqProperties
  <2>5. genomes' = Append(SubSeq(R, 1, n), new)
    BY <1>3, <1>4 DEF Evicted, R
  <2>6. genomes' = SubSeq(R, 1, n) \o <<new>>
    BY <1>2, <2>4, <2>5, AppendIsConcat
  <2>7. <<new>> \in [1 .. 1 -> Genomes] /\ \A i \in 1 .. 1 : <<new>>[i].id = born + i
    BY <1>2
  <2>8. Renewed(n, 1, <<new>>)
    BY <1>1, <1>3, <2>1, <2>6, <2>7 DEF Renewed, R
  <2>9. /\ PoolOK' /\ Len(genomes') <= MaxPopulation
        /\ \A i, j \in DOMAIN q :
             q[i].id \notin Ids(genomes') /\ q[j].id \in Ids(genomes')
               => q[j].fitness >= q[i].fitness
    BY <2>1, <2>8, FittestStay
  <2> QED  BY <1>3, <2>9 DEF PoolStep
<1>5. CASE ~ (Len(q) >= MaxPopulation)
  <2>1. genomes' = Append(q, new)
    BY <1>3, <1>5 DEF Evicted
  <2>2. /\ genomes' \in Seq(Genomes) /\ Len(genomes') = Len(q) + 1
        /\ DOMAIN genomes' = 1 .. Len(q) + 1
        /\ \A i \in DOMAIN q : i \in DOMAIN genomes' /\ genomes'[i] = q[i]
        /\ genomes'[Len(q) + 1] = new
    BY <1>1, <1>2, <2>1
  <2>3. \A i \in DOMAIN genomes' : i \in DOMAIN q \/ i = Len(q) + 1
    BY <1>1, <2>2
  <2>4. \A i \in DOMAIN q : q[i].id \in Nat /\ q[i].id <= born
    <3>1. \A i \in DOMAIN q : q[i] \in Genomes /\ q[i].id <= born
      BY <1>1
    <3>2. \A g \in Genomes : g.id \in Nat
      BY DEF Genomes
    <3> QED  BY <3>1, <3>2
  <2>5. \A i \in DOMAIN genomes' : genomes'[i].id <= born'
    BY <1>1, <1>2, <1>3, <2>2, <2>3, <2>4
  <2>6. \A i, j \in DOMAIN genomes' : genomes'[i].id = genomes'[j].id => i = j
    BY <1>1, <1>2, <2>2, <2>3, <2>4
  <2>7. born' \in Nat /\ generation' \in Nat /\ Len(genomes') <= MaxPopulation
    BY <1>1, <1>3, <1>5, <2>2
  <2>8. \A i \in DOMAIN q : q[i].id \in Ids(genomes')
    BY <2>2 DEF Ids
  <2> QED  BY <1>3, <2>2, <2>5, <2>6, <2>7, <2>8 DEF PoolOK, PoolStep
<1> QED  BY <1>4, <1>5

LEMMA UpdateKeeps ==
  ASSUME EvolutionAssumption, PoolOK, NEW i \in Nat, NEW score \in Scores,
         UpdateFitness(i, score)
  PROVE  PoolOK' /\ PoolStep
<1> DEFINE q == genomes
           g == [q[i] EXCEPT !.fitness = score]
<1>1. /\ q \in Seq(Genomes) /\ i \in DOMAIN q /\ score \in Int
      /\ genomes' = [q EXCEPT ![i] = g]
      /\ born' = born /\ generation' = generation
  BY DEF PoolOK, EvolutionAssumption, UpdateFitness
<1>2. q[i] \in Genomes
  BY <1>1
<1>3. g \in Genomes /\ g.id = q[i].id
  BY <1>1, <1>2 DEF Genomes
<1> HIDE DEF g
<1>4. /\ genomes' \in Seq(Genomes) /\ Len(genomes') = Len(q) /\ DOMAIN genomes' = DOMAIN q
      /\ \A j \in DOMAIN q : genomes'[j].id = q[j].id
  BY <1>1, <1>2, <1>3
<1>5. \A j \in DOMAIN q : q[j].id \in Ids(genomes')
  BY <1>4 DEF Ids
<1>6. PoolOK'
  BY <1>1, <1>4 DEF PoolOK
<1> QED  BY <1>1, <1>4, <1>5, <1>6 DEF PoolStep, PoolOK

LEMMA NextGenerationKeeps ==
  ASSUME EvolutionAssumption, PoolOK, NextGeneration
  PROVE  PoolOK' /\ PoolStep
<1> DEFINE q == genomes
           R == Ranked(q)
           n == IF Len(q) = 0 THEN 0 ELSE Best(1, (Len(q) * Elite) \div 100)
           elite == TopK(n)
           m == IF Len(elite) >= 2 THEN MaxPopulation - Len(elite) ELSE 0
           couples == {c \in (DOMAIN elite) \X (DOMAIN elite) : c[1] # c[2]}
           Child(c, i) == Mutate(Crossover(elite[c[1]], elite[c[2]]), born + i)
<1>1. /\ q \in Seq(Genomes) /\ Len(q) \in Nat /\ DOMAIN q = 1 .. Len(q) /\ born \in Nat
      /\ generation \in Nat /\ Len(q) <= MaxPopulation /\ MaxPopulation \in Nat
      /\ MaxPopulation # 0 /\ Elite \in 0 .. 100
  BY DEF PoolOK, EvolutionAssumption
<1>2. n \in 0 .. Len(q) /\ (Len(q) # 0 => n # 0)
  <2>1. (Len(q) * Elite) \div 100 \in 0 .. Len(q)
    BY <1>1, Percentage
  <2> QED  BY <1>1, <2>1 DEF Best
<1>3. PICK chosen \in [1 .. m -> couples] :
        genomes' = elite \o [i \in 1 .. m |-> Child(chosen[i], i)]
  BY DEF NextGeneration
<1>4. born' = born + m /\ generation' = generation + 1
  BY DEF NextGeneration
<1>5. /\ R \in Seq(Genomes) /\ Len(R) = Len(q)
      /\ \A k \in 1 .. Len(q) : \E i \in 1 .. Len(q) : R[k] = q[i]
  BY <1>1, RankedFacts
<1>6. elite = SubSeq(R, 1, n)
  BY DEF TopK
<1> HIDE DEF R, n
<1>7. /\ elite \in Seq(Genomes) /\ Len(elite) = n /\ DOMAIN elite = 1 .. n
      /\ \A k \in 1 .. n : elite[k] = R[k]
  <2>1. n \in Nat /\ \A i \in 1 .. n : R[i] \in Genomes
    BY <1>1, <1>2, <1>5
  <2>2. /\ SubSeq(R, 1, n) \in Seq(Genomes)
        /\ Len(SubSeq(R, 1, n)) = IF 1 <= n THEN n - 1 + 1 ELSE 0
        /\ \A k \in 1 .. n - 1 + 1 : SubSeq(R, 1, n)[k] = R[1 + k - 1]
    BY <2>1, SubSeqProperties
  <2>3. /\ elite \in Seq(Genomes)
        /\ Len(elite) = IF 1 <= n THEN n - 1 + 1 ELSE 0
        /\ \A k \in 1 .. n - 1 + 1 : elite[k] = R[1 + k - 1]
    BY <1>6, <2>2
  <2> HIDE DEF elite
  <2>4. Len(elite) = n /\ \A k \in 1 .. n : elite[k] = R[k]
    BY <2>1, <2>3
  <2> QED  BY <2>3, <2>4
<1>8. m \in Nat /\ n + m <= MaxPopulation
  BY <1>1, <1>2, <1>7
<1> HIDE DEF elite, m
<1>9. ASSUME NEW i \in 1 .. m
      PROVE  /\ Child(chosen[i], i) \in Genomes /\ Child(chosen[i], i).id = born + i
             /\ \E k \in 1 .. n : Child(chosen[i], i).source = elite[k].source
  <2>1. chosen[i] \in couples
    BY <1>3
  <2>2. /\ chosen[i][1] \in 1 .. n /\ chosen[i][2] \in 1 .. n
        /\ elite[chosen[i][1]] \in Genomes /\ elite[chosen[i][2]] \in Genomes
    BY <1>7, <2>1
  <2> DEFINE cross == Crossover(elite[chosen[i][1]], elite[chosen[i][2]])
  <2>3. /\ cross.source \in Sources /\ cross.gen + 1 \in Int
        /\ cross.source \in {elite[chosen[i][1]].source, elite[chosen[i][2]].source}
    BY <1>1, <2>2 DEF Crossover, Genomes
  <2>4. Child(chosen[i], i) = NewGenome(born + i, cross.source, cross.gen + 1)
    BY DEF Mutate
  <2> HIDE DEF cross
  <2>5. born + i \in Nat
    BY <1>1
  <2>6. /\ Child(chosen[i], i) \in Genomes /\ Child(chosen[i], i).id = born + i
        /\ Child(chosen[i], i).source = cross.source
    BY <2>3, <2>4, <2>5, NewGenomeFacts
  <2> QED  BY <2>2, <2>3, <2>6
<1> DEFINE fresh == [i \in 1 .. m |-> Child(chosen[i], i)]
<1>10. fresh \in [1 .. m -> Genomes] /\ \A i \in 1 .. m : fresh[i].id = born + i
  BY <1>9
<1>11. Renewed(n, m, fresh)
  <2>1. generation' \in Nat
    BY <1>1, <1>4
  <2>2. genomes' = SubSeq(R, 1, n) \o fresh
    BY <1>3, <1>6
  <2> HIDE DEF fresh
  <2> QED  BY <1>4, <1>8, <1>10, <2>1, <2>2 DEF Renewed, R
<1>12. \A i \in 1 .. m : \E k \in 1 .. n : fresh[i].source = elite[k].source
  BY <1>9
<1> HIDE DEF fresh
<1>13. /\ PoolOK' /\ Len(genomes') <= MaxPopulation
       /\ \A i, j \in DOMAIN q :
            q[i].id \notin Ids(genomes') /\ q[j].id \in Ids(genomes')
              => q[j].fitness >= q[i].fitness
       /\ \A k \in 1 .. n :
            /\ genomes'[k] = R[k] /\ genomes'[k].id \in Ids(genomes')
            /\ \E i \in DOMAIN q : q[i] = genomes'[k]
       /\ \A k \in 1 .. m : genomes'[n + k] = fresh[k]
       /\ DOMAIN genomes' = 1 .. n + m
  BY <1>2, <1>8, <1>11, FittestStay DEF R
<1>14. q # << >> => Ids(q) \cap Ids(genomes') # {}
  <2> SUFFICES ASSUME q # << >> PROVE Ids(q) \cap Ids(genomes') # {}
    OBVIOUS
  <2>1. 1 \in 1 .. n
    BY <1>1, <1>2
  <2>2. PICK i \in DOMAIN q : q[i] = genomes'[1] /\ genomes'[1].id \in Ids(genomes')
    BY <1>13, <2>1
  <2> QED  BY <2>2 DEF Ids
<1>15. ASSUME NEW i \in DOMAIN genomes'
       PROVE  \E j \in DOMAIN q : /\ q[j].source = genomes'[i].source
                                  /\ q[j].id \in Ids(genomes')
  <2>1. PICK k \in 1 .. n : genomes'[i].source = genomes'[k].source
    <3>1. CASE i \in 1 .. n
      BY <3>1
    <3>2. ASSUME NEW j \in 1 .. m, i = n + j
          PROVE  \E k \in 1 .. n : genomes'[i].source = genomes'[k].source
      <4>1. PICK k \in 1 .. n : fresh[j].source = elite[k].source
        BY <1>12
      <4>2. genomes'[i] = fresh[j] /\ genomes'[k] = elite[k]
        BY <1>7, <1>13, <3>2
      <4> QED  BY <4>1, <4>2
    <3>3. i \in 1 .. n \/ \E j \in 1 .. m : i = n + j
      <4>1. i \in 1 .. n + m /\ n \in Nat /\ m \in Nat
        BY <1>1, <1>2, <1>8, <1>13
      <4>2. i > n => i - n \in 1 .. m /\ i = n + (i - n)
        BY <4>1
      <4>3. CASE i > n
        BY <4>2, <4>3
      <4>4. CASE ~ (i > n)
        BY <4>1, <4>4
      <4> QED  BY <4>3, <4>4
    <3> QED  BY <3>1, <3>2, <3>3
  <2> QED  BY <1>13, <2>1
<1> QED  BY <1>13, <1>14, <1>15 DEF PoolStep

LEMMA VersionsKept ==
  ASSUME EvolutionAssumption, RegistryOK, NEW s \in Sources, CompileAndRegister(s)
  PROVE  /\ RegistryOK'
         /\ \A class \in DOMAIN registry : \A v \in DOMAIN registry[class] :
              Get(class, v)' = Get(class, v)
<1>1. /\ ClassOf[s] \in DOMAIN registry /\ registry[ClassOf[s]] \in Seq(Sources)
      /\ registry' = [registry EXCEPT ![ClassOf[s]] = Append(registry[ClassOf[s]], s)]
  BY DEF RegistryOK, CompileAndRegister
<1>2. /\ DOMAIN registry' = DOMAIN registry
      /\ \A class \in DOMAIN registry :
           /\ registry[class] \in Seq(Sources) /\ registry'[class] \in Seq(Sources)
           /\ \A v \in DOMAIN registry[class] :
                /\ v \in DOMAIN registry'[class] /\ registry'[class][v] = registry[class][v]
                /\ v # 0
  <2>1. /\ Append(registry[ClassOf[s]], s) \in Seq(Sources)
        /\ \A v \in DOMAIN registry[ClassOf[s]] :
             /\ v \in DOMAIN Append(registry[ClassOf[s]], s)
             /\ Append(registry[ClassOf[s]], s)[v] = registry[ClassOf[s]][v]
    BY <1>1
  <2>2. \A t \in Seq(Sources) : \A v \in DOMAIN t : v # 0
    OBVIOUS
  <2>3. \A class \in DOMAIN registry : registry[class] \in Seq(Sources)
    BY DEF RegistryOK
  <2>4. \A class \in DOMAIN registry :
          registry'[class] = IF class = ClassOf[s] THEN Append(registry[ClassOf[s]], s)
                             ELSE registry[class]
    BY <1>1
  <2> QED  BY <1>1, <2>1, <2>2, <2>3, <2>4
<1>3. RegistryOK'
  BY <1>2 DEF RegistryOK
<1>4. ASSUME NEW class \in DOMAIN registry, NEW v \in DOMAIN registry[class]
      PROVE  Get(class, v)' = Get(class, v)
  BY <1>2 DEF Get
<1> QED  BY <1>3, <1>4

\* What FittestSurvive says of a step.
SurvivalStep ==
  /\ PoolStep
  /\ \A class \in DOMAIN registry : \A v \in DOMAIN registry[class] :
       Get(class, v)' = Get(class, v)

LEMMA EvolutionSteps ==
  ASSUME EvolutionAssumption, EvolutionInv, EvolutionNext \/ UNCHANGED evolution
  PROVE  EvolutionInv' /\ (EvolutionNext => SurvivalStep)
<1> USE DEF EvolutionInv
<1>1. ASSUME UNCHANGED pool PROVE PoolOK' /\ PoolStep
  <2>1. genomes' = genomes /\ generation' = generation /\ born' = born
    BY <1>1 DEF pool
  <2>2. \A i \in DOMAIN genomes : genomes[i].id \in Ids(genomes)
    BY DEF Ids
  <2> QED  BY <2>1, <2>2 DEF PoolOK, PoolStep
<1>2. ASSUME UNCHANGED registry
      PROVE  /\ RegistryOK'
             /\ \A class \in DOMAIN registry : \A v \in DOMAIN registry[class] :
                  Get(class, v)' = Get(class, v)
  BY <1>2 DEF RegistryOK, Get, Latest
<1>3. ASSUME NEW s \in Sources, Add(s) PROVE EvolutionInv' /\ SurvivalStep
  BY <1>2, <1>3, AddKeeps DEF Add, SurvivalStep
<1>4. ASSUME NEW s \in Sources, CompileAndRegister(s) PROVE EvolutionInv' /\ SurvivalStep
  BY <1>1, <1>4, VersionsKept DEF CompileAndRegister, SurvivalStep, pool
<1>5. ASSUME NEW i \in 1 .. MaxPopulation, NEW score \in Scores, UpdateFitness(i, score)
      PROVE  EvolutionInv' /\ SurvivalStep
  <2>1. i \in Nat
    BY DEF EvolutionAssumption
  <2>2. PoolOK' /\ PoolStep
    BY <1>5, <2>1, UpdateKeeps
  <2> QED  BY <1>2, <1>5, <2>2 DEF UpdateFitness, SurvivalStep
<1>6. ASSUME NextGeneration PROVE EvolutionInv' /\ SurvivalStep
  BY <1>2, <1>6, NextGenerationKeeps DEF NextGeneration, SurvivalStep
<1>7. ASSUME Think PROVE EvolutionInv' /\ SurvivalStep
  BY <1>1, <1>2, <1>7 DEF Think, SurvivalStep, pool
<1>8. ASSUME UNCHANGED evolution PROVE EvolutionInv'
  BY <1>1, <1>2, <1>8 DEF evolution, pool
<1> QED  BY <1>3, <1>4, <1>5, <1>6, <1>7, <1>8 DEF EvolutionNext

\* Whatever is added, scored and bred, the pool keeps its size, no genome goes
\* while a less fit one stays, a generation breeds from its elite, and versions
\* stay as they were registered: FittestSurvive.
THEOREM FittestAlwaysSurvive ==
  ASSUME EvolutionAssumption PROVE EvolutionSpec => FittestSurvive
<1>1. EvolutionInit => EvolutionInv
  BY EvolutionStarts
<1>2. EvolutionInv /\ [EvolutionNext]_evolution => EvolutionInv'
  BY EvolutionSteps
<1>3. EvolutionInv /\ [EvolutionNext]_evolution => [SurvivalStep]_evolution
  BY EvolutionSteps
<1>4. [SurvivalStep]_evolution =>
        [/\ Len(genomes') <= MaxPopulation
         /\ \A i, j \in DOMAIN genomes :
              genomes[i].id \notin Ids(genomes') /\ genomes[j].id \in Ids(genomes')
                => genomes[j].fitness >= genomes[i].fitness
         /\ generation' # generation =>
              /\ genomes # << >> => Ids(genomes) \cap Ids(genomes') # {}
              /\ \A i \in DOMAIN genomes' :
                   \E j \in DOMAIN genomes : /\ genomes[j].source = genomes'[i].source
                                             /\ genomes[j].id \in Ids(genomes')
         /\ \A class \in DOMAIN registry : \A v \in DOMAIN registry[class] :
              Get(class, v)' = Get(class, v)]_evolution
  BY DEF SurvivalStep, PoolStep
<1> QED  BY <1>1, <1>2, <1>3, <1>4, PTL DEF EvolutionSpec, FittestSurvive

-----------------------------------------------------------------------------
(* Tools                                                                    *)

\* A set of places without gaps is a beginning.
LEMMA DownwardIsPrefix ==
  ASSUME NEW L \in Nat, NEW P \in SUBSET (1 .. L),
         \A i \in P : \A j \in 1 .. i : j \in P
  PROVE  Cardinality(P) \in 0 .. L /\ P = 1 .. Cardinality(P)
<1> DEFINE rest == (1 .. L + 1) \ P
<1>1. L + 1 \in rest /\ rest \in SUBSET Nat
  OBVIOUS
<1>2. PICK m \in rest : \A i \in rest : m <= i
  BY <1>1, LeastElement
<1>3. m \in 1 .. L + 1 /\ m \notin P
  BY <1>2
<1>4. \A i \in 1 .. L : i < m => i \in P
  <2> SUFFICES ASSUME NEW i \in 1 .. L, i < m, i \notin P PROVE FALSE
    OBVIOUS
  <2>1. i \in rest
    OBVIOUS
  <2> HIDE DEF rest
  <2> QED  BY <1>2, <1>3, <2>1
<1>5. \A i \in P : i < m
  <2> SUFFICES ASSUME NEW i \in P, ~ (i < m) PROVE FALSE
    OBVIOUS
  <2>1. m \in 1 .. i
    BY <1>3
  <2> QED  BY <1>3, <2>1
<1>6. m - 1 \in 0 .. L /\ P = 1 .. m - 1
  <2>1. \A i \in 1 .. m - 1 : i \in 1 .. L /\ i < m
    BY <1>3
  <2>2. \A i \in P : i \in 1 .. m - 1
    BY <1>3, <1>5
  <2>3. m - 1 \in 0 .. L
    BY <1>3
  <2> HIDE DEF rest
  <2> QED  BY <1>4, <2>1, <2>2, <2>3
<1>7. Cardinality(1 .. m - 1) = m - 1
  BY <1>6, FS_Interval
<1> QED  BY <1>6, <1>7

NotAfter(T) == {p \in T \X T : p[1] <= p[2]}

\* Each of the places is the k-th for one k.
LEMMA NthFacts ==
  ASSUME NEW T, T \in SUBSET Nat, IsFiniteSet(T)
  PROVE  /\ \A k \in 1 .. Cardinality(T) : Nth(T, k) \in T
         /\ \A i \in T : \E k \in 1 .. Cardinality(T) : Nth(T, k) = i
<1> DEFINE R == NotAfter(T)
           n == Cardinality(T)
<1>1. \A i, j \in T : <<i, j>> \in R <=> i <= j
  BY DEF NotAfter
<1>2. Orders(R, T)
  <2> HIDE DEF R
  <2>1. \A i, j \in T : i <= j \/ j <= i
    OBVIOUS
  <2>2. \A i, j \in T : i <= j /\ j <= i => i = j
    OBVIOUS
  <2>3. \A i, j, k \in T : i <= j /\ j <= k => i <= k
    OBVIOUS
  <2> QED  BY <1>1, <2>1, <2>2, <2>3 DEF Orders
<1>3. \A i \in T : RankIn(T, R, i) = Cardinality({j \in T : j <= i})
  <2> SUFFICES ASSUME NEW i \in T
               PROVE  {j \in T : <<j, i>> \in R} = {j \in T : j <= i}
    BY DEF RankIn
  <2> HIDE DEF R
  <2> QED  BY <1>1
<1> HIDE DEF R
<1>r. /\ \A i \in T : RankIn(T, R, i) \in 1 .. Cardinality(T)
      /\ \A i, j \in T : RankIn(T, R, i) <= RankIn(T, R, j) => <<i, j>> \in R
      /\ \A k \in 1 .. Cardinality(T) : \E i \in T : RankIn(T, R, i) = k
  <2>1. IsFiniteSet(T)
    OBVIOUS
  <2>2. Orders(R, T)
    BY <1>2
  <2> QED  BY ONLY <2>1, <2>2, RankFacts
<1>4. \A k \in 1 .. n : \E i \in T : Cardinality({j \in T : j <= i}) = k
  BY <1>3, <1>r
<1>5. \A k \in 1 .. n : Nth(T, k) \in T /\ Cardinality({j \in T : j <= Nth(T, k)}) = k
  BY <1>4 DEF Nth
<1>6. \A i \in T : RankIn(T, R, i) \in 1 .. n
  BY <1>r
<1>7. ASSUME NEW i \in T PROVE Nth(T, RankIn(T, R, i)) = i
  <2> DEFINE k == RankIn(T, R, i)
             x == Nth(T, k)
  <2>1. k \in 1 .. n /\ x \in T
    BY <1>5, <1>6
  <2>2. RankIn(T, R, x) = k /\ RankIn(T, R, i) = k
    BY <1>3, <1>5, <2>1
  <2> HIDE DEF k, x
  <2>3. RankIn(T, R, x) <= RankIn(T, R, i) /\ RankIn(T, R, i) <= RankIn(T, R, x)
    BY <2>1, <2>2, FS_CardinalityType
  <2>4. <<x, i>> \in R /\ <<i, x>> \in R
    BY <1>r, <2>1, <2>3
  <2>5. x = i
    BY <1>2, <2>1, <2>4 DEF Orders
  <2> QED  BY <2>5 DEF x, k
<1> QED  BY <1>5, <1>6, <1>7

\* The places among P of elements in Good.
Marked(q, P, Good) == {i \in P : q[i] \in Good}

\* What a selection keeps of the elements with a property, counted.
LEMMA SelectedCounts ==
  ASSUME NEW S, NEW q, q \in Seq(S), NEW P, P \in SUBSET DOMAIN q, NEW Good
  PROVE  /\ Selected(q, P) \in Seq(S)
         /\ Cardinality(Marked(q, P, Good))
              <= Cardinality(Marked(Selected(q, P), DOMAIN Selected(q, P), Good))
<1> DEFINE n == Cardinality(P)
           s == Selected(q, P)
           A == Marked(s, DOMAIN s, Good)
           B == Marked(q, P, Good)
<1>1. DOMAIN q = 1 .. Len(q) /\ Len(q) \in Nat /\ \A i \in DOMAIN q : q[i] \in S
  OBVIOUS
<1>2. IsFiniteSet(P) /\ n \in Nat /\ P \in SUBSET Nat
  <2>1. IsFiniteSet(DOMAIN q)
    BY <1>1, FS_Interval
  <2> QED  BY <1>1, <2>1, FS_Subset, FS_CardinalityType
<1>3. /\ \A k \in 1 .. n : Nth(P, k) \in P
      /\ \A i \in P : \E k \in 1 .. n : Nth(P, k) = i
  BY <1>2, NthFacts
<1>4. s = [k \in 1 .. n |-> q[Nth(P, k)]]
  BY DEF Selected
<1> HIDE DEF s, n
<1>5. s \in Seq(S) /\ DOMAIN s = 1 .. n /\ \A k \in 1 .. n : s[k] = q[Nth(P, k)]
  BY <1>1, <1>2, <1>3, <1>4
<1> USE DEF Marked
<1> DEFINE nth == [k \in A |-> Nth(P, k)]
<1>6. nth \in Surjection(A, B)
  <2>1. \A k \in A : Nth(P, k) \in B
    BY <1>3, <1>5
  <2>2. \A i \in B : \E k \in A : Nth(P, k) = i
    BY <1>3, <1>5
  <2> HIDE DEF A, B
  <2> QED  BY <2>1, <2>2 DEF Surjection
<1>7. IsFiniteSet(A)
  <2>1. IsFiniteSet(1 .. n)
    BY <1>2, FS_Interval
  <2> QED  BY <1>5, <2>1, FS_Subset
<1> HIDE DEF A, B, nth
<1> HIDE DEF Marked
<1>8. Cardinality(B) <= Cardinality(A)
  BY <1>6, <1>7, FS_Surjection
<1> QED  BY <1>3, <1>5, <1>8 DEF A, B, s, n

Calls == [agent : Callers, tool : ToolNames, tick : Nat, limit : Nat]

Entries == [priority : Int, seq : Nat]

CronEntries == [every : Nat \ {0}, since : Nat, last : Nat, fires : Nat]

InOrder(q) == \A i, j \in DOMAIN q : i < j => Sooner(q[i], q[j])

\* A task is younger than all that were queued before.
QueueOK(q, seq) ==
  /\ q \in Seq(Entries) /\ seq \in Nat /\ InOrder(q)
  /\ \A i \in DOMAIN q : q[i].seq < seq

Punctual(e) == e \in CronEntries /\ e.since + e.fires * e.every <= e.last

StoresOK(s) ==
  /\ s = [queue |-> s.queue, seq |-> s.seq, kv |-> s.kv, cron |-> s.cron]
  /\ QueueOK(s.queue, s.seq)
  /\ DOMAIN s.kv \subseteq StoreKeys /\ \A k \in DOMAIN s.kv : s.kv[k] \in Int
  /\ \A n \in DOMAIN s.cron : Punctual(s.cron[n])

\* The calls that count at tick, in the log l and in the history h.
Logged(l, a, tool, tick) ==
  {j \in DOMAIN l : l[j].agent = a /\ l[j].tool = tool /\ l[j].tick + Window >= tick}

Since(tick) == {t \in Nat : t + Window >= tick}

Kept(h, tick) == Marked(h, DOMAIN h, Since(tick))

\* What the history has lost counts no more, now or later.
Covered(l, h, a, tool, c) ==
  \A tick \in Nat :
    tick >= c => Cardinality(Logged(l, a, tool, tick)) <= Cardinality(Kept(h, tick))

LogOK ==
  /\ log \in Seq(Calls)
  /\ \A i \in DOMAIN log : log[i].limit > 0 => Cardinality(Burst(i)) <= log[i].limit

HistoryOK ==
  /\ DOMAIN callHistory = Callers \X ToolNames
  /\ \A a \in Callers, tool \in ToolNames :
       /\ callHistory[<<a, tool>>] \in Seq(Nat)
       /\ Covered(log, callHistory[<<a, tool>>], a, tool, currentTick)

SpecsOK ==
  /\ DOMAIN specs \subseteq ToolNames
  /\ \A tool \in DOMAIN specs : specs[tool] \in [limit : Nat, allowed : SUBSET Callers]

ToolsInv == currentTick \in Nat /\ SpecsOK /\ LogOK /\ HistoryOK /\ StoresOK(stores)

LEMMA InsertKeepsOrder ==
  ASSUME NEW q, NEW seq, QueueOK(q, seq), NEW priority \in Int
  PROVE  QueueOK(Insorted(q, [priority |-> priority, seq |-> seq]), seq + 1)
<1> DEFINE e == [priority |-> priority, seq |-> seq]
           P == {i \in DOMAIN q : Sooner(q[i], e)}
           n == Cardinality(P)
           L == Len(q)
           new == Insorted(q, e)
<1>1. /\ q \in Seq(Entries) /\ L \in Nat /\ DOMAIN q = 1 .. L /\ e \in Entries
      /\ \A i \in 1 .. L : q[i] \in Entries /\ q[i].seq < seq
      /\ seq \in Nat
  <2>1. q \in Seq(Entries) /\ seq \in Nat /\ \A i \in DOMAIN q : q[i].seq < seq
    BY DEF QueueOK
  <2>2. L \in Nat /\ DOMAIN q = 1 .. L /\ \A i \in 1 .. L : q[i] \in Entries
    BY <2>1
  <2>3. e \in Entries
    BY <2>1 DEF Entries
  <2> QED  BY <2>1, <2>2, <2>3
<1>2. \A i, j \in 1 .. L : i < j => Sooner(q[i], q[j])
  BY <1>1 DEF QueueOK, InOrder
<1>3. \A f, g, h \in Entries : Sooner(f, g) /\ Sooner(g, h) => Sooner(f, h)
  BY DEF Sooner, Entries
<1>4. \A i \in 1 .. L : ~ Sooner(q[i], e) => Sooner(e, q[i])
  BY <1>1 DEF Sooner, Entries
<1>5. \A i \in P : \A j \in 1 .. i : j \in P
  <2> SUFFICES ASSUME NEW i \in P, NEW j \in 1 .. i PROVE j \in P
    OBVIOUS
  <2>1. i \in 1 .. L /\ j \in 1 .. L /\ Sooner(q[i], e)
    BY <1>1
  <2>2. j = i \/ Sooner(q[j], q[i])
    BY <1>2, <2>1
  <2>3. Sooner(q[j], e)
    BY <1>1, <1>3, <2>1, <2>2
  <2> QED  BY <1>1, <2>1, <2>3
<1>6. P \in SUBSET (1 .. L)
  BY <1>1
<1> HIDE DEF e, L
<1>7. n \in 0 .. L /\ P = 1 .. n
  <2> HIDE DEF P, n
  <2>1. Cardinality(P) \in 0 .. L /\ P = 1 .. Cardinality(P)
    BY <1>1, <1>5, <1>6, DownwardIsPrefix
  <2> QED  BY <2>1 DEF n
<1>8. \A i \in 1 .. L : Sooner(q[i], e) <=> i <= n
  BY <1>1, <1>7
<1>9. new = SubSeq(q, 1, n) \o <<e>> \o SubSeq(q, n + 1, L)
  BY DEF Insorted, L
<1> HIDE DEF P, n, new
<1>10. /\ new \in Seq(Entries) /\ Len(new) = L + 1
       /\ \A i \in 1 .. L + 1 : new[i] = IF i <= n THEN q[i] ELSE IF i = n + 1 THEN e ELSE q[i - 1]
  <2> DEFINE front == SubSeq(q, 1, n)
             back == SubSeq(q, n + 1, L)
  <2>1. /\ front \in Seq(Entries) /\ Len(front) = n
        /\ \A i \in 1 .. n : front[i] = q[i]
        /\ back \in Seq(Entries) /\ Len(back) = L - n
        /\ \A i \in 1 .. L - n : back[i] = q[n + i]
    <3>1. n \in Nat /\ n <= L /\ L = Len(q)
      BY <1>7 DEF L
    <3>2. /\ front \in Seq(Entries) /\ Len(front) = n
          /\ \A i \in 1 .. n : front[i] = q[i]
      BY <1>1, <3>1
    <3>3. \A i \in n + 1 .. L : q[i] \in Entries
      BY <1>1, <3>1
    <3>4. /\ back \in Seq(Entries)
          /\ Len(back) = IF n + 1 <= L THEN L - (n + 1) + 1 ELSE 0
          /\ \A i \in 1 .. L - (n + 1) + 1 : back[i] = q[(n + 1) + i - 1]
      BY <1>1, <3>1, <3>3, SubSeqProperties
    <3> HIDE DEF front, back
    <3>5. Len(back) = L - n
      <4>1. n \in Int /\ L \in Int /\ n <= L
        BY <1>1, <3>1
      <4>2. CASE n + 1 <= L
        BY <3>4, <4>1, <4>2
      <4>3. CASE ~ (n + 1 <= L)
        BY <3>4, <4>1, <4>3
      <4> QED  BY <4>2, <4>3
    <3>6. \A i \in 1 .. L - n : i \in 1 .. L - (n + 1) + 1 /\ (n + 1) + i - 1 = n + i
      BY <1>1, <3>1
    <3>7. \A i \in 1 .. L - n : back[i] = q[n + i]
      BY <3>4, <3>6
    <3> QED  BY <3>2, <3>4, <3>5, <3>7
  <2> HIDE DEF front, back
  <2>2. new = front \o <<e>> \o back /\ n \in Nat /\ n <= L
    BY <1>7, <1>9 DEF front, back
  <2>3. /\ front \o <<e>> \in Seq(Entries) /\ Len(front \o <<e>>) = n + 1
        /\ \A i \in 1 .. n + 1 : (front \o <<e>>)[i] = IF i <= n THEN q[i] ELSE e
    BY <1>1, <2>1, <2>2
  <2> DEFINE most == front \o <<e>>
  <2> HIDE DEF most
  <2>4. /\ most \in Seq(Entries) /\ Len(most) = n + 1 /\ new = most \o back
        /\ \A i \in 1 .. n + 1 : most[i] = IF i <= n THEN q[i] ELSE e
    BY <2>2, <2>3 DEF most
  <2>5. new \in Seq(Entries) /\ Len(new) = L + 1
    BY <1>1, <2>1, <2>2, <2>4
  <2>6. \A i \in 1 .. n + 1 : new[i] = most[i]
    BY <1>1, <2>1, <2>2, <2>4
  <2>7. ASSUME NEW i \in n + 2 .. L + 1 PROVE new[i] = q[i - 1]
    <3>1. i - (n + 1) \in 1 .. L - n /\ n + (i - (n + 1)) = i - 1
      BY <1>1, <2>2
    <3>2. new[i] = back[i - (n + 1)]
      BY <1>1, <2>1, <2>2, <2>4, <3>1
    <3>3. back[i - (n + 1)] = q[n + (i - (n + 1))]
      BY <2>1, <3>1
    <3> QED  BY <3>1, <3>2, <3>3
  <2>8. ASSUME NEW i \in 1 .. L + 1
        PROVE  new[i] = IF i <= n THEN q[i] ELSE IF i = n + 1 THEN e ELSE q[i - 1]
    <3>1. i \in 1 .. n \/ i = n + 1 \/ i \in n + 2 .. L + 1
      BY <1>1, <2>2
    <3>2. CASE i \in 1 .. n
      BY <2>2, <2>4, <2>6, <3>2
    <3>3. CASE i = n + 1
      BY <2>2, <2>4, <2>6, <3>3
    <3>4. CASE i \in n + 2 .. L + 1
      <4>1. ~ (i <= n) /\ i # n + 1
        BY <2>2, <3>4
      <4>2. new[i] = q[i - 1]
        BY <2>7, <3>4
      <4> QED  BY <4>1, <4>2
    <3> QED  BY <3>1, <3>2, <3>3, <3>4
  <2> QED  BY <2>5, <2>8
<1>11. DOMAIN new = 1 .. L + 1
  BY <1>1, <1>10
<1>12. ASSUME NEW i \in 1 .. L + 1, NEW j \in 1 .. L + 1, i < j
       PROVE  Sooner(new[i], new[j])
  <2>1. CASE j <= n
    <3>1. new[i] = q[i] /\ new[j] = q[j] /\ i \in 1 .. L /\ j \in 1 .. L
      BY <1>1, <1>7, <1>10, <1>12, <2>1
    <3> QED  BY <1>2, <1>12, <3>1
  <2>2. CASE j = n + 1
    <3>1. new[i] = q[i] /\ new[j] = e /\ i \in 1 .. L /\ i <= n
      BY <1>1, <1>7, <1>10, <1>12, <2>2
    <3> QED  BY <1>8, <3>1
  <2>3. CASE j > n + 1
    <3>1. new[j] = q[j - 1] /\ j - 1 \in 1 .. L /\ ~ (j - 1 <= n)
      BY <1>1, <1>7, <1>10, <2>3
    <3>2. CASE i <= n
      <4>1. new[i] = q[i] /\ i \in 1 .. L /\ i < j - 1
        BY <1>1, <1>7, <1>10, <2>3, <3>2
      <4> QED  BY <1>2, <3>1, <4>1
    <3>3. CASE i = n + 1
      <4>1. new[i] = e
        BY <1>1, <1>7, <1>10, <3>3
      <4> QED  BY <1>4, <1>8, <3>1, <4>1
    <3>4. CASE i > n + 1
      <4>1. new[i] = q[i - 1] /\ i - 1 \in 1 .. L /\ i - 1 < j - 1
        BY <1>1, <1>7, <1>10, <1>12, <3>4
      <4> QED  BY <1>2, <3>1, <4>1
    <3> QED  BY <1>1, <1>7, <3>2, <3>3, <3>4
  <2> QED  BY <1>1, <1>7, <2>1, <2>2, <2>3
<1>13. ASSUME NEW i \in 1 .. L + 1 PROVE new[i].seq < seq + 1
  <2>1. e.seq = seq
    BY DEF e
  <2>2. CASE i <= n
    <3>1. new[i] = q[i] /\ i \in 1 .. L
      BY <1>1, <1>7, <1>10, <2>2
    <3>2. q[i].seq < seq /\ q[i].seq \in Int
      BY <1>1, <3>1 DEF Entries
    <3> QED  BY <1>1, <3>1, <3>2
  <2>3. CASE i = n + 1
    <3>1. new[i] = e
      BY <1>1, <1>7, <1>10, <2>3
    <3> QED  BY <1>1, <2>1, <3>1
  <2>4. CASE i > n + 1
    <3>1. new[i] = q[i - 1] /\ i - 1 \in 1 .. L
      BY <1>1, <1>7, <1>10, <2>4
    <3>2. q[i - 1].seq < seq /\ q[i - 1].seq \in Int
      BY <1>1, <3>1 DEF Entries
    <3> QED  BY <1>1, <3>1, <3>2
  <2> QED  BY <1>1, <1>7, <2>2, <2>3, <2>4
<1>14. QueueOK(new, seq + 1)
  BY <1>1, <1>10, <1>11, <1>12, <1>13 DEF QueueOK, InOrder
<1> QED  BY <1>14 DEF new, e

LEMMA QueueKept ==
  ASSUME NEW r \in SingleRequests, r.tool = "task_queue", ~ Fails(r), NEW s, StoresOK(s)
  PROVE  StoresOK(TaskQueue(r, s))
<1> DEFINE t == TaskQueue(r, s)
<1>1. QueueOK(s.queue, s.seq)
  BY DEF StoresOK
<1>2. r.op \in {"push", "pop", "clear"} /\ (r.op = "push" => r.priority \in Int)
  BY DEF SingleRequests, Fails
<1>3. /\ t = [queue |-> t.queue, seq |-> t.seq, kv |-> t.kv, cron |-> t.cron]
      /\ t.kv = s.kv /\ t.cron = s.cron
      /\ t.seq = IF r.op = "push" THEN s.seq + 1 ELSE s.seq
      /\ r.op = "push" => t.queue = Insorted(s.queue, [priority |-> r.priority, seq |-> s.seq])
      /\ r.op = "pop" => t.queue = IF s.queue = << >> THEN s.queue ELSE Tail(s.queue)
      /\ r.op = "clear" => t.queue = << >>
  <2> DEFINE q == CASE r.op = "push" -> Insorted(s.queue, [priority |-> r.priority, seq |-> s.seq])
                    [] r.op = "pop" -> IF s.queue = << >> THEN s.queue ELSE Tail(s.queue)
                    [] r.op = "clear" -> << >>
             m == IF r.op = "push" THEN s.seq + 1 ELSE s.seq
  <2>1. s = [queue |-> s.queue, seq |-> s.seq, kv |-> s.kv, cron |-> s.cron]
    BY DEF StoresOK
  <2>2. t = [s EXCEPT !.queue = q, !.seq = m]
    BY DEF TaskQueue
  <2>3. /\ r.op = "push" => q = Insorted(s.queue, [priority |-> r.priority, seq |-> s.seq])
        /\ r.op = "pop" => q = IF s.queue = << >> THEN s.queue ELSE Tail(s.queue)
        /\ r.op = "clear" => q = << >>
    BY <1>2
  <2> HIDE DEF t, q, m
  <2>4. t = [queue |-> q, seq |-> m, kv |-> s.kv, cron |-> s.cron]
    BY <2>1, <2>2
  <2> QED  BY <2>3, <2>4 DEF m
<1> HIDE DEF t
<1>4. QueueOK(t.queue, t.seq)
  <2>1. CASE r.op = "push"
    BY <1>1, <1>2, <1>3, <2>1, InsertKeepsOrder
  <2>2. CASE r.op = "clear"
    <3>1. t.queue = << >> /\ t.seq = s.seq
      BY <1>3, <2>2
    <3>2. << >> \in Seq(Entries) /\ \A i \in DOMAIN << >> : FALSE
      OBVIOUS
    <3> QED  BY <1>1, <3>1, <3>2 DEF QueueOK, InOrder
  <2>3. CASE r.op = "pop" /\ s.queue = << >>
    BY <1>1, <1>3, <2>3
  <2>4. CASE r.op = "pop" /\ s.queue # << >>
    <3> DEFINE q == s.queue
               p == Tail(q)
    <3>1. q \in Seq(Entries) /\ q # << >>
      BY <1>1, <2>4 DEF QueueOK
    <3> HIDE DEF q
    <3>2. /\ p \in Seq(Entries) /\ Len(p) = Len(q) - 1 /\ Len(q) \in Nat
          /\ DOMAIN p = 1 .. Len(q) - 1 /\ DOMAIN q = 1 .. Len(q)
          /\ \A i \in 1 .. Len(q) - 1 : p[i] = q[i + 1]
      BY <3>1
    <3> HIDE DEF p
    <3>3. \A i \in DOMAIN p : i \in Nat /\ i + 1 \in DOMAIN q /\ p[i] = q[i + 1]
      BY <3>2
    <3>4. InOrder(q) /\ \A i \in DOMAIN q : q[i].seq < s.seq
      BY <1>1 DEF QueueOK, q
    <3>5. InOrder(p)
      <4> SUFFICES ASSUME NEW i \in DOMAIN p, NEW j \in DOMAIN p, i < j
                   PROVE  Sooner(p[i], p[j])
        BY DEF InOrder
      <4>1. i + 1 < j + 1
        BY <3>3
      <4> QED  BY <3>3, <3>4, <4>1 DEF InOrder
    <3>6. t.queue = p /\ t.seq = s.seq
      BY <1>3, <2>4 DEF p, q
    <3>7. QueueOK(p, s.seq)
      BY <1>1, <3>2, <3>3, <3>4, <3>5 DEF QueueOK
    <3> QED  BY <3>6, <3>7
  <2> QED  BY <1>2, <2>1, <2>2, <2>3, <2>4
<1>5. StoresOK(t)
  BY <1>3, <1>4 DEF StoresOK
<1> QED  BY <1>5 DEF t

LEMMA KeysKept ==
  ASSUME ToolsAssumption, NEW r \in SingleRequests, r.tool = "key_value_db", ~ Fails(r),
         NEW at \in Nat, NEW s, StoresOK(s)
  PROVE  StoresOK(KeyValueDb(r, at, s))
<1> DEFINE t == KeyValueDb(r, at, s)
           keep == CASE r.op = "get" -> DOMAIN s.kv \ ({r.key} \ KeysOf(s, at))
                     [] r.op = "set" -> DOMAIN s.kv \cup {r.key}
                     [] r.op = "delete" -> DOMAIN s.kv \ {r.key}
                     [] r.op = "flush" -> {}
           kv == [k \in keep |-> IF r.op = "set" /\ k = r.key
                                 THEN IF r.ttl = Never THEN Never ELSE at + r.ttl
                                 ELSE s.kv[k]]
<1>1. /\ r.op \in {"get", "set", "delete", "flush"}
      /\ r.op # "flush" => r.key \in StoreKeys
      /\ r.op = "set" => r.ttl \in Int
  BY DEF SingleRequests, Fails
<1>2. /\ s = [queue |-> s.queue, seq |-> s.seq, kv |-> s.kv, cron |-> s.cron]
      /\ DOMAIN s.kv \subseteq StoreKeys /\ \A k \in DOMAIN s.kv : s.kv[k] \in Int
  BY DEF StoresOK
<1>3. t = [s EXCEPT !.kv = kv]
  BY DEF KeyValueDb
<1>4. /\ r.op = "get" => keep \subseteq DOMAIN s.kv
      /\ r.op = "set" => keep = DOMAIN s.kv \cup {r.key}
      /\ r.op = "delete" => keep \subseteq DOMAIN s.kv
      /\ r.op = "flush" => keep = {}
  BY <1>1
<1> HIDE DEF t, keep
<1>5. /\ keep \subseteq StoreKeys
      /\ \A k \in keep : k \in DOMAIN s.kv \/ (r.op = "set" /\ k = r.key)
  BY <1>1, <1>2, <1>4
<1>6. Never \in Int
  BY DEF Never, ToolsAssumption
<1>7. DOMAIN kv \subseteq StoreKeys /\ \A k \in DOMAIN kv : kv[k] \in Int
  <2>1. DOMAIN kv = keep
    OBVIOUS
  <2>2. ASSUME NEW k \in keep PROVE kv[k] \in Int
    <3>1. CASE r.op = "set" /\ k = r.key
      <4>1. kv[k] = IF r.ttl = Never THEN Never ELSE at + r.ttl
        BY <3>1
      <4> HIDE DEF kv
      <4> QED  BY <1>1, <1>6, <3>1, <4>1
    <3>2. CASE ~ (r.op = "set" /\ k = r.key)
      BY <1>2, <1>5, <3>2
    <3> QED  BY <3>1, <3>2
  <2> QED  BY <1>5, <2>1, <2>2
<1> HIDE DEF kv
<1>8. t = [queue |-> s.queue, seq |-> s.seq, kv |-> kv, cron |-> s.cron]
  BY <1>2, <1>3
<1>9. StoresOK(t)
  BY <1>7, <1>8 DEF StoresOK
<1> QED  BY <1>9 DEF t

LEMMA FiringStaysPunctual ==
  ASSUME NEW e, Punctual(e), NEW at \in Nat, Due(e, at)
  PROVE  Punctual([e EXCEPT !.last = at, !.fires = @ + 1])
<1> DEFINE f == [e EXCEPT !.last = at, !.fires = @ + 1]
<1>1. /\ e \in CronEntries /\ e.since + e.fires * e.every <= e.last
      /\ at >= e.last + e.every
  BY DEF Punctual, Due
<1>2. /\ f \in CronEntries /\ f.since = e.since /\ f.every = e.every
      /\ f.fires = e.fires + 1 /\ f.last = at
  <2>1. e \in CronEntries
    BY <1>1
  <2>2. e = [every |-> e.every, since |-> e.since, last |-> e.last, fires |-> e.fires]
    BY <2>1 DEF CronEntries
  <2>3. f = [every |-> e.every, since |-> e.since, last |-> at, fires |-> e.fires + 1]
    <3> DEFINE m == e.fires + 1
    <3>1. f = [e EXCEPT !.last = at, !.fires = m]
      OBVIOUS
    <3> HIDE DEF m, f
    <3>2. f = [every |-> e.every, since |-> e.since, last |-> at, fires |-> m]
      BY ONLY <2>2, <3>1
    <3> QED  BY <3>2 DEF m
  <2>4. e.every \in Nat \ {0} /\ e.since \in Nat /\ e.fires \in Nat
    BY <2>1 DEF CronEntries
  <2> HIDE DEF f
  <2> QED  BY <2>3, <2>4 DEF CronEntries
<1>3. /\ e.since \in Nat /\ e.fires \in Nat /\ e.every \in Nat /\ e.last \in Nat
  BY <1>1 DEF CronEntries
<1>4. (e.fires + 1) * e.every = e.fires * e.every + e.every /\ e.fires * e.every \in Nat
  BY <1>3
<1> HIDE DEF f
<1>5. f.since + f.fires * f.every <= f.last
  <2> DEFINE p == e.fires * e.every
  <2>1. p \in Nat /\ (e.fires + 1) * e.every = p + e.every /\ e.since + p <= e.last
    BY <1>1, <1>4
  <2> HIDE DEF p
  <2>2. e.since + (p + e.every) <= at
    BY <1>1, <1>3, <2>1
  <2>3. f.since + f.fires * f.every = e.since + (p + e.every)
    BY <1>2, <2>1
  <2> QED  BY <1>2, <2>2, <2>3
<1>6. Punctual(f)
  BY <1>2, <1>5 DEF Punctual
<1> QED  BY <1>6 DEF f

LEMMA EntriesKept ==
  ASSUME NEW r \in SingleRequests, r.tool = "cron_scheduler", ~ Fails(r),
         NEW at \in Nat, NEW s, StoresOK(s)
  PROVE  StoresOK(CronScheduler(r, at, s))
<1> DEFINE t == CronScheduler(r, at, s)
           old == s.cron
           new == [every |-> r.every, since |-> at, last |-> at, fires |-> 0]
           cron == CASE r.op = "register" ->
                          [n \in DOMAIN old \cup {r.key} |-> IF n = r.key THEN new ELSE old[n]]
                     [] r.op = "unregister" -> [n \in DOMAIN old \ {r.key} |-> old[n]]
                     [] r.op = "tick" ->
                          [n \in DOMAIN old |->
                             IF Due(old[n], at) THEN [old[n] EXCEPT !.last = at, !.fires = @ + 1]
                             ELSE old[n]]
<1>1. /\ r.op \in {"register", "unregister", "tick"}
      /\ r.op = "register" => r.every \in Nat \ {0}
  BY DEF SingleRequests, Fails
<1>2. /\ s = [queue |-> s.queue, seq |-> s.seq, kv |-> s.kv, cron |-> s.cron]
      /\ \A n \in DOMAIN old : Punctual(old[n])
  BY DEF StoresOK
<1>3. t = [s EXCEPT !.cron = cron]
  BY DEF CronScheduler
<1>4. r.op = "register" => Punctual(new)
  <2>1. SUFFICES ASSUME r.op = "register" PROVE Punctual(new)
    OBVIOUS
  <2>2. new \in CronEntries /\ new.since + new.fires * new.every = at + 0 * r.every
    BY <1>1, <2>1 DEF CronEntries
  <2>3. at + 0 * r.every = at /\ new.last = at
    BY <1>1, <2>1
  <2> QED  BY <2>2, <2>3 DEF Punctual
<1> HIDE DEF t, old, new
<1>5. \A n \in DOMAIN cron : Punctual(cron[n])
  <2>1. CASE r.op = "register"
    <3>1. cron = [n \in DOMAIN old \cup {r.key} |-> IF n = r.key THEN new ELSE old[n]]
      BY <2>1
    <3> HIDE DEF cron
    <3> QED  BY <1>2, <1>4, <2>1, <3>1
  <2>2. CASE r.op = "unregister"
    <3>1. cron = [n \in DOMAIN old \ {r.key} |-> old[n]]
      BY <2>2
    <3> HIDE DEF cron
    <3> QED  BY <1>2, <3>1
  <2>3. CASE r.op = "tick"
    <3>1. cron = [n \in DOMAIN old |->
                    IF Due(old[n], at) THEN [old[n] EXCEPT !.last = at, !.fires = @ + 1]
                    ELSE old[n]]
      BY <2>3
    <3> HIDE DEF cron
    <3>2. ASSUME NEW n \in DOMAIN old PROVE Punctual(cron[n])
      <4>1. CASE Due(old[n], at)
        <5>1. cron[n] = [old[n] EXCEPT !.last = at, !.fires = @ + 1]
          BY <3>1, <4>1
        <5>2. Punctual(old[n])
          BY <1>2
        <5> DEFINE e == old[n]
        <5>3. Punctual(e) /\ Due(e, at)
          BY <4>1, <5>2
        <5> HIDE DEF e
        <5>4. Punctual([e EXCEPT !.last = at, !.fires = @ + 1])
          BY <5>3, FiringStaysPunctual
        <5> QED  BY <5>1, <5>4 DEF e
      <4>2. CASE ~ Due(old[n], at)
        BY <1>2, <3>1, <4>2
      <4> QED  BY <4>1, <4>2
    <3>3. DOMAIN cron = DOMAIN old
      BY <3>1
    <3> QED  BY <3>2, <3>3
  <2> QED  BY <1>1, <2>1, <2>2, <2>3
<1> HIDE DEF cron
<1>6. t = [queue |-> s.queue, seq |-> s.seq, kv |-> s.kv, cron |-> cron]
  BY <1>2, <1>3
<1>7. StoresOK(t)
  BY <1>5, <1>6 DEF StoresOK
<1> QED  BY <1>7 DEF t

LEMMA StoresKept ==
  ASSUME ToolsAssumption, NEW r \in SingleRequests, NEW at \in Nat, NEW s, StoresOK(s)
  PROVE  StoresOK(Single(r, at, s))
<1>1. r.tool \in {"task_queue", "key_value_db", "cron_scheduler"}
  BY DEF SingleRequests, ToolNames
<1>2. /\ Fails(r) => Single(r, at, s) = s
      /\ ~ Fails(r) /\ r.tool = "task_queue" => Single(r, at, s) = TaskQueue(r, s)
      /\ ~ Fails(r) /\ r.tool = "key_value_db" => Single(r, at, s) = KeyValueDb(r, at, s)
      /\ ~ Fails(r) /\ r.tool = "cron_scheduler" => Single(r, at, s) = CronScheduler(r, at, s)
  BY DEF Single
<1>3. /\ ~ Fails(r) /\ r.tool = "task_queue" => StoresOK(TaskQueue(r, s))
      /\ ~ Fails(r) /\ r.tool = "key_value_db" => StoresOK(KeyValueDb(r, at, s))
      /\ ~ Fails(r) /\ r.tool = "cron_scheduler" => StoresOK(CronScheduler(r, at, s))
  BY QueueKept, KeysKept, EntriesKept
<1> QED  BY <1>1, <1>2, <1>3

\* A pipeline is as good as its stages, however many of them run.
LEMMA PipelineKeeps ==
  ASSUME ToolsAssumption, NEW stages \in Seq(SingleRequests), NEW at \in Nat,
         NEW s, StoresOK(s)
  PROVE  StoresOK(DataPipeline(stages, at, s))
<1> DEFINE L == Len(stages)
           Fail(k) == \E i \in 1 .. k : Fails(stages[i])
           Next1(f, k) == IF k = 0 THEN s
                          ELSE IF Fail(k) THEN f[k - 1]
                          ELSE Single(stages[k], at, f[k - 1])
           Upto(f, n) == f = [k \in 0 .. n |-> Next1(f, k)]
           bad == {n \in 0 .. L : ~ \E f : Upto(f, n)}
           reached == CHOOSE f : Upto(f, L)
           wrong == {k \in 0 .. L : ~ StoresOK(reached[k])}
<1>1. L \in Nat /\ \A k \in 1 .. L : stages[k] \in SingleRequests
  OBVIOUS
<1>2. DataPipeline(stages, at, s) = reached[L]
  BY DEF DataPipeline
<1> HIDE DEF L, Fail
<1>3. bad = {}
  <2>1. SUFFICES ASSUME bad # {} PROVE FALSE
    OBVIOUS
  <2>2. bad \in SUBSET Nat
    BY <1>1
  <2>3. PICK n \in bad : \A i \in bad : n <= i
    BY <2>1, <2>2, LeastElement
  <2>4. n \in 0 .. L /\ ~ \E f : Upto(f, n)
    BY <2>3
  <2>5. n # 0
    <3> DEFINE g == [k \in 0 .. 0 |-> s]
    <3>1. Upto(g, 0)
      OBVIOUS
    <3> HIDE DEF Upto
    <3> QED  BY <2>4, <3>1
  <2>6. n - 1 \in 0 .. L /\ n - 1 \notin bad
    <3> HIDE DEF bad
    <3>1. n - 1 \in 0 .. L /\ ~ (n <= n - 1)
      BY <1>1, <2>4, <2>5
    <3> QED  BY <2>3, <3>1
  <2>7. PICK f : Upto(f, n - 1)
    BY <2>6
  <2> DEFINE g == [k \in 0 .. n |-> IF k = n THEN Next1(f, n) ELSE f[k]]
  <2>8. ASSUME NEW k \in 0 .. n PROVE g[k] = Next1(g, k)
    <3>1. n \in Nat /\ k \in Nat
      BY <1>1, <2>4
    <3>2. k # 0 => k - 1 \in 0 .. n - 1 /\ k - 1 # n
      BY <3>1
    <3>3. k # 0 => g[k - 1] = f[k - 1]
      BY <3>1, <3>2
    <3>4. Next1(g, k) = Next1(f, k)
      <4> HIDE DEF g
      <4> QED  BY <3>3
    <3>5. k # n => f[k] = Next1(f, k)
      <4>1. k # n => k \in 0 .. n - 1
        BY <3>1
      <4> HIDE DEF Next1
      <4> QED  BY <2>7, <4>1
    <3> HIDE DEF Next1
    <3> QED  BY <3>4, <3>5
  <2>9. Upto(g, n)
    <3>1. g = [k \in 0 .. n |-> g[k]]
      OBVIOUS
    <3> HIDE DEF g, Next1
    <3> QED  BY <2>8, <3>1
  <2> HIDE DEF Upto, g
  <2> QED  BY <2>4, <2>9
<1>4. \A k \in 0 .. L : reached[k] = Next1(reached, k)
  <2>1. L \in 0 .. L
    BY <1>1
  <2>2. \E f : Upto(f, L)
    BY <1>3, <2>1
  <2> HIDE DEF Upto
  <2>3. Upto(reached, L)
    BY <2>2
  <2> HIDE DEF reached, Next1
  <2> QED  BY <2>3 DEF Upto
<1> HIDE DEF reached
<1>5. wrong = {}
  <2>1. SUFFICES ASSUME wrong # {} PROVE FALSE
    OBVIOUS
  <2>2. wrong \in SUBSET Nat
    BY <1>1
  <2>3. PICK k \in wrong : \A i \in wrong : k <= i
    BY <2>1, <2>2, LeastElement
  <2>4. k \in 0 .. L /\ ~ StoresOK(reached[k])
    BY <2>3
  <2>5. k # 0
    <3>1. k = 0 => reached[k] = s
      BY <1>4, <2>4
    <3> QED  BY <2>4, <3>1
  <2>6. StoresOK(reached[k - 1])
    <3>1. k - 1 \in 0 .. L /\ ~ (k <= k - 1)
      BY <1>1, <2>4, <2>5
    <3>2. k - 1 \notin wrong
      <4> HIDE DEF wrong
      <4> QED  BY <2>3, <3>1
    <3> QED  BY <3>1, <3>2
  <2>7. reached[k] = reached[k - 1] \/ reached[k] = Single(stages[k], at, reached[k - 1])
    BY <1>4, <2>4, <2>5
  <2>8. stages[k] \in SingleRequests
    BY <1>1, <2>4, <2>5
  <2> HIDE DEF Next1
  <2> QED  BY <2>4, <2>6, <2>7, <2>8, StoresKept
<1>6. L \in 0 .. L
  BY <1>1
<1> QED  BY <1>2, <1>5, <1>6

LEMMA RequestKeepsStores ==
  ASSUME ToolsAssumption, NEW r \in Requests, NEW at \in Nat, StoresOK(stores)
  PROVE  StoresOK(After(r, at, stores)) /\ r.tool \in ToolNames
<1>1. r \in SingleRequests \/ r \in PipelineRequests
  BY DEF ToolsAssumption
<1>2. CASE r \in SingleRequests
  <2>1. r.tool \in ToolNames \ {"data_pipeline"}
    BY <1>2 DEF SingleRequests, ToolNames
  <2>2. After(r, at, stores) = Single(r, at, stores)
    BY <2>1 DEF After
  <2> QED  BY <1>2, <2>1, <2>2, StoresKept
<1>3. CASE r \in PipelineRequests
  <2>1. r.tool = "data_pipeline" /\ r.stages \in Seq(SingleRequests)
    BY <1>3 DEF PipelineRequests
  <2>2. After(r, at, stores) = DataPipeline(r.stages, at, stores)
    BY <2>1 DEF After
  <2> QED  BY <2>1, <2>2, PipelineKeeps DEF ToolNames
<1> QED  BY <1>1, <1>2, <1>3

LEMMA PlacesAreFinite ==
  /\ \A a, tool, tick : \A l \in Seq(Calls) :
       /\ IsFiniteSet(Logged(l, a, tool, tick))
       /\ Cardinality(Logged(l, a, tool, tick)) \in Nat
  /\ \A tick : \A h \in Seq(Nat) :
       /\ IsFiniteSet(Kept(h, tick)) /\ Cardinality(Kept(h, tick)) \in Nat
       /\ Cardinality(Kept(h, tick)) <= Len(h) /\ Len(h) \in Nat
<1>1. ASSUME NEW n \in Nat, NEW S \in SUBSET (1 .. n)
      PROVE  IsFiniteSet(S) /\ Cardinality(S) \in Nat /\ Cardinality(S) <= n
  <2>1. IsFiniteSet(1 .. n) /\ Cardinality(1 .. n) = n
    BY FS_Interval
  <2>2. IsFiniteSet(S) /\ Cardinality(S) <= Cardinality(1 .. n)
    BY <2>1, FS_Subset
  <2> QED  BY <2>1, <2>2, FS_CardinalityType
<1>2. ASSUME NEW l \in Seq(Calls), NEW a, NEW tool, NEW tick
      PROVE  /\ IsFiniteSet(Logged(l, a, tool, tick))
             /\ Cardinality(Logged(l, a, tool, tick)) \in Nat
  <2>1. Len(l) \in Nat /\ Logged(l, a, tool, tick) \in SUBSET (1 .. Len(l))
    BY DEF Logged
  <2> QED  BY <1>1, <2>1
<1>3. ASSUME NEW h \in Seq(Nat), NEW tick
      PROVE  /\ IsFiniteSet(Kept(h, tick)) /\ Cardinality(Kept(h, tick)) \in Nat
             /\ Cardinality(Kept(h, tick)) <= Len(h) /\ Len(h) \in Nat
  <2>1. Len(h) \in Nat /\ Kept(h, tick) \in SUBSET (1 .. Len(h))
    BY DEF Kept, Marked
  <2> QED  BY <1>1, <2>1
<1> QED  BY <1>2, <1>3

LEMMA RecentCounts ==
  ASSUME ToolsAssumption, ToolsInv, NEW a \in Callers, NEW tool \in DOMAIN specs
  PROVE  /\ Recent(tool, a) \in Seq(Nat)
         /\ Covered(log, Recent(tool, a), a, tool, currentTick)
<1> DEFINE h == callHistory[<<a, tool>>]
           P == {i \in DOMAIN h : InWindow(h[i])}
<1>1. /\ tool \in ToolNames /\ currentTick \in Nat /\ Window \in Nat /\ h \in Seq(Nat)
      /\ Covered(log, h, a, tool, currentTick)
  BY DEF ToolsInv, SpecsOK, HistoryOK, ToolsAssumption
<1>2. CASE specs[tool].limit = 0
  BY <1>1, <1>2 DEF Recent
<1>3. CASE specs[tool].limit # 0
  <2>1. Recent(tool, a) = Selected(h, P)
    BY <1>3 DEF Recent
  <2>2. P \in SUBSET DOMAIN h /\ \A tick \in Nat : Since(tick) \in SUBSET Nat
    BY DEF Since
  <2>3. ASSUME NEW tick \in Nat, tick >= currentTick
        PROVE  Kept(h, tick) = Marked(h, P, Since(tick))
    <3>1. ASSUME NEW i \in DOMAIN h, h[i] \in Since(tick) PROVE InWindow(h[i])
      <4>1. h[i] \in Nat /\ h[i] + Window >= tick
        BY <3>1 DEF Since
      <4> HIDE DEF h
      <4> QED  BY <1>1, <2>3, <4>1 DEF InWindow
    <3> HIDE DEF h
    <3> QED  BY <3>1 DEF Kept, Marked
  <2> HIDE DEF h, P
  <2>4. Selected(h, P) \in Seq(Nat)
    <3>1. h \in Seq(Nat) /\ P \in SUBSET DOMAIN h
      BY <1>1, <2>2
    <3> QED  BY ONLY <3>1, SelectedCounts
  <2>5. ASSUME NEW tick \in Nat, tick >= currentTick
        PROVE  Cardinality(Logged(log, a, tool, tick)) <= Cardinality(Kept(Selected(h, P), tick))
    <3>1. Cardinality(Marked(h, P, Since(tick)))
            <= Cardinality(Marked(Selected(h, P), DOMAIN Selected(h, P), Since(tick)))
      <4>1. h \in Seq(Nat) /\ P \in SUBSET DOMAIN h
        BY <1>1, <2>2
      <4> QED  BY ONLY <4>1, SelectedCounts
    <3>2. Cardinality(Kept(h, tick)) <= Cardinality(Kept(Selected(h, P), tick))
      BY <2>3, <2>5, <3>1 DEF Kept
    <3>3. Cardinality(Logged(log, a, tool, tick)) <= Cardinality(Kept(h, tick))
      BY <1>1, <2>5 DEF Covered
    <3>4. /\ Cardinality(Logged(log, a, tool, tick)) \in Nat
          /\ Cardinality(Kept(h, tick)) \in Nat
          /\ Cardinality(Kept(Selected(h, P), tick)) \in Nat
      BY <1>1, <2>4, PlacesAreFinite DEF ToolsInv, LogOK
    <3> QED  BY <3>2, <3>3, <3>4
  <2> QED  BY <2>1, <2>4, <2>5 DEF Covered
<1> QED  BY <1>2, <1>3

\* A call that is made is counted in the log and in the history alike.
LEMMA CallCounts ==
  ASSUME ToolsAssumption, NEW l \in Seq(Calls), NEW h \in Seq(Nat), NEW c \in Nat,
         NEW a \in Callers, NEW tool \in ToolNames, NEW limit \in Nat,
         Covered(l, h, a, tool, c)
  PROVE  LET call == [agent |-> a, tool |-> tool, tick |-> c, limit |-> limit]
         IN  /\ Append(l, call) \in Seq(Calls)
             /\ Covered(Append(l, call), Append(h, c), a, tool, c)
<1> DEFINE call == [agent |-> a, tool |-> tool, tick |-> c, limit |-> limit]
           m == Append(l, call)
           g == Append(h, c)
<1>1. /\ call \in Calls /\ call.agent = a /\ call.tool = tool /\ call.tick = c
  BY DEF Calls
<1> HIDE DEF call
<1>2. /\ m \in Seq(Calls) /\ DOMAIN m = DOMAIN l \cup {Len(l) + 1} /\ Len(l) + 1 \notin DOMAIN l
      /\ \A i \in DOMAIN l : m[i] = l[i]
      /\ m[Len(l) + 1] = call
  BY <1>1, AppendFacts
<1>3. /\ g \in Seq(Nat) /\ DOMAIN g = DOMAIN h \cup {Len(h) + 1} /\ Len(h) + 1 \notin DOMAIN h
      /\ \A i \in DOMAIN h : g[i] = h[i]
      /\ g[Len(h) + 1] = c
  BY AppendFacts
<1> HIDE DEF m, g
<1>4. ASSUME NEW tick \in Nat, tick >= c
      PROVE  Cardinality(Logged(m, a, tool, tick)) <= Cardinality(Kept(g, tick))
  <2> DEFINE A == Logged(l, a, tool, tick)
             B == Kept(h, tick)
             C == Logged(m, a, tool, tick)
             D == Kept(g, tick)
  <2>1. /\ IsFiniteSet(A) /\ Cardinality(A) \in Nat
        /\ IsFiniteSet(B) /\ Cardinality(B) \in Nat
    BY PlacesAreFinite
  <2>2. Cardinality(A) <= Cardinality(B)
    BY <1>4 DEF Covered
  <2>3. CASE c + Window >= tick
    <3>1. C = A \cup {Len(l) + 1} /\ Len(l) + 1 \notin A
      BY <1>1, <1>2, <2>3 DEF Logged
    <3>2. D = B \cup {Len(h) + 1} /\ Len(h) + 1 \notin B
      BY <1>3, <2>3 DEF Kept, Marked, Since
    <3> HIDE DEF A, B, C, D
    <3>3. Cardinality(C) = Cardinality(A) + 1 /\ Cardinality(D) = Cardinality(B) + 1
      BY <2>1, <3>1, <3>2, FS_AddElement
    <3> QED  BY <2>1, <2>2, <3>3 DEF C, D
  <2>4. CASE ~ (c + Window >= tick)
    <3>1. C = A
      BY <1>1, <1>2, <2>4 DEF Logged
    <3>2. D = B
      BY <1>3, <2>4 DEF Kept, Marked, Since
    <3> QED  BY <2>2, <3>1, <3>2
  <2> QED  BY <2>3, <2>4
<1>5. Covered(m, g, a, tool, c)
  BY <1>4 DEF Covered
<1> QED  BY <1>2, <1>5 DEF m, g, call

LEMMA OtherCallsCount ==
  ASSUME NEW l \in Seq(Calls), NEW h \in Seq(Nat), NEW c \in Nat,
         NEW call \in Calls, NEW a, NEW tool, <<call.agent, call.tool>> # <<a, tool>>,
         Covered(l, h, a, tool, c)
  PROVE  Covered(Append(l, call), h, a, tool, c)
<1> DEFINE m == Append(l, call)
<1>1. /\ DOMAIN m = DOMAIN l \cup {Len(l) + 1}
      /\ \A i \in DOMAIN l : m[i] = l[i]
      /\ m[Len(l) + 1] = call
  BY AppendFacts
<1> HIDE DEF m
<1>2. \A tick \in Nat : Logged(m, a, tool, tick) = Logged(l, a, tool, tick)
  BY <1>1 DEF Logged
<1>3. Covered(m, h, a, tool, c)
  BY <1>2 DEF Covered
<1> QED  BY <1>3 DEF m

\* The limit that the new call respects is that of its burst.
LEMMA BurstsStayShort ==
  ASSUME ToolsAssumption, LogOK, currentTick \in Nat, NEW h \in Seq(Nat),
         NEW a \in Callers, NEW tool \in ToolNames, NEW limit \in Nat,
         limit > 0 => Len(h) <= limit,
         log' = Append(log, [agent |-> a, tool |-> tool, tick |-> currentTick, limit |-> limit]),
         log' \in Seq(Calls), Covered(log', h, a, tool, currentTick)
  PROVE  LogOK'
<1> DEFINE call == [agent |-> a, tool |-> tool, tick |-> currentTick, limit |-> limit]
<1>1. /\ call \in Calls /\ call.agent = a /\ call.tool = tool /\ call.tick = currentTick
      /\ call.limit = limit
  BY DEF Calls
<1>2. log \in Seq(Calls) /\ log' = Append(log, call)
  BY DEF LogOK
<1> HIDE DEF call
<1>n. PICK n \in Nat : n = Len(log)
  BY <1>2
<1>3. /\ DOMAIN log = 1 .. n /\ DOMAIN log' = 1 .. n + 1
      /\ \A i \in 1 .. n : log'[i] = log[i]
      /\ log'[n + 1] = call
  BY <1>1, <1>2, <1>n
<1>4. ASSUME NEW i \in 1 .. n PROVE Burst(i)' = Burst(i)
  <2>1. 1 .. i \subseteq 1 .. n /\ i \in 1 .. i
    BY <1>3
  <2> QED  BY <1>3, <2>1 DEF Burst
<1>5. Burst(n + 1)' = Logged(log', a, tool, currentTick)
  <2>1. /\ log'[n + 1].agent = a /\ log'[n + 1].tool = tool /\ log'[n + 1].tick = currentTick
    BY <1>1, <1>3
  <2> QED  BY <1>3, <2>1 DEF Burst, Logged
<1>6. limit > 0 => Cardinality(Burst(n + 1)') <= limit
  <2> DEFINE K == Kept(h, currentTick)
             B == Logged(log', a, tool, currentTick)
  <2>1. Cardinality(B) <= Cardinality(K)
    BY DEF Covered
  <2>2. /\ Cardinality(K) \in Nat /\ Cardinality(K) <= Len(h) /\ Len(h) \in Nat
        /\ Cardinality(B) \in Nat
    BY PlacesAreFinite
  <2>3. Cardinality(Burst(n + 1)') = Cardinality(B)
    BY <1>5
  <2> HIDE DEF B, K
  <2> QED  BY <2>1, <2>2, <2>3
<1>7. ASSUME NEW i \in 1 .. n + 1, log'[i].limit > 0
      PROVE  Cardinality(Burst(i)') <= log'[i].limit
  <2>1. CASE i = n + 1
    <3>1. log'[i].limit = limit /\ Cardinality(Burst(i)') = Cardinality(Burst(n + 1)')
      BY <1>1, <1>3, <2>1
    <3> QED  BY <1>6, <1>7, <3>1
  <2>2. CASE i # n + 1
    <3>1. i \in 1 .. n
      BY <1>3, <2>2
    <3> QED  BY <1>3, <1>4, <1>7, <3>1 DEF LogOK
  <2> QED  BY <2>1, <2>2
<1> QED  BY <1>3, <1>7 DEF LogOK

LEMMA ToolsStart == ToolsAssumption /\ ToolsInit => ToolsInv
<1> SUFFICES ASSUME ToolsAssumption, ToolsInit PROVE ToolsInv
  OBVIOUS
<1> DEFINE h == << >>
<1>1. h \in Seq(Nat) /\ h \in Seq(Calls) /\ h \in Seq(Entries) /\ DOMAIN h = {}
  OBVIOUS
<1>2. /\ log = h /\ currentTick = 0 /\ callHistory = [x \in Callers \X ToolNames |-> h]
      /\ stores = [queue |-> h, seq |-> 0, kv |-> h, cron |-> h]
  BY DEF ToolsInit
<1>3. SpecsOK
  BY DEF ToolsInit, ToolsAssumption, SpecsOK, NewSpec
<1> HIDE DEF h
<1>4. LogOK
  BY <1>1, <1>2 DEF LogOK
<1>5. HistoryOK
  <2>1. \A a, tool : \A tick \in Nat : Logged(h, a, tool, tick) = {} /\ Kept(h, tick) = {}
    BY <1>1 DEF Logged, Kept, Marked
  <2>2. Cardinality({}) <= Cardinality({})
    BY FS_EmptySet
  <2>3. \A a, tool : Covered(h, h, a, tool, 0)
    BY <2>1, <2>2 DEF Covered
  <2>4. \A a \in Callers, tool \in ToolNames : callHistory[<<a, tool>>] = h
    BY <1>2
  <2> QED  BY <1>1, <1>2, <2>3, <2>4 DEF HistoryOK
<1>6. StoresOK(stores)
  <2>1. QueueOK(h, 0)
    BY <1>1 DEF QueueOK, InOrder
  <2> QED  BY <1>1, <1>2, <2>1 DEF StoresOK
<1> QED  BY <1>2, <1>3, <1>4, <1>5, <1>6 DEF ToolsInv

LEMMA TickKeeps ==
  ASSUME ToolsInv, SetTick
  PROVE  ToolsInv'
<1>1. /\ currentTick \in Nat /\ currentTick' = currentTick + 1
      /\ UNCHANGED <<specs, callHistory, stores, log>>
  BY DEF ToolsInv, SetTick
<1>2. SpecsOK' /\ LogOK'
  BY <1>1 DEF ToolsInv, SpecsOK, LogOK, Burst
<1>3. \A l, h, a, tool : Covered(l, h, a, tool, currentTick) => Covered(l, h, a, tool, currentTick')
  <2>1. \A tick \in Nat : tick >= currentTick' => tick >= currentTick
    BY <1>1
  <2> QED  BY <2>1 DEF Covered
<1>4. HistoryOK'
  BY <1>1, <1>3 DEF ToolsInv, HistoryOK
<1> QED  BY <1>1, <1>2, <1>4 DEF ToolsInv

LEMMA SpecsKeep ==
  ASSUME ToolsAssumption, ToolsInv, NEW tool \in Managed,
         \/ \E limit \in Limits : RegisterTool(tool, limit)
         \/ DeregisterTool(tool)
         \/ \E a \in Callers : GrantAccess(tool, a) \/ RevokeAccess(tool, a)
  PROVE  ToolsInv'
<1>1. tool \in ToolNames /\ Limits \subseteq Nat
  BY DEF ToolsAssumption
<1>2. SpecsOK
  BY DEF ToolsInv
<1>3. CASE \E limit \in Limits : RegisterTool(tool, limit)
  <2>1. PICK limit \in Limits : RegisterTool(tool, limit)
    BY <1>3
  <2>2. /\ UNCHANGED <<callHistory, currentTick, stores, log>>
        /\ specs' = [t \in DOMAIN specs \cup {tool} |-> IF t = tool THEN NewSpec(limit) ELSE specs[t]]
    BY <2>1 DEF RegisterTool
  <2>3. NewSpec(limit) \in [limit : Nat, allowed : SUBSET Callers]
    BY <1>1 DEF NewSpec
  <2>4. SpecsOK'
    BY <1>1, <1>2, <2>2, <2>3 DEF SpecsOK
  <2> QED  BY <2>2, <2>4 DEF ToolsInv, LogOK, Burst, HistoryOK
<1>4. CASE DeregisterTool(tool)
  <2>1. SpecsOK' /\ UNCHANGED <<callHistory, currentTick, stores, log>>
    BY <1>2, <1>4 DEF DeregisterTool, SpecsOK
  <2> QED  BY <2>1 DEF ToolsInv, LogOK, Burst, HistoryOK
<1>5. CASE \E a \in Callers : GrantAccess(tool, a) \/ RevokeAccess(tool, a)
  <2>1. PICK a \in Callers : GrantAccess(tool, a) \/ RevokeAccess(tool, a)
    BY <1>5
  <2>2. /\ UNCHANGED <<callHistory, currentTick, stores, log>> /\ tool \in DOMAIN specs
        /\ \/ specs' = [specs EXCEPT ![tool].allowed = @ \cup {a}]
           \/ specs' = [specs EXCEPT ![tool].allowed = @ \ {a}]
    BY <2>1 DEF GrantAccess, RevokeAccess
  <2>3. PICK allowed : specs' = [specs EXCEPT ![tool].allowed = allowed]
                       /\ allowed \in {specs[tool].allowed \cup {a}, specs[tool].allowed \ {a}}
    BY <2>2
  <2>4. specs[tool] \in [limit : Nat, allowed : SUBSET Callers]
    BY <1>2, <2>2 DEF SpecsOK
  <2>5. allowed \in SUBSET Callers
    BY <2>3, <2>4
  <2>6. [specs[tool] EXCEPT !.allowed = allowed] \in [limit : Nat, allowed : SUBSET Callers]
    BY <2>4, <2>5
  <2>7. /\ DOMAIN specs' = DOMAIN specs
        /\ \A t \in DOMAIN specs : specs'[t] = IF t = tool THEN [specs[tool] EXCEPT !.allowed = allowed]
                                               ELSE specs[t]
    BY <2>2, <2>3
  <2>8. SpecsOK'
    BY <1>2, <2>6, <2>7 DEF SpecsOK
  <2> QED  BY <2>2, <2>8 DEF ToolsInv, LogOK, Burst, HistoryOK
<1> QED  BY <1>3, <1>4, <1>5

\* An agent's history is replaced, those of others stay.
LEMMA HistoryReplaced ==
  ASSUME HistoryOK, NEW a \in Callers, NEW tool \in ToolNames, NEW h \in Seq(Nat),
         callHistory' = [callHistory EXCEPT ![<<a, tool>>] = h],
         currentTick' = currentTick,
         Covered(log', h, a, tool, currentTick),
         \A b \in Callers, u \in ToolNames :
           <<b, u>> # <<a, tool>> => Covered(log', callHistory[<<b, u>>], b, u, currentTick)
  PROVE  HistoryOK'
<1>1. DOMAIN callHistory = Callers \X ToolNames
  BY DEF HistoryOK
<1>2. DOMAIN callHistory' = Callers \X ToolNames /\ callHistory'[<<a, tool>>] = h
  BY <1>1
<1>3. \A b \in Callers, u \in ToolNames :
        <<b, u>> # <<a, tool>> => callHistory'[<<b, u>>] = callHistory[<<b, u>>]
  BY <1>1
<1>4. ASSUME NEW b \in Callers, NEW u \in ToolNames
      PROVE  /\ callHistory'[<<b, u>>] \in Seq(Nat)
             /\ Covered(log', callHistory'[<<b, u>>], b, u, currentTick)
  <2>1. CASE <<b, u>> = <<a, tool>>
    <3>1. b = a /\ u = tool
      BY <2>1
    <3> QED  BY <1>2, <3>1
  <2>2. CASE <<b, u>> # <<a, tool>>
    BY <1>3, <2>2 DEF HistoryOK
  <2> QED  BY <2>1, <2>2
<1> QED  BY <1>2, <1>4 DEF HistoryOK

LEMMA ExecuteKeeps ==
  ASSUME ToolsAssumption, ToolsInv, NEW a \in Callers, NEW r \in Requests,
         NEW at \in {0, currentTick}, Execute(a, r, at)
  PROVE  ToolsInv'
<1> DEFINE recent == Recent(r.tool, a)
           limit == specs[r.tool].limit
           refused == limit > 0 /\ Len(recent) >= limit
           call == [agent |-> a, tool |-> r.tool, tick |-> currentTick, limit |-> limit]
<1>1. /\ r.tool \in DOMAIN specs /\ r.tool \in ToolNames /\ limit \in Nat
      /\ at \in Nat /\ currentTick \in Nat
      /\ log \in Seq(Calls) /\ LogOK /\ HistoryOK /\ SpecsOK /\ StoresOK(stores)
  BY DEF Execute, ToolsInv, SpecsOK, LogOK
<1>2. recent \in Seq(Nat) /\ Covered(log, recent, a, r.tool, currentTick)
  BY <1>1, RecentCounts
<1>3. SpecsOK' /\ currentTick' = currentTick
  BY <1>1 DEF Execute, SpecsOK
<1>4. \/ /\ refused
         /\ callHistory' = [callHistory EXCEPT ![<<a, r.tool>>] = recent]
         /\ UNCHANGED <<stores, log>>
      \/ /\ ~ refused
         /\ callHistory' = [callHistory EXCEPT ![<<a, r.tool>>] = Append(recent, currentTick)]
         /\ stores' = After(r, at, stores)
         /\ log' = Append(log, call)
  BY DEF Execute
<1>5. \A b \in Callers, u \in ToolNames :
        callHistory[<<b, u>>] \in Seq(Nat) /\ Covered(log, callHistory[<<b, u>>], b, u, currentTick)
  BY <1>1 DEF HistoryOK
<1> HIDE DEF recent, limit
<1>6. CASE refused
  <2>1. /\ callHistory' = [callHistory EXCEPT ![<<a, r.tool>>] = recent]
        /\ UNCHANGED <<stores, log>>
    BY <1>4, <1>6
  <2>2. HistoryOK'
    BY <1>1, <1>2, <1>3, <1>5, <2>1, HistoryReplaced
  <2>3. LogOK' /\ StoresOK(stores)'
    BY <1>1, <2>1 DEF LogOK, Burst
  <2> QED  BY <1>1, <1>3, <2>2, <2>3 DEF ToolsInv
<1>7. CASE ~ refused
  <2> DEFINE h == Append(recent, currentTick)
  <2>1. /\ callHistory' = [callHistory EXCEPT ![<<a, r.tool>>] = h]
        /\ stores' = After(r, at, stores) /\ log' = Append(log, call)
    BY <1>4, <1>7
  <2>2. Append(log, call) \in Seq(Calls) /\ Covered(Append(log, call), h, a, r.tool, currentTick)
    BY <1>1, <1>2, CallCounts
  <2>3. h \in Seq(Nat) /\ Len(h) = Len(recent) + 1 /\ Len(recent) \in Nat
    BY <1>1, <1>2, AppendFacts
  <2>4. call \in Calls /\ call.agent = a /\ call.tool = r.tool
    BY <1>1 DEF Calls
  <2> HIDE DEF h, call, refused
  <2>5. \A b \in Callers, u \in ToolNames :
          <<b, u>> # <<a, r.tool>> => Covered(log', callHistory[<<b, u>>], b, u, currentTick)
    BY <1>1, <1>5, <2>1, <2>4, OtherCallsCount
  <2>6. HistoryOK'
    BY <1>1, <1>3, <2>1, <2>2, <2>3, <2>5, HistoryReplaced
  <2>7. limit > 0 => Len(h) <= limit
    BY <1>1, <1>7, <2>3 DEF refused
  <2>8. LogOK'
    BY <1>1, <2>1, <2>2, <2>3, <2>7, BurstsStayShort DEF call
  <2>9. StoresOK(stores)'
    BY <1>1, <2>1, RequestKeepsStores
  <2> QED  BY <1>1, <1>3, <2>6, <2>8, <2>9 DEF ToolsInv
<1> QED  BY <1>6, <1>7

LEMMA ToolsStep == ToolsAssumption /\ ToolsInv /\ [ToolsNext]_toolkit => ToolsInv'
<1> SUFFICES ASSUME ToolsAssumption, ToolsInv, [ToolsNext]_toolkit PROVE ToolsInv'
  OBVIOUS
<1>1. CASE SetTick
  BY <1>1, TickKeeps
<1>2. ASSUME NEW tool \in Managed,
             \/ \E limit \in Limits : RegisterTool(tool, limit)
             \/ DeregisterTool(tool)
             \/ \E a \in Callers : GrantAccess(tool, a) \/ RevokeAccess(tool, a)
      PROVE  ToolsInv'
  BY <1>2, SpecsKeep
<1>3. ASSUME NEW a \in Callers, NEW r \in Requests, NEW at \in {0, currentTick}, Execute(a, r, at)
      PROVE  ToolsInv'
  BY <1>3, ExecuteKeeps
<1>4. CASE UNCHANGED toolkit
  BY <1>4 DEF toolkit, ToolsInv, SpecsOK, LogOK, Burst, HistoryOK
<1> QED  BY <1>1, <1>2, <1>3, <1>4 DEF ToolsNext

LEMMA ToolsImplies == ToolsInv => ToolsKeepCount
<1> SUFFICES ASSUME ToolsInv PROVE ToolsKeepCount
  OBVIOUS
<1>1. \A i \in DOMAIN log : log[i].limit > 0 => Cardinality(Burst(i)) <= log[i].limit
  BY DEF ToolsInv, LogOK
<1>2. \A i, j \in DOMAIN stores.queue : i < j => Sooner(stores.queue[i], stores.queue[j])
  BY DEF ToolsInv, StoresOK, QueueOK, InOrder
<1>3. \A n \in DOMAIN stores.cron :
        LET e == stores.cron[n] IN e.since + e.fires * e.every <= e.last
  BY DEF ToolsInv, StoresOK, Punctual
<1>4. ASSUME NEW k \in StoreKeys
      PROVE  (k \in KeysOf(stores, currentTick)) = (Ttl(stores, k, currentTick) > 0)
  <2>1. currentTick \in Nat /\ \A j \in DOMAIN stores.kv : stores.kv[j] \in Int
    BY DEF ToolsInv, StoresOK
  <2>2. k \in KeysOf(stores, currentTick) <=> Ttl(stores, k, currentTick) > 0
    <3>1. CASE k \in DOMAIN stores.kv
      BY <2>1, <3>1 DEF KeysOf, Ttl, HasExpired
    <3>2. CASE k \notin DOMAIN stores.kv
      BY <3>2 DEF KeysOf, Ttl
    <3> QED  BY <3>1, <3>2
  <2>3. (k \in KeysOf(stores, currentTick)) \in BOOLEAN /\ (Ttl(stores, k, currentTick) > 0) \in BOOLEAN
    OBVIOUS
  <2> QED  BY <2>2, <2>3
<1> QED  BY <1>1, <1>2, <1>3, <1>4 DEF ToolsKeepCount

(***************************************************************************)
(* No call exceeds its rate limit, counted over the whole log although the *)
(* manager keeps a trimmed history only; the queue is ordered by urgency   *)
(* and age, a cron entry fires at most once per interval, and of a key     *)
(* that is not listed nothing remains: for every set of callers and keys,  *)
(* every window, and whatever requests and pipelines are run.              *)
(***************************************************************************)
THEOREM ToolsAlwaysKeepCount ==
  ASSUME ToolsAssumption
  PROVE  ToolsSpec => []ToolsKeepCount
<1>1. ToolsInit => ToolsInv
  BY ToolsStart
<1>2. ToolsInv /\ [ToolsNext]_toolkit => ToolsInv'
  BY ToolsStep
<1>3. ToolsInv => ToolsKeepCount
  BY ToolsImplies
<1> QED  BY <1>1, <1>2, <1>3, PTL DEF ToolsSpec

-----------------------------------------------------------------------------
(* Placement                                                                *)

Lists(h, x) == \E i \in DOMAIN h : h[i] = x

\* One agent less.
LEMMA LeavingFacts ==
  ASSUME NEW S, NEW h, h \in Seq(S), NEW x
  PROVE  /\ Leaving(h, x) \in Seq(S)
         /\ \A y : Lists(Leaving(h, x), y) <=> y # x /\ Lists(h, y)
<1> DEFINE P == {i \in DOMAIN h : h[i] # x}
           n == Cardinality(P)
           s == Selected(h, P)
<1>1. DOMAIN h = 1 .. Len(h) /\ Len(h) \in Nat /\ \A i \in DOMAIN h : h[i] \in S
  OBVIOUS
<1>2. IsFiniteSet(P) /\ n \in Nat /\ P \in SUBSET Nat
  <2>1. IsFiniteSet(DOMAIN h)
    BY <1>1, FS_Interval
  <2> QED  BY <1>1, <2>1, FS_Subset, FS_CardinalityType
<1>p. P \in SUBSET DOMAIN h /\ \A i \in DOMAIN h : i \in P <=> h[i] # x
  OBVIOUS
<1> HIDE DEF P
<1>3. /\ \A k \in 1 .. n : Nth(P, k) \in P
      /\ \A i \in P : \E k \in 1 .. n : Nth(P, k) = i
  BY <1>2, NthFacts
<1>4. s = [k \in 1 .. n |-> h[Nth(P, k)]] /\ Leaving(h, x) = s
  BY DEF Selected, Leaving, P
<1> HIDE DEF s, n
<1>5. s \in Seq(S) /\ DOMAIN s = 1 .. n /\ \A k \in 1 .. n : s[k] = h[Nth(P, k)]
  <2>1. \A k \in 1 .. n : h[Nth(P, k)] \in S
    BY <1>1, <1>3, <1>p
  <2>2. n \in Nat /\ s = [k \in 1 .. n |-> h[Nth(P, k)]]
    BY <1>2, <1>4
  <2> DEFINE at(k) == h[Nth(P, k)]
  <2> HIDE DEF at
  <2>3. s = [k \in 1 .. n |-> at(k)] /\ \A k \in 1 .. n : at(k) \in S
    BY <2>1, <2>2 DEF at
  <2>4. s \in Seq(S) /\ DOMAIN s = 1 .. n /\ \A k \in 1 .. n : s[k] = at(k)
    BY <2>2, <2>3
  <2> QED  BY <2>4 DEF at
<1>6. ASSUME NEW y
      PROVE  Lists(s, y) <=> y # x /\ Lists(h, y)
  BY <1>3, <1>5, <1>p DEF Lists
<1> QED  BY <1>4, <1>5, <1>6

PlacementInv ==
  /\ members \subseteq Nodes
  /\ hosts \in [Nodes -> Seq(Residents)]
  /\ mail \in [Nodes -> [Residents -> Nat]]
  /\ unread \in [Residents -> Nat]
  /\ started \subseteq Residents /\ ended \subseteq started
  /\ rrIndex \in Nat
  \* Only the living run.
  /\ \A n \in Nodes, x \in Residents : Runs(n, x) => x \in started \ ended
  /\ \A x \in Residents \ started : unread[x] = 0 /\ \A n \in Nodes : mail[n][x] = 0
  /\ OnePlace

LEMMA SelectedIsMember ==
  ASSUME PlacementAssumption, PlacementInv, members # {},
         NEW s \in {"ROUND_ROBIN", "LEAST_LOADED", "RANDOM"}, NEW n \in Selectable(s)
  PROVE  n \in members
<1>1. members \in SUBSET Nat /\ IsFiniteSet(members)
  <2>1. IsFiniteSet(Nodes) /\ Nodes \in SUBSET Nat /\ members \in SUBSET Nodes
    BY FS_Interval DEF PlacementAssumption, PlacementInv, Nodes
  <2> QED  BY <2>1, FS_Subset
<1>2. CASE s = "ROUND_ROBIN"
  <2> DEFINE c == Cardinality(members)
             k == (rrIndex % c) + 1
  <2>1. c \in Nat /\ c # 0
    BY <1>1, FS_CardinalityType, FS_EmptySet
  <2>2. rrIndex \in Nat
    BY DEF PlacementInv
  <2> HIDE DEF c
  <2>3. k \in 1 .. c
    BY <2>1, <2>2
  <2>4. n = Nth(members, k)
    BY <1>2 DEF Selectable, c
  <2> HIDE DEF k
  <2> QED  BY <1>1, <2>3, <2>4, NthFacts DEF c
<1>3. CASE s = "RANDOM"
  BY <1>3 DEF Selectable
<1>4. CASE s = "LEAST_LOADED"
  <2> DEFINE least == {i \in members : \A m \in members : Count(i) <= Count(m)}
             sizes == {Count(i) : i \in members}
  <2>1. \A i \in members : Count(i) \in Nat
    BY DEF PlacementInv, Count
  <2>2. sizes \in SUBSET Nat /\ sizes # {}
    BY <2>1
  <2>3. PICK c \in sizes : \A d \in sizes : c <= d
    BY <2>2, LeastElement
  <2>4. least # {} /\ least \in SUBSET Nat
    <3>1. PICK i \in members : c = Count(i)
      BY <2>3
    <3>2. i \in least
      BY <2>3, <3>1
    <3> QED  BY <1>1, <3>2
  <2>5. \E i \in least : \A m \in least : i <= m
    BY <2>4, LeastElement
  <2>6. n = CHOOSE i \in least : \A m \in least : i <= m
    BY <1>4 DEF Selectable
  <2>7. n \in least
    <3> HIDE DEF least
    <3> QED  BY <2>5, <2>6
  <2> QED  BY <2>7
<1> QED  BY <1>2, <1>3, <1>4

LEMMA PlacementStarts == PlacementAssumption /\ PlacementInit => PlacementInv
<1> SUFFICES ASSUME PlacementAssumption, PlacementInit PROVE PlacementInv
  OBVIOUS
<1>1. << >> \in Seq(Residents) /\ \A i \in DOMAIN << >> : FALSE
  OBVIOUS
<1>2. \A n \in Nodes : hosts[n] = << >>
  BY DEF PlacementInit
<1>3. \A n \in Nodes, x \in Residents : ~ Runs(n, x)
  BY <1>1, <1>2 DEF Runs
<1> QED  BY <1>1, <1>3 DEF PlacementInit, PlacementInv, OnePlace

\* Agent x runs on node n and on no other, with its mail.
PlacedOn(n, x) == Runs(n, x) /\ (\A m \in Nodes \ {n} : ~ Runs(m, x)) /\ mail[n][x] = unread[x]

LEMMA PlaceKeeps ==
  ASSUME PlacementAssumption, PlacementInv, NEW x \in Residents,
         NEW s \in {"ROUND_ROBIN", "LEAST_LOADED", "RANDOM"}, Place(x, s)
  PROVE  PlacementInv'
<1>1. PICK n \in Selectable(s) : hosts' = [hosts EXCEPT ![n] = Append(@, x)]
  BY DEF Place
<1>2. n \in members /\ n \in Nodes
  BY SelectedIsMember DEF Place, PlacementInv
<1>3. /\ hosts' \in [Nodes -> Seq(Residents)] /\ rrIndex' \in Nat
      /\ started' = started \cup {x} /\ x \notin started
      /\ UNCHANGED <<members, mail, plan, ended, unread>>
  BY <1>1, <1>2 DEF Place, PlacementInv
<1>4. \A m \in Nodes, y \in Residents : Runs(m, y)' <=> Runs(m, y) \/ (m = n /\ y = x)
  <2> SUFFICES ASSUME NEW m \in Nodes, NEW y \in Residents
               PROVE  Runs(m, y)' <=> Runs(m, y) \/ (m = n /\ y = x)
    OBVIOUS
  <2>1. CASE m # n
    BY <1>1, <2>1 DEF PlacementInv, Runs
  <2>2. CASE m = n
    <3> DEFINE h == hosts[n]
    <3>1. h \in Seq(Residents) /\ hosts'[n] = Append(h, x)
      BY <1>1, <1>2 DEF PlacementInv
    <3> HIDE DEF h
    <3>2. (\E i \in DOMAIN Append(h, x) : Append(h, x)[i] = y) <=> (\E i \in DOMAIN h : h[i] = y) \/ y = x
      BY <3>1, AppendFacts
    <3> QED  BY <2>2, <3>1, <3>2 DEF Runs, h
  <2> QED  BY <2>1, <2>2
<1>5. \A y \in started \ ended : \E m \in Nodes : PlacedOn(m, y)
  BY DEF PlacementInv, OnePlace, PlacedOn
<1>6. \A m \in Nodes : ~ Runs(m, x) /\ mail[m][x] = unread[x]
  BY <1>3 DEF PlacementInv
<1>7. ASSUME NEW y \in (started \ ended)' PROVE \E m \in Nodes : PlacedOn(m, y)'
  <2>1. CASE y = x
    <3>1. PlacedOn(n, x)'
      BY <1>2, <1>3, <1>4, <1>6 DEF PlacedOn
    <3> QED  BY <1>2, <2>1, <3>1
  <2>2. CASE y # x
    <3>1. PICK m \in Nodes : PlacedOn(m, y)
      BY <1>3, <1>5, <2>2
    <3>2. y \in Residents
      BY <1>3, <2>2 DEF PlacementInv
    <3>3. PlacedOn(m, y)'
      BY <1>3, <1>4, <2>2, <3>1, <3>2 DEF PlacedOn
    <3> QED  BY <3>3
  <2> QED  BY <2>1, <2>2
<1>8. OnePlace'
  BY <1>7 DEF OnePlace, PlacedOn
<1>9. \A m \in Nodes, y \in Residents : Runs(m, y)' => y \in (started \ ended)'
  BY <1>3, <1>4 DEF PlacementInv
<1>10. \A y \in Residents \ started' : unread'[y] = 0 /\ \A m \in Nodes : mail'[m][y] = 0
  BY <1>3 DEF PlacementInv
<1> QED  BY <1>3, <1>8, <1>9, <1>10 DEF PlacementInv, Nodes

\* What an agent's arrival and leave do to the list of a kernel.
LEMMA ListFacts ==
  ASSUME NEW h, h \in Seq(Residents), NEW x \in Residents
  PROVE  /\ Append(h, x) \in Seq(Residents)
         /\ \A y : Lists(Append(h, x), y) <=> y = x \/ Lists(h, y)
BY AppendFacts DEF Lists

LEMMA MigrateKeeps ==
  ASSUME PlacementAssumption, PlacementInv, NEW x, NEW src, NEW dst, Migrate(x, src, dst),
         NEW p, plan' = p
  PROVE  PlacementInv'
<1>1. /\ UNCHANGED <<members, rrIndex, started, ended, unread>>
      /\ members \subseteq Nodes /\ started \subseteq Residents
  BY DEF Migrate, PlacementInv
<1>2. CASE UNCHANGED <<hosts, mail>>
  BY <1>1, <1>2 DEF PlacementInv, OnePlace, Runs, Nodes
<1>3. CASE /\ src \in members /\ dst \in members /\ Runs(src, x)
           /\ hosts' = [[hosts EXCEPT ![src] = Leaving(@, x)] EXCEPT ![dst] = Append(@, x)]
           /\ mail' = IF src # dst THEN Carried(x, src, dst) ELSE mail
  <2>1. /\ src \in Nodes /\ dst \in Nodes /\ hosts \in [Nodes -> Seq(Residents)]
        /\ mail \in [Nodes -> [Residents -> Nat]]
    BY <1>1, <1>3 DEF PlacementInv
  <2>2. x \in Residents
    <3>1. PICK i \in DOMAIN hosts[src] : hosts[src][i] = x
      BY <1>3 DEF Runs
    <3> QED  BY <2>1, <3>1
  <2>3. x \in started \ ended
    BY <1>3, <2>1, <2>2 DEF PlacementInv
  <2> DEFINE less == [hosts EXCEPT ![src] = Leaving(@, x)]
             On(f, n, y) == Lists(f[n], y)
  <2>4. /\ less \in [Nodes -> Seq(Residents)]
        /\ \A n \in Nodes : n # src => less[n] = hosts[n]
        /\ less[src] = Leaving(hosts[src], x)
    <3>1. Leaving(hosts[src], x) \in Seq(Residents)
      BY <2>1, LeavingFacts
    <3> QED  BY <2>1, <3>1
  <2>5. /\ \A y : On(less, src, y) <=> y # x /\ On(hosts, src, y)
        /\ \A y : \A n \in Nodes : n # src => (On(less, n, y) <=> On(hosts, n, y))
    <3>1. \A y : On(less, src, y) <=> y # x /\ On(hosts, src, y)
      <4> DEFINE h == hosts[src]
      <4>1. h \in Seq(Residents) /\ less[src] = Leaving(h, x)
        BY <2>1, <2>4
      <4> HIDE DEF h, less
      <4>2. /\ Leaving(h, x) \in Seq(Residents)
            /\ \A y : Lists(Leaving(h, x), y) <=> y # x /\ Lists(h, y)
        BY <4>1, LeavingFacts
      <4>3. \A y : On(less, src, y) <=> Lists(Leaving(h, x), y)
        BY <4>1
      <4>4. \A y : On(hosts, src, y) <=> Lists(h, y)
        BY DEF h
      <4> HIDE DEF On
      <4> QED  BY <4>2, <4>3, <4>4
    <3> HIDE DEF less
    <3> QED  BY <2>4, <3>1
  <2> HIDE DEF less
  <2>6. /\ hosts' = [less EXCEPT ![dst] = Append(@, x)]
        /\ hosts' \in [Nodes -> Seq(Residents)]
        /\ \A n \in Nodes : n # dst => hosts'[n] = less[n]
        /\ hosts'[dst] = Append(less[dst], x)
    <3>1. hosts' = [less EXCEPT ![dst] = Append(@, x)]
      BY <1>3 DEF less
    <3>2. Append(less[dst], x) \in Seq(Residents)
      BY <2>1, <2>2, <2>4
    <3> QED  BY <2>1, <2>4, <3>1, <3>2
  <2>7. /\ \A y : On(hosts', dst, y) <=> y = x \/ On(less, dst, y)
        /\ \A y : \A n \in Nodes : n # dst => (On(hosts', n, y) <=> On(less, n, y))
    <3>1. \A y : On(hosts', dst, y) <=> y = x \/ On(less, dst, y)
      <4> DEFINE h == less[dst]
      <4>1. h \in Seq(Residents) /\ hosts'[dst] = Append(h, x)
        BY <2>1, <2>4, <2>6
      <4> HIDE DEF h
      <4>2. \A y : Lists(Append(h, x), y) <=> y = x \/ Lists(h, y)
        BY <2>2, <4>1, ListFacts
      <4>3. \A y : On(hosts', dst, y) <=> Lists(Append(h, x), y)
        BY <4>1
      <4>4. \A y : On(less, dst, y) <=> Lists(h, y)
        BY DEF h
      <4> HIDE DEF On
      <4> QED  BY <4>2, <4>3, <4>4
    <3> QED  BY <2>6, <3>1
  <2>8. /\ \A y : \A n \in Nodes : y # x => (Runs(n, y)' <=> Runs(n, y))
        /\ \A n \in Nodes : Runs(n, x)' => n = dst \/ (Runs(n, x) /\ n # src)
        /\ Runs(dst, x)'
    <3>1. \A n, y : (Runs(n, y) <=> On(hosts, n, y)) /\ (Runs(n, y)' <=> On(hosts', n, y))
      BY DEF Runs, Lists
    <3> HIDE DEF On
    <3>2. ASSUME NEW n \in Nodes, NEW y, y # x PROVE Runs(n, y)' <=> Runs(n, y)
      <4>1. On(hosts', n, y) <=> On(less, n, y)
        BY <2>1, <2>7, <3>2
      <4>2. On(less, n, y) <=> On(hosts, n, y)
        BY <2>1, <2>5, <3>2
      <4> QED  BY <3>1, <4>1, <4>2
    <3>3. ASSUME NEW n \in Nodes, Runs(n, x)', n # dst PROVE Runs(n, x) /\ n # src
      <4>1. On(less, n, x)
        BY <2>7, <3>1, <3>3
      <4> QED  BY <2>5, <3>1, <4>1
    <3>4. Runs(dst, x)'
      BY <2>7, <3>1
    <3> QED  BY <3>2, <3>3, <3>4
  <2>9. /\ mail' \in [Nodes -> [Residents -> Nat]]
        /\ \A n \in Nodes, y \in Residents : y # x => mail'[n][y] = mail[n][y]
        /\ mail'[dst][x] = mail[src][x]
    BY <1>3, <2>1, <2>2 DEF Carried
  <2> HIDE DEF On
  <2>10. PlacedOn(src, x) /\ \A y \in started \ ended : \E n \in Nodes : PlacedOn(n, y)
    <3>1. \A y \in started \ ended : \E n \in Nodes : PlacedOn(n, y)
      BY DEF PlacementInv, OnePlace, PlacedOn
    <3>2. PICK n \in Nodes : PlacedOn(n, x)
      BY <2>3, <3>1
    <3>3. n = src
      BY <1>3, <2>1, <3>2 DEF PlacedOn
    <3> QED  BY <3>1, <3>2, <3>3
  <2>11. PlacedOn(dst, x)'
    <3>1. \A m \in Nodes \ {src} : ~ Runs(m, x)
      BY <2>10 DEF PlacedOn
    <3>2. \A m \in Nodes \ {dst} : ~ Runs(m, x)'
      BY <2>8, <3>1
    <3>3. mail'[dst][x] = unread'[x]
      BY <1>1, <2>9, <2>10 DEF PlacedOn
    <3> QED  BY <2>8, <3>2, <3>3 DEF PlacedOn, Nodes
  <2>12. ASSUME NEW y \in (started \ ended)' PROVE \E n \in Nodes : PlacedOn(n, y)'
    <3>1. CASE y = x
      BY <2>1, <2>11, <3>1
    <3>2. CASE y # x
      <4>1. y \in started \ ended /\ y \in Residents
        BY <1>1
      <4>2. PICK n \in Nodes : PlacedOn(n, y)
        BY <2>10, <4>1
      <4>3. PlacedOn(n, y)'
        BY <1>1, <2>8, <2>9, <3>2, <4>1, <4>2 DEF PlacedOn, Nodes
      <4> QED  BY <4>3
    <3> QED  BY <3>1, <3>2
  <2>13. OnePlace'
    BY <2>12 DEF OnePlace, PlacedOn, Nodes
  <2>14. \A n \in Nodes, y \in Residents : Runs(n, y)' => y \in (started \ ended)'
    <3> SUFFICES ASSUME NEW n \in Nodes, NEW y \in Residents, Runs(n, y)'
                 PROVE  y \in (started \ ended)'
      OBVIOUS
    <3>1. CASE y = x
      BY <1>1, <2>3, <3>1
    <3>2. CASE y # x
      BY <1>1, <2>8, <3>2 DEF PlacementInv
    <3> QED  BY <3>1, <3>2
  <2>15. \A y \in Residents \ started' : unread'[y] = 0 /\ \A n \in Nodes : mail'[n][y] = 0
    BY <1>1, <2>3, <2>9 DEF PlacementInv
  <2> QED  BY <1>1, <2>6, <2>9, <2>13, <2>14, <2>15 DEF PlacementInv, Nodes
<1> QED  BY <1>2, <1>3 DEF Migrate, Settled

LEMMA KillKeeps ==
  ASSUME PlacementAssumption, PlacementInv, NEW n \in Nodes, NEW x \in Residents, Kill(n, x)
  PROVE  PlacementInv'
<1>1. /\ Runs(n, x) /\ hosts' = [hosts EXCEPT ![n] = Leaving(@, x)]
      /\ mail' = [mail EXCEPT ![n][x] = 0] /\ ended' = ended \cup {x}
      /\ unread' = [unread EXCEPT ![x] = 0]
      /\ UNCHANGED <<members, rrIndex, plan, started>>
  BY DEF Kill
<1>2. /\ hosts \in [Nodes -> Seq(Residents)] /\ mail \in [Nodes -> [Residents -> Nat]]
      /\ unread \in [Residents -> Nat] /\ started \subseteq Residents
      /\ x \in started \ ended
  BY <1>1 DEF PlacementInv
<1>3. \A y \in started \ ended : \E m \in Nodes : PlacedOn(m, y)
  BY DEF PlacementInv, OnePlace, PlacedOn
<1>4. \A m \in Nodes \ {n} : ~ Runs(m, x)
  <2>1. PICK m \in Nodes : PlacedOn(m, x)
    BY <1>2, <1>3
  <2> QED  BY <1>1, <2>1 DEF PlacedOn
<1> DEFINE h == hosts[n]
<1>5. h \in Seq(Residents)
  BY <1>2
<1> HIDE DEF h
<1>6. /\ Leaving(h, x) \in Seq(Residents)
      /\ \A y : Lists(Leaving(h, x), y) <=> y # x /\ Lists(h, y)
  BY <1>5, LeavingFacts
<1>7. /\ hosts' \in [Nodes -> Seq(Residents)] /\ hosts'[n] = Leaving(h, x)
      /\ \A m \in Nodes \ {n} : hosts'[m] = hosts[m]
  BY <1>1, <1>2, <1>6 DEF h
<1>8. \A y : \A m \in Nodes : Runs(m, y)' <=> y # x /\ Runs(m, y)
  <2> SUFFICES ASSUME NEW m \in Nodes, NEW y PROVE Runs(m, y)' <=> y # x /\ Runs(m, y)
    OBVIOUS
  <2>1. CASE m = n
    <3>1. (Runs(n, y) <=> Lists(h, y)) /\ (Runs(n, y)' <=> Lists(hosts'[n], y))
      BY DEF Runs, Lists, h
    <3>2. Lists(hosts'[n], y) <=> y # x /\ Lists(h, y)
      BY <1>6, <1>7
    <3> QED  BY <2>1, <3>1, <3>2
  <2>2. CASE m # n
    <3>1. Runs(m, y)' <=> Runs(m, y)
      BY <1>7, <2>2 DEF Runs
    <3> QED  BY <1>4, <2>2, <3>1
  <2> QED  BY <2>1, <2>2
<1>9. /\ mail' \in [Nodes -> [Residents -> Nat]] /\ unread' \in [Residents -> Nat]
      /\ \A m \in Nodes, y \in Residents : y # x => mail'[m][y] = mail[m][y]
      /\ \A y \in Residents : y # x => unread'[y] = unread[y]
  BY <1>1, <1>2
<1>10. ASSUME NEW y \in (started \ ended)' PROVE \E m \in Nodes : PlacedOn(m, y)'
  <2>1. y \in started \ ended /\ y # x /\ y \in Residents
    BY <1>1, <1>2
  <2>2. PICK m \in Nodes : PlacedOn(m, y)
    BY <1>3, <2>1
  <2>3. PlacedOn(m, y)'
    BY <1>8, <1>9, <2>1, <2>2 DEF PlacedOn, Nodes
  <2> QED  BY <2>3
<1>11. OnePlace'
  BY <1>10 DEF OnePlace, PlacedOn, Nodes
<1>12. \A m \in Nodes, y \in Residents : Runs(m, y)' => y \in (started \ ended)'
  BY <1>1, <1>8 DEF PlacementInv
<1>13. \A y \in Residents \ started' : unread'[y] = 0 /\ \A m \in Nodes : mail'[m][y] = 0
  BY <1>1, <1>2, <1>9 DEF PlacementInv
<1>14. ended' \subseteq started' /\ started' \subseteq Residents /\ members' \subseteq Nodes
       /\ rrIndex' \in Nat
  BY <1>1, <1>2 DEF PlacementInv
<1> QED  BY <1>7, <1>9, <1>11, <1>12, <1>13, <1>14 DEF PlacementInv, Nodes

LEMMA SendMailKeeps ==
  ASSUME PlacementAssumption, PlacementInv, NEW n \in Nodes, NEW x \in Residents, SendMail(n, x)
  PROVE  PlacementInv'
<1>1. /\ Runs(n, x) /\ mail' = [mail EXCEPT ![n][x] = @ + 1]
      /\ unread' = [unread EXCEPT ![x] = @ + 1]
      /\ UNCHANGED <<members, rrIndex, hosts, started, ended>>
  BY DEF SendMail
<1>2. /\ mail \in [Nodes -> [Residents -> Nat]] /\ unread \in [Residents -> Nat]
      /\ started \subseteq Residents /\ x \in started \ ended
  BY <1>1 DEF PlacementInv
<1>3. \A y \in started \ ended : \E m \in Nodes : PlacedOn(m, y)
  BY DEF PlacementInv, OnePlace, PlacedOn
<1>4. /\ mail' \in [Nodes -> [Residents -> Nat]] /\ unread' \in [Residents -> Nat]
      /\ \A m \in Nodes, y \in Residents : y # x => mail'[m][y] = mail[m][y]
      /\ \A y \in Residents : y # x => unread'[y] = unread[y]
      /\ mail'[n][x] = mail[n][x] + 1 /\ unread'[x] = unread[x] + 1
  BY <1>1, <1>2
<1>5. \A m, y : Runs(m, y)' <=> Runs(m, y)
  BY <1>1 DEF Runs
<1>6. ASSUME NEW y \in (started \ ended)' PROVE \E m \in Nodes : PlacedOn(m, y)'
  <2>1. y \in started \ ended /\ y \in Residents
    BY <1>1, <1>2
  <2>2. PICK m \in Nodes : PlacedOn(m, y)
    BY <1>3, <2>1
  <2>3. y = x => m = n
    BY <1>1, <2>2 DEF PlacedOn
  <2>4. mail'[m][y] = unread'[y]
    BY <1>4, <2>1, <2>2, <2>3 DEF PlacedOn
  <2>5. PlacedOn(m, y)'
    BY <1>5, <2>2, <2>4 DEF PlacedOn, Nodes
  <2> QED  BY <2>5
<1>7. OnePlace'
  BY <1>6 DEF OnePlace, PlacedOn, Nodes
<1>8. \A y \in Residents \ started' : unread'[y] = 0 /\ \A m \in Nodes : mail'[m][y] = 0
  BY <1>1, <1>2, <1>4 DEF PlacementInv
<1> QED  BY <1>1, <1>4, <1>5, <1>7, <1>8 DEF PlacementInv, Nodes

LEMMA PlacementStep ==
  PlacementAssumption /\ PlacementInv /\ [PlacementNext]_placement => PlacementInv'
<1> SUFFICES ASSUME PlacementAssumption, PlacementInv, [PlacementNext]_placement
             PROVE  PlacementInv'
  OBVIOUS
<1>1. CASE MakePlan \/ UNCHANGED placement
  <2>1. UNCHANGED <<members, hosts, mail, rrIndex, started, ended, unread>>
    BY <1>1 DEF MakePlan, placement
  <2> QED  BY <2>1 DEF PlacementInv, OnePlace, Runs, Nodes
<1>2. CASE FollowPlan
  BY <1>2, MigrateKeeps DEF FollowPlan
<1>3. ASSUME NEW x \in Residents, NEW s \in {"ROUND_ROBIN", "LEAST_LOADED", "RANDOM"}, Place(x, s)
      PROVE  PlacementInv'
  BY <1>3, PlaceKeeps
<1>4. ASSUME NEW x \in Residents, NEW src \in Nodes, NEW dst \in Nodes, MigrateAny(x, src, dst)
      PROVE  PlacementInv'
  BY <1>4, MigrateKeeps DEF MigrateAny
<1>5. ASSUME NEW x \in Residents, NEW n \in Nodes, Kill(n, x) \/ SendMail(n, x)
      PROVE  PlacementInv'
  BY <1>5, KillKeeps, SendMailKeeps
<1>6. ASSUME NEW n \in Nodes, RemoveNode(n) PROVE PlacementInv'
  BY <1>6 DEF RemoveNode, PlacementInv, OnePlace, Runs, Nodes
<1> QED  BY <1>1, <1>2, <1>3, <1>4, <1>5, <1>6 DEF PlacementNext


-----------------------------------------------------------------------------
(* Rebalancing                                                              *)

\* Each turn is taken by one element, the earlier one by the earlier element.
LEMMA TurnFacts ==
  ASSUME NEW T, IsFiniteSet(T), NEW R, Orders(R, T)
  PROVE  /\ \A k \in 1 .. Cardinality(T) : InTurn(T, R, k) \in T
         /\ \A k, l \in 1 .. Cardinality(T) :
              k < l => /\ InTurn(T, R, k) # InTurn(T, R, l)
                       /\ <<InTurn(T, R, k), InTurn(T, R, l)>> \in R
<1>1. /\ \A i, j \in T : RankIn(T, R, i) <= RankIn(T, R, j) => <<i, j>> \in R
      /\ \A k \in 1 .. Cardinality(T) : \E i \in T : RankIn(T, R, i) = k
  BY RankFacts
<1> DEFINE at(k) == InTurn(T, R, k)
<1>2. \A k \in 1 .. Cardinality(T) : at(k) \in T /\ RankIn(T, R, at(k)) = k
  BY <1>1 DEF InTurn, RankIn
<1> HIDE DEF at
<1>3. Cardinality(T) \in Nat
  BY FS_CardinalityType
<1>4. \A k, l \in 1 .. Cardinality(T) : k < l => at(k) # at(l) /\ <<at(k), at(l)>> \in R
  <2> SUFFICES ASSUME NEW k \in 1 .. Cardinality(T), NEW l \in 1 .. Cardinality(T), k < l
               PROVE  at(k) # at(l) /\ <<at(k), at(l)>> \in R
    OBVIOUS
  <2>1. RankIn(T, R, at(k)) = k /\ RankIn(T, R, at(l)) = l /\ k <= l /\ k # l
    BY <1>2, <1>3
  <2>2. at(k) \in T /\ at(l) \in T
    BY <1>2
  <2> QED  BY <1>1, <2>1, <2>2
<1> QED  BY <1>2, <1>4 DEF at

\* What the plans rest on.
LEMMA ClusterFacts ==
  ASSUME PlacementAssumption, PlacementInv
  PROVE  /\ members \in SUBSET Nat /\ IsFiniteSet(members)
         /\ Cardinality(members) \in Nat
         /\ \A n \in members : Count(n) \in Nat
         /\ Total \in Nat
<1>1. members \in SUBSET Nat /\ IsFiniteSet(members)
  <2>1. members \in SUBSET (1 .. NumNodes) /\ (1 .. NumNodes) \in SUBSET Nat
    BY DEF PlacementInv, Nodes
  <2>2. IsFiniteSet(1 .. NumNodes)
    BY FS_Interval DEF PlacementAssumption
  <2> QED  BY <2>1, <2>2, FS_Subset
<1>2. \A n \in members : Count(n) \in Nat
  BY DEF PlacementInv, Count
<1>3. Total \in Nat
  <2> DEFINE f == [n \in members |-> Count(n)]
  <2>1. \A n \in members : f[n] \in Nat
    BY <1>2
  <2>2. Total = SumFunctionOnSet(f, members)
    BY DEF Total
  <2> HIDE DEF f
  <2> QED  BY <1>1, <2>1, <2>2, SumFacts
<1> QED  BY <1>1, <1>2, <1>3, FS_CardinalityType

LEMMA FullerFirstOrders ==
  ASSUME NEW T \in SUBSET Nat, \A n \in T : Count(n) \in Nat
  PROVE  Orders(FullerFirst(T), T)
<1>1. \A i, j \in T : <<i, j>> \in FullerFirst(T) <=>
        Count(i) > Count(j) \/ (Count(i) = Count(j) /\ i <= j)
  BY DEF FullerFirst
<1>2. \A i \in T : i \in Nat
  OBVIOUS
<1> DEFINE R == FullerFirst(T)
<1> HIDE DEF R
<1>3. \A i, j \in T : <<i, j>> \in R <=>
        Count(i) > Count(j) \/ (Count(i) = Count(j) /\ i <= j)
  BY <1>1 DEF R
<1>4. Orders(R, T)
  BY <1>2, <1>3 DEF Orders
<1> QED  BY <1>4 DEF R

LEMMA EmptierFirstOrders ==
  ASSUME NEW M \in SUBSET Nat, \A n \in M : Count(n) \in Nat, NEW T \in SUBSET (M \X Nat)
  PROVE  /\ Orders(EmptierFirst(T), T)
         /\ \A a, b \in T : a[1] = b[1] /\ <<a, b>> \in EmptierFirst(T) => a[2] <= b[2]
<1> DEFINE R == EmptierFirst(T)
           c(a) == Count(a[1])
           n(a) == a[1]
           j(a) == a[2]
<1>1. \A a, b \in T : <<a, b>> \in R <=>
        \/ c(a) < c(b)
        \/ c(a) = c(b) /\ n(a) < n(b)
        \/ n(a) = n(b) /\ j(a) <= j(b)
  BY DEF EmptierFirst
<1>2. \A a \in T : c(a) \in Nat /\ n(a) \in Nat /\ j(a) \in Nat
  OBVIOUS
<1>3. \A a, b \in T : n(a) = n(b) => c(a) = c(b)
  OBVIOUS
<1>4. \A a, b \in T : n(a) = n(b) /\ j(a) = j(b) => a = b
  OBVIOUS
<1> HIDE DEF R, c, n, j
<1>5. ASSUME NEW a \in T, NEW b \in T PROVE <<a, b>> \in R \/ <<b, a>> \in R
  <2>1. /\ c(a) \in Nat /\ n(a) \in Nat /\ j(a) \in Nat
        /\ c(b) \in Nat /\ n(b) \in Nat /\ j(b) \in Nat
        /\ n(a) = n(b) => c(a) = c(b)
    BY <1>2, <1>3
  <2>2. c(a) < c(b) => <<a, b>> \in R
    BY <1>1
  <2>3. c(b) < c(a) => <<b, a>> \in R
    BY <1>1
  <2>4. c(a) = c(b) /\ n(a) < n(b) => <<a, b>> \in R
    BY <1>1
  <2>5. c(a) = c(b) /\ n(b) < n(a) => <<b, a>> \in R
    BY <1>1
  <2>6. n(a) = n(b) /\ j(a) <= j(b) => <<a, b>> \in R
    BY <1>1
  <2>7. n(a) = n(b) /\ j(b) <= j(a) => <<b, a>> \in R
    BY <1>1
  <2> QED  BY <2>1, <2>2, <2>3, <2>4, <2>5, <2>6, <2>7
<1>6. \A a, b \in T : <<a, b>> \in R /\ <<b, a>> \in R => a = b
  BY <1>1, <1>2, <1>3, <1>4
<1>7. \A a, b, d \in T : <<a, b>> \in R /\ <<b, d>> \in R => <<a, d>> \in R
  <2> SUFFICES ASSUME NEW a \in T, NEW b \in T, NEW d \in T, <<a, b>> \in R, <<b, d>> \in R
               PROVE  <<a, d>> \in R
    OBVIOUS
  <2>1. /\ \/ c(a) < c(b)
           \/ c(a) = c(b) /\ n(a) < n(b)
           \/ n(a) = n(b) /\ j(a) <= j(b)
        /\ \/ c(b) < c(d)
           \/ c(b) = c(d) /\ n(b) < n(d)
           \/ n(b) = n(d) /\ j(b) <= j(d)
    BY <1>1
  <2>2. /\ c(a) \in Nat /\ n(a) \in Nat /\ j(a) \in Nat
        /\ c(b) \in Nat /\ n(b) \in Nat /\ j(b) \in Nat
        /\ c(d) \in Nat /\ n(d) \in Nat /\ j(d) \in Nat
    BY <1>2
  <2>3. (n(a) = n(b) => c(a) = c(b)) /\ (n(b) = n(d) => c(b) = c(d))
    BY <1>3
  <2>4. \/ c(a) < c(d)
        \/ c(a) = c(d) /\ n(a) < n(d)
        \/ n(a) = n(d) /\ j(a) <= j(d)
    BY <2>1, <2>2, <2>3
  <2> QED  BY <1>1, <2>4
<1>8. \A a, b \in T : n(a) = n(b) /\ <<a, b>> \in R => j(a) <= j(b)
  BY <1>1, <1>2, <1>3
<1> QED  BY <1>5, <1>6, <1>7, <1>8 DEF Orders, R, n, j

\* A sum gets smaller when one term gives another a part of what it loses.
LEMMA SumShrinks ==
  ASSUME NEW f, NEW g, NEW S, IsFiniteSet(S), \A x \in S : f[x] \in Nat /\ g[x] \in Nat,
         NEW s \in S, NEW d \in S, s # d, g[s] + g[d] < f[s] + f[d],
         \A x \in S : x # s /\ x # d => g[x] = f[x]
  PROVE  SumFunctionOnSet(g, S) < SumFunctionOnSet(f, S)
<1> DEFINE A == S \ {s}
           B == A \ {d}
<1>1. IsFiniteSet(A) /\ IsFiniteSet(B) /\ d \in A
  BY FS_RemoveElement
<1>2. \A x \in A : f[x] \in Nat /\ g[x] \in Nat
  OBVIOUS
<1>3. \A x \in B : f[x] \in Nat /\ g[x] = f[x]
  OBVIOUS
<1>4. /\ SumFunctionOnSet(f, S) = f[s] + SumFunctionOnSet(f, A)
      /\ SumFunctionOnSet(g, S) = g[s] + SumFunctionOnSet(g, A)
  BY SumFacts
<1> HIDE DEF A
<1>5. /\ SumFunctionOnSet(f, A) = f[d] + SumFunctionOnSet(f, B)
      /\ SumFunctionOnSet(g, A) = g[d] + SumFunctionOnSet(g, B)
  BY <1>1, <1>2, SumFacts
<1> HIDE DEF B
<1>6. SumFunctionOnSet(g, B) = SumFunctionOnSet(f, B) /\ SumFunctionOnSet(f, B) \in Nat
  BY <1>1, <1>3, SumFacts
<1>7. f[s] \in Nat /\ g[s] \in Nat /\ f[d] \in Nat /\ g[d] \in Nat
  OBVIOUS
<1> QED  BY <1>4, <1>5, <1>6, <1>7

\* The k-th agents of a plan come to node n, or leave it.
Moves(way, n, k) == {i \in 1 .. k : way[i] = n}

LEMMA MovesAreCounted ==
  ASSUME NEW k \in Nat, NEW way, NEW n
  PROVE  /\ IsFiniteSet(Moves(way, n, k))
         /\ Cardinality(Moves(way, n, k)) \in Nat
         /\ k = 0 => Cardinality(Moves(way, n, k)) = 0
<1>1. IsFiniteSet(1 .. k)
  BY FS_Interval
<1>2. Moves(way, n, k) \in SUBSET (1 .. k)
  BY DEF Moves
<1>3. k = 0 => Moves(way, n, k) = {}
  BY <1>2
<1> QED  BY <1>1, <1>2, <1>3, FS_Subset, FS_CardinalityType, FS_EmptySet

LEMMA NextMove ==
  ASSUME NEW k \in Nat, k > 0, NEW way, NEW n
  PROVE  /\ way[k] = n => Cardinality(Moves(way, n, k)) = Cardinality(Moves(way, n, k - 1)) + 1
         /\ way[k] # n => Cardinality(Moves(way, n, k)) = Cardinality(Moves(way, n, k - 1))
<1>1. 1 .. k = (1 .. k - 1) \cup {k} /\ k \notin 1 .. k - 1 /\ k - 1 \in Nat
  OBVIOUS
<1>2. IsFiniteSet(Moves(way, n, k - 1)) /\ Cardinality(Moves(way, n, k - 1)) \in Nat
  BY <1>1, MovesAreCounted
<1>3. ASSUME way[k] = n
      PROVE  Cardinality(Moves(way, n, k)) = Cardinality(Moves(way, n, k - 1)) + 1
  <2>1. /\ Moves(way, n, k) = Moves(way, n, k - 1) \cup {k}
        /\ k \notin Moves(way, n, k - 1)
    BY <1>1, <1>3 DEF Moves
  <2> QED  BY <1>2, <2>1, FS_AddElement
<1>4. way[k] # n => Moves(way, n, k) = Moves(way, n, k - 1)
  BY <1>1 DEF Moves
<1> QED  BY <1>3, <1>4

\* From above the average to below it, or to what has been counted up so far.
LEMMA GapFacts ==
  ASSUME NEW x \in Nat, NEW y \in Nat, NEW z \in Nat, NEW size \in Nat, NEW total \in Nat,
         size > 0, x * size > total + size, z * size < total, y <= z
  PROVE  y < x - 1
<1>1. y * size <= z * size
  OBVIOUS
<1>2. y * size < (x - 1) * size
  <2>1. (x - 1) * size = x * size - size
    OBVIOUS
  <2> QED  BY <1>1, <2>1
<1>3. ~ (x - 1 <= y)
  <2> SUFFICES ASSUME x - 1 <= y PROVE FALSE
    OBVIOUS
  <2>1. (x - 1) * size <= y * size
    OBVIOUS
  <2> QED  BY <1>2, <2>1
<1> QED  BY <1>3

CountAfter(c, src, dst, n, k) ==
  c[n] + Cardinality(Moves(dst, n, k)) - Cardinality(Moves(src, n, k))

Squares(c, src, dst, M, k) ==
  [n \in M |-> CountAfter(c, src, dst, n, k) * CountAfter(c, src, dst, n, k)]

(***************************************************************************)
(* Moves from nodes above the average, each of them giving once, to nodes  *)
(* below it, filled up to it one number after the other.                   *)
(***************************************************************************)
Evening(c, size, total, L, src, dst, num) ==
  /\ \A i \in 1 .. L : /\ num[i] > 0
                       /\ c[src[i]] * size > total + size
                       /\ (c[dst[i]] + num[i] - 1) * size < total
  /\ \A i, j \in 1 .. L : i < j => src[i] # src[j]
  /\ \A i, j \in 1 .. L : i < j /\ dst[i] = dst[j] => num[i] < num[j]

LEMMA MovesEven ==
  ASSUME NEW M, IsFiniteSet(M), NEW c \in [M -> Nat], NEW size \in Nat, size > 0,
         NEW total \in Nat, NEW L \in Nat, L > 0,
         NEW src \in [1 .. L -> M], NEW dst \in [1 .. L -> M], NEW num \in [1 .. L -> Nat],
         Evening(c, size, total, L, src, dst, num)
  PROVE  SumFunctionOnSet(Squares(c, src, dst, M, L), M)
         < SumFunctionOnSet(Squares(c, src, dst, M, 0), M)
<1> DEFINE in(n, k) == Cardinality(Moves(dst, n, k))
           out(n, k) == Cardinality(Moves(src, n, k))
           at(n, k) == CountAfter(c, src, dst, n, k)
           sq(k) == Squares(c, src, dst, M, k)
           sum(k) == SumFunctionOnSet(sq(k), M)
<1>1. \A n \in M, k \in 0 .. L : in(n, k) \in Nat /\ out(n, k) \in Nat
  BY MovesAreCounted
<1>2. ASSUME NEW n \in M, NEW k \in 1 .. L
      PROVE  /\ dst[k] = n => in(n, k) = in(n, k - 1) + 1
             /\ dst[k] # n => in(n, k) = in(n, k - 1)
             /\ src[k] = n => out(n, k) = out(n, k - 1) + 1
             /\ src[k] # n => out(n, k) = out(n, k - 1)
  <2>1. k \in Nat /\ k > 0
    OBVIOUS
  <2> QED  BY ONLY <2>1, NextMove
<1>3. \A i, j \in 1 .. L : src[i] # dst[j]
  <2> SUFFICES ASSUME NEW i \in 1 .. L, NEW j \in 1 .. L, src[i] = dst[j] PROVE FALSE
    OBVIOUS
  <2> DEFINE x == c[src[i]]
             z == x + num[j] - 1
  <2>1. x \in Nat /\ z \in Nat /\ x <= z /\ x * size > total + size /\ z * size < total
    <3>1. num[j] \in Nat /\ num[j] > 0 /\ x \in Nat
      BY DEF Evening
    <3>2. c[src[i]] * size > total + size /\ (c[dst[j]] + num[j] - 1) * size < total
      BY DEF Evening
    <3>3. x * size > total + size /\ z * size < total
      BY <3>2
    <3> HIDE DEF x
    <3> QED  BY ONLY <3>1, <3>3
  <2> HIDE DEF x, z
  <2>2. size \in Nat /\ total \in Nat /\ size > 0
    OBVIOUS
  <2>3. x < x - 1
    BY ONLY <2>1, <2>2, GapFacts
  <2> QED  BY <2>1, <2>3
<1>4. ASSUME NEW k \in 1 .. L
      PROVE  /\ out(src[k], k - 1) = 0 /\ in(src[k], k - 1) = 0 /\ out(dst[k], k - 1) = 0
             /\ in(dst[k], k - 1) <= num[k] - 1
  <2>1. \A i \in 1 .. k - 1 : i \in 1 .. L /\ i < k
    OBVIOUS
  <2>2. Moves(src, src[k], k - 1) = {}
    BY <2>1 DEF Moves, Evening
  <2>3. Moves(dst, src[k], k - 1) = {} /\ Moves(src, dst[k], k - 1) = {}
    BY <1>3, <2>1 DEF Moves
  <2> DEFINE before == Moves(dst, dst[k], k - 1)
             seat == [i \in before |-> num[i]]
             lower == 1 .. num[k] - 1
  <2>4. \A i \in before : i \in 1 .. L /\ i < k /\ dst[i] = dst[k]
    BY <2>1 DEF Moves
  <2>5. \A i \in before : num[i] \in lower
    <3> SUFFICES ASSUME NEW i \in before PROVE num[i] \in lower
      OBVIOUS
    <3>1. num[i] \in Nat /\ num[i] > 0 /\ num[i] < num[k] /\ num[k] \in Nat
      BY <2>4 DEF Evening
    <3> QED  BY <3>1
  <2>6. \A i, j \in before : num[i] = num[j] => i = j
    <3> SUFFICES ASSUME NEW i \in before, NEW j \in before, num[i] = num[j], i # j PROVE FALSE
      OBVIOUS
    <3>1. i \in 1 .. L /\ j \in 1 .. L /\ dst[i] = dst[j] /\ num[i] \in Nat
      BY <2>4
    <3>2. i < j \/ j < i
      BY <3>1
    <3>3. num[i] < num[j] \/ num[j] < num[i]
      BY <3>1, <3>2 DEF Evening
    <3> QED  BY <3>1, <3>3
  <2> HIDE DEF before
  <2>7. seat \in Injection(before, lower)
    BY <2>5, <2>6 DEF Injection, IsInjective
  <2>8. IsFiniteSet(lower) /\ Cardinality(lower) = num[k] - 1
    <3>1. num[k] \in Nat /\ num[k] > 0
      BY DEF Evening
    <3>2. num[k] - 1 \in Nat
      BY <3>1
    <3>3. \A n \in Nat : IsFiniteSet(1 .. n) /\ Cardinality(1 .. n) = n
      BY ONLY FS_Interval
    <3> QED  BY <3>2, <3>3
  <2> HIDE DEF seat, lower
  <2>9. Cardinality(before) <= num[k] - 1
    BY <2>7, <2>8, FS_Injection
  <2> QED  BY <2>2, <2>3, <2>9, FS_EmptySet DEF before
<1>5. \A n \in M, k \in 0 .. L : at(n, k) = c[n] + in(n, k) - out(n, k)
  BY DEF CountAfter
<1> HIDE DEF in, out, at
<1>6. \A n \in M, k \in 0 .. L : at(n, k) \in Int
  <2> SUFFICES ASSUME NEW n \in M, NEW k \in 0 .. L PROVE at(n, k) \in Int
    OBVIOUS
  <2>1. c[n] \in Nat /\ in(n, k) \in Nat /\ out(n, k) \in Nat
    BY <1>1
  <2>2. at(n, k) = c[n] + in(n, k) - out(n, k)
    BY <1>5
  <2> QED  BY ONLY <2>1, <2>2
<1>7. \A k \in 0 .. L : \A n \in M : sq(k)[n] = at(n, k) * at(n, k) /\ sq(k)[n] \in Nat
  <2>1. \A x \in Int : x * x \in Nat
    OBVIOUS
  <2>2. \A k \in 0 .. L : \A n \in M : sq(k)[n] = at(n, k) * at(n, k)
    BY DEF Squares, at
  <2> HIDE DEF sq
  <2>3. \A k \in 0 .. L : \A n \in M : at(n, k) * at(n, k) \in Nat
    BY <1>6, <2>1
  <2> QED  BY <2>2, <2>3
<1> HIDE DEF sq
<1>8. ASSUME NEW k \in 1 .. L PROVE sum(k) < sum(k - 1)
  <2> DEFINE s == src[k]
             d == dst[k]
             x == c[s]
             y == at(d, k - 1)
             z == c[d] + num[k] - 1
  <2>1. s \in M /\ d \in M /\ k \in 0 .. L /\ k - 1 \in 0 .. L /\ num[k] \in Nat /\ num[k] > 0
    BY DEF Evening
  <2>2. s # d
    BY <1>3
  <2>3. /\ out(s, k - 1) = 0 /\ in(s, k - 1) = 0 /\ out(d, k - 1) = 0
        /\ in(d, k - 1) <= num[k] - 1
    BY <1>4
  <2>4. c[s] \in Nat /\ c[d] \in Nat
    BY <2>1
  <2>5. /\ in(s, k) = in(s, k - 1) /\ out(s, k) = out(s, k - 1) + 1
        /\ in(d, k) = in(d, k - 1) + 1 /\ out(d, k) = out(d, k - 1)
    <3> HIDE DEF in, out
    <3> QED  BY <1>2, <2>1, <2>2
  <2>6. /\ at(s, k - 1) = x /\ at(s, k) = x - 1 /\ at(d, k) = y + 1
        /\ y \in Nat /\ y <= z /\ x \in Nat /\ z \in Nat
    <3>1. /\ at(s, k) = c[s] + in(s, k) - out(s, k)
          /\ at(s, k - 1) = c[s] + in(s, k - 1) - out(s, k - 1)
          /\ at(d, k) = c[d] + in(d, k) - out(d, k)
          /\ at(d, k - 1) = c[d] + in(d, k - 1) - out(d, k - 1)
      BY <1>5, <2>1
    <3>2. /\ in(d, k - 1) \in Nat /\ in(s, k - 1) \in Nat /\ in(d, k) \in Nat /\ in(s, k) \in Nat
          /\ out(d, k - 1) \in Nat /\ out(s, k - 1) \in Nat
          /\ out(d, k) \in Nat /\ out(s, k) \in Nat
      BY <1>1, <2>1
    <3>t. /\ at(s, k - 1) \in Int /\ at(s, k) \in Int
          /\ at(d, k - 1) \in Int /\ at(d, k) \in Int
      BY <1>6, <2>1
    <3>3. num[k] \in Nat /\ num[k] > 0
      BY <2>1
    <3>4. at(s, k - 1) = c[s] + 0 - 0
      BY ONLY <2>3, <3>1
    <3>5. at(s, k) = c[s] + 0 - (0 + 1)
      <4>1. at(s, k) = c[s] + in(s, k) - out(s, k)
        BY ONLY <3>1
      <4>2. in(s, k) = 0 /\ out(s, k) = 0 + 1
        BY ONLY <2>3, <2>5
      <4> QED  BY ONLY <4>1, <4>2
    <3>6. at(d, k - 1) = c[d] + in(d, k - 1) - 0
      BY ONLY <2>3, <3>1
    <3>7. at(d, k) = c[d] + (in(d, k - 1) + 1) - 0
      <4>1. at(d, k) = c[d] + in(d, k) - out(d, k)
        BY ONLY <3>1
      <4>2. in(d, k) = in(d, k - 1) + 1 /\ out(d, k) = 0
        BY ONLY <2>3, <2>5
      <4> QED  BY ONLY <4>1, <4>2
    <3>8. at(s, k - 1) = c[s] /\ at(s, k) = c[s] - 1
      BY ONLY <2>4, <3>4, <3>5
    <3> DEFINE a == c[d]
               b == in(d, k - 1)
               e == num[k]
    <3>9. a \in Nat /\ b \in Nat /\ e \in Nat /\ e > 0 /\ b <= e - 1
      BY ONLY <2>3, <2>4, <3>2, <3>3
    <3>10. at(d, k - 1) = a + b - 0 /\ at(d, k) = a + (b + 1) - 0 /\ z = a + e - 1
      BY ONLY <3>6, <3>7
    <3>11. y = at(d, k - 1)
      OBVIOUS
    <3> HIDE DEF a, b, e, y, z
    <3>12. y = a + b /\ at(d, k) = a + (b + 1)
      BY ONLY <3>9, <3>10, <3>11
    <3>13. y \in Nat /\ z \in Nat /\ y <= z /\ at(d, k) = y + 1
      BY ONLY <3>9, <3>10, <3>12
    <3> QED  BY ONLY <2>4, <3>8, <3>13
  <2>7. x * size > total + size /\ z * size < total
    BY DEF Evening
  <2>8. \A n \in M : n # s /\ n # d => at(n, k) = at(n, k - 1)
    <3> SUFFICES ASSUME NEW n \in M, n # s, n # d PROVE at(n, k) = at(n, k - 1)
      OBVIOUS
    <3>1. in(n, k) = in(n, k - 1) /\ out(n, k) = out(n, k - 1)
      BY <1>2
    <3> QED  BY <1>5, <2>1, <3>1
  <2> HIDE DEF s, d, x, y, z
  <2>9. y < x - 1
    <3>1. size \in Nat /\ total \in Nat /\ size > 0
      OBVIOUS
    <3> QED  BY ONLY <2>6, <2>7, <3>1, GapFacts
  <2>10. (x - 1) * (x - 1) + (y + 1) * (y + 1) < x * x + y * y
    <3>1. (x - 1) * (x - 1) = x * x - 2 * x + 1 /\ (y + 1) * (y + 1) = y * y + 2 * y + 1
      BY <2>6
    <3>2. x * x \in Int /\ y * y \in Int
      BY <2>6
    <3> QED  BY <2>6, <2>9, <3>1, <3>2
  <2> DEFINE f == sq(k - 1)
             g == sq(k)
  <2>11. /\ \A n \in M : f[n] \in Nat /\ g[n] \in Nat
         /\ \A n \in M : n # s /\ n # d => g[n] = f[n]
    <3>1. \A n \in M : f[n] \in Nat /\ g[n] \in Nat
      BY <1>7, <2>1
    <3>2. \A n \in M : f[n] = at(n, k - 1) * at(n, k - 1) /\ g[n] = at(n, k) * at(n, k)
      BY <1>7, <2>1
    <3> HIDE DEF f, g
    <3> QED  BY <2>8, <3>1, <3>2
  <2>12. g[s] + g[d] < f[s] + f[d]
    <3>1. g[s] = (x - 1) * (x - 1) /\ f[s] = x * x
      BY <1>7, <2>1, <2>6
    <3>2. g[d] = (y + 1) * (y + 1) /\ f[d] = y * y
      BY <1>7, <2>1, <2>6 DEF y
    <3> QED  BY <2>10, <3>1, <3>2
  <2>13. SumFunctionOnSet(g, M) < SumFunctionOnSet(f, M)
    <3> HIDE DEF f, g
    <3>1. IsFiniteSet(M)
      OBVIOUS
    <3> QED  BY ONLY <2>1, <2>2, <2>11, <2>12, <3>1, SumShrinks
  <2> QED  BY <2>13
<1>9. \A k \in 0 .. L : sum(k) \in Nat
  <2> SUFFICES ASSUME NEW k \in 0 .. L PROVE sum(k) \in Nat
    OBVIOUS
  <2> DEFINE f == sq(k)
  <2>1. \A n \in M : f[n] \in Nat
    BY <1>7
  <2> HIDE DEF f
  <2>2. SumFunctionOnSet(f, M) \in Nat
    BY <2>1, SumFacts
  <2> QED  BY <2>2 DEF f
<1> HIDE DEF sum
<1> DEFINE wrong == {k \in 1 .. L : ~ (sum(k) < sum(0))}
<1>10. ASSUME wrong # {} PROVE FALSE
  <2>1. wrong \in SUBSET Nat
    OBVIOUS
  <2>2. PICK k \in wrong : \A j \in wrong : k <= j
    BY <1>10, <2>1, LeastElement
  <2>3. k \in 1 .. L /\ ~ (sum(k) < sum(0))
    OBVIOUS
  <2>4. k - 1 = 0 \/ sum(k - 1) < sum(0)
    <3> SUFFICES ASSUME k - 1 # 0, ~ (sum(k - 1) < sum(0)) PROVE FALSE
      OBVIOUS
    <3>1. k - 1 \in wrong
      BY <2>3
    <3> HIDE DEF wrong
    <3> QED  BY <2>2, <2>3, <3>1
  <2>5. sum(k) < sum(k - 1)
    BY <1>8, <2>3
  <2>6. sum(k) \in Nat /\ sum(k - 1) \in Nat /\ sum(0) \in Nat
    <3>1. k \in 0 .. L /\ k - 1 \in 0 .. L /\ 0 \in 0 .. L
      BY <2>3
    <3> QED  BY <1>9, <3>1
  <2> QED  BY ONLY <2>3, <2>4, <2>5, <2>6
<1>11. L \in 1 .. L
  OBVIOUS
<1>12. sum(L) < sum(0)
  BY <1>10, <1>11
<1> QED  BY <1>12 DEF sum, sq

\* What the plan says, for MovesEven.
LEMMA AdviceFacts ==
  ASSUME PlacementAssumption, PlacementInv, Cardinality(members) >= 2, RebalancePlan # << >>
  PROVE  LET L == Len(RebalancePlan)
             src == [i \in 1 .. L |-> RebalancePlan[i].src]
             dst == [i \in 1 .. L |-> RebalancePlan[i].dst]
             c == [n \in members |-> Count(n)]
         IN /\ L \in Nat /\ L > 0 /\ DOMAIN RebalancePlan = 1 .. L
            /\ src \in [1 .. L -> members] /\ dst \in [1 .. L -> members]
            /\ \E num \in [1 .. L -> Nat] :
                 Evening(c, Cardinality(members), Total, L, src, dst, num)
<1> DEFINE size == Cardinality(members)
           cnt(n) == Count(n)
           total == Total
           from(i) == InTurn(Givers, FullerFirst(Givers), i)
           seat(i) == InTurn(Seats, EmptierFirst(Seats), i)
           L == IF Cardinality(Givers) < Cardinality(Seats) THEN Cardinality(Givers)
                ELSE Cardinality(Seats)
<1>1. /\ members \in SUBSET Nat /\ IsFiniteSet(members) /\ size \in Nat /\ size > 0
      /\ \A n \in members : cnt(n) \in Nat
      /\ total \in Nat
  BY ClusterFacts
<1>2. /\ Givers \in SUBSET members
      /\ \A n \in Givers : cnt(n) * size > total + size
  BY DEF Givers, Overloaded
<1>3. /\ Seats \in SUBSET (members \X (1 .. total))
      /\ \A s \in Seats : (cnt(s[1]) + s[2] - 1) * size < total
  BY DEF Seats
<1>4. Seats \in SUBSET (members \X Nat) /\ \A s \in Seats : s[2] \in Nat /\ s[2] > 0
  BY <1>1, <1>3
<1>5. /\ IsFiniteSet(Givers) /\ IsFiniteSet(Seats)
      /\ Cardinality(Givers) \in Nat /\ Cardinality(Seats) \in Nat
  <2>1. IsFiniteSet(1 .. total)
    BY <1>1, FS_Interval
  <2> DEFINE places == members \X (1 .. total)
  <2>2. IsFiniteSet(places)
    BY <1>1, <2>1, FS_Product
  <2>3. Seats \in SUBSET places
    BY <1>3
  <2> HIDE DEF places
  <2> QED  BY <1>1, <1>2, <2>2, <2>3, FS_Subset, FS_CardinalityType
<1>6. /\ L \in Nat
      /\ \A i \in 1 .. L : i \in 1 .. Cardinality(Givers) /\ i \in 1 .. Cardinality(Seats)
  BY <1>5
<1>7. RebalancePlan = [i \in 1 .. L |-> [agent |-> Head(hosts[from(i)]), src |-> from(i),
                                         dst |-> seat(i)[1]]]
  BY DEF RebalancePlan
<1>8. /\ \A i \in 1 .. L : from(i) \in Givers
      /\ \A i, j \in 1 .. L : i < j => from(i) # from(j)
  <2>1. Givers \in SUBSET Nat /\ \A n \in Givers : Count(n) \in Nat
    BY <1>1, <1>2
  <2>2. Orders(FullerFirst(Givers), Givers)
    BY <2>1, FullerFirstOrders
  <2>3. /\ \A k \in 1 .. Cardinality(Givers) : from(k) \in Givers
        /\ \A k, l \in 1 .. Cardinality(Givers) : k < l => from(k) # from(l)
    BY <1>5, <2>2, TurnFacts
  <2> HIDE DEF from, L
  <2> QED  BY <1>6, <2>3
<1>9. /\ \A i \in 1 .. L : seat(i) \in Seats
      /\ \A i, j \in 1 .. L : i < j /\ seat(i)[1] = seat(j)[1] => seat(i)[2] < seat(j)[2]
  <2>1. /\ Orders(EmptierFirst(Seats), Seats)
        /\ \A a, b \in Seats : a[1] = b[1] /\ <<a, b>> \in EmptierFirst(Seats) => a[2] <= b[2]
    BY <1>1, <1>4, EmptierFirstOrders
  <2>2. /\ \A k \in 1 .. Cardinality(Seats) : seat(k) \in Seats
        /\ \A k, l \in 1 .. Cardinality(Seats) :
             k < l => seat(k) # seat(l) /\ <<seat(k), seat(l)>> \in EmptierFirst(Seats)
    BY <1>5, <2>1, TurnFacts
  <2>3. \A a, b \in Seats : a[1] = b[1] /\ a[2] = b[2] => a = b
    BY <1>4
  <2> HIDE DEF seat, L
  <2>4. \A i \in 1 .. L : seat(i) \in Seats
    BY <1>6, <2>2
  <2>5. ASSUME NEW i \in 1 .. L, NEW j \in 1 .. L, i < j, seat(i)[1] = seat(j)[1]
        PROVE  seat(i)[2] < seat(j)[2]
    <3>1. /\ seat(i) \in Seats /\ seat(j) \in Seats /\ seat(i) # seat(j)
          /\ <<seat(i), seat(j)>> \in EmptierFirst(Seats)
      BY <1>6, <2>2, <2>4, <2>5
    <3>2. seat(i)[2] <= seat(j)[2] /\ seat(i)[2] # seat(j)[2]
      BY <2>1, <2>3, <2>5, <3>1
    <3>3. seat(i)[2] \in Nat /\ seat(j)[2] \in Nat
      BY <1>4, <3>1
    <3> QED  BY <3>2, <3>3
  <2> QED  BY <2>4, <2>5
<1> DEFINE p == RebalancePlan
           src == [i \in 1 .. L |-> from(i)]
           dst == [i \in 1 .. L |-> seat(i)[1]]
           num == [i \in 1 .. L |-> seat(i)[2]]
           c == [n \in members |-> Count(n)]
<1>10. /\ Len(p) = L /\ DOMAIN p = 1 .. L
       /\ \A i \in 1 .. L : p[i].src = from(i) /\ p[i].dst = seat(i)[1]
       /\ L > 0
  <2> HIDE DEF L, from, seat
  <2>1. /\ Len(p) = L /\ DOMAIN p = 1 .. L
        /\ \A i \in 1 .. L : p[i].src = from(i) /\ p[i].dst = seat(i)[1]
    BY <1>6, <1>7
  <2>2. L # 0
    <3> SUFFICES ASSUME L = 0 PROVE FALSE
      OBVIOUS
    <3>1. p = << >>
      BY <1>7
    <3> QED  BY <3>1
  <2> QED  BY <1>6, <2>1, <2>2
<1> HIDE DEF p, from, seat, L
<1>11. src \in [1 .. L -> members] /\ dst \in [1 .. L -> members] /\ num \in [1 .. L -> Nat]
  BY <1>2, <1>4, <1>8, <1>9
<1>12. Evening(c, size, total, L, src, dst, num)
  <2>1. ASSUME NEW i \in 1 .. L
        PROVE  /\ num[i] > 0
               /\ c[src[i]] * size > total + size
               /\ (c[dst[i]] + num[i] - 1) * size < total
    <3>1. from(i) \in Givers /\ from(i) \in members /\ seat(i) \in Seats /\ seat(i)[1] \in members
      BY <1>2, <1>4, <1>8, <1>9
    <3>2. c[src[i]] = cnt(from(i)) /\ c[dst[i]] = cnt(seat(i)[1]) /\ num[i] = seat(i)[2]
      BY <3>1
    <3> HIDE DEF size, total, cnt, c, src, dst, num
    <3> QED  BY <1>2, <1>3, <1>4, <3>1, <3>2
  <2>2. \A i, j \in 1 .. L : i < j => src[i] # src[j]
    BY <1>8
  <2>3. \A i, j \in 1 .. L : i < j /\ dst[i] = dst[j] => num[i] < num[j]
    BY <1>9
  <2> HIDE DEF src, dst, num, c
  <2> QED  BY <2>1, <2>2, <2>3 DEF Evening
<1>13. /\ src = [i \in 1 .. Len(p) |-> p[i].src] /\ dst = [i \in 1 .. Len(p) |-> p[i].dst]
  BY <1>10
<1> HIDE DEF src, dst, num, c, size, total
<1> QED  BY <1>6, <1>10, <1>11, <1>12, <1>13 DEF p, c, size, total

LEMMA RebalancingWorks ==
  ASSUME PlacementAssumption, PlacementInv
  PROVE  RebalancingSettles
<1> DEFINE p == RebalancePlan
           moves(n, what) == Cardinality({i \in DOMAIN p : p[i][what] = n})
           before == [n \in members |-> Count(n)]
           after == [n \in members |-> Count(n) + moves(n, "dst") - moves(n, "src")]
<1>1. SUFFICES ASSUME Cardinality(members) >= 2, p # << >>
               PROVE  Unevenness(after) < Unevenness(before)
  BY DEF RebalancingSettles
<1> DEFINE M == members
           L == Len(p)
           src == [i \in 1 .. L |-> p[i].src]
           dst == [i \in 1 .. L |-> p[i].dst]
<1>2. /\ M \in SUBSET Nat /\ IsFiniteSet(M) /\ Cardinality(M) \in Nat /\ Cardinality(M) > 0
      /\ \A n \in M : Count(n) \in Nat
      /\ Total \in Nat
  BY <1>1, ClusterFacts
<1>3. /\ L \in Nat /\ L > 0 /\ DOMAIN p = 1 .. L
      /\ src \in [1 .. L -> M] /\ dst \in [1 .. L -> M]
      /\ \E num \in [1 .. L -> Nat] : Evening(before, Cardinality(M), Total, L, src, dst, num)
  BY <1>1, AdviceFacts
<1>4. before \in [M -> Nat]
  BY <1>2
<1>5. \A n : moves(n, "dst") = Cardinality(Moves(dst, n, L)) /\ moves(n, "src") = Cardinality(Moves(src, n, L))
  <2> SUFFICES ASSUME NEW n
               PROVE  /\ {i \in DOMAIN p : p[i]["dst"] = n} = Moves(dst, n, L)
                      /\ {i \in DOMAIN p : p[i]["src"] = n} = Moves(src, n, L)
    OBVIOUS
  <2> HIDE DEF p, L
  <2> QED  BY <1>3 DEF Moves
<1>6. Unevenness(before) = SumFunctionOnSet(Squares(before, src, dst, M, 0), M)
  <2> DEFINE sq == [n \in M |-> before[n] * before[n]]
  <2>1. \A n \in M : CountAfter(before, src, dst, n, 0) = before[n]
    <3> SUFFICES ASSUME NEW n \in M PROVE CountAfter(before, src, dst, n, 0) = before[n]
      OBVIOUS
    <3>1. before[n] \in Nat
      BY <1>4
    <3>2. Cardinality(Moves(dst, n, 0)) = 0 /\ Cardinality(Moves(src, n, 0)) = 0
      BY MovesAreCounted
    <3> HIDE DEF before, src, dst
    <3> QED  BY <3>1, <3>2 DEF CountAfter
  <2>2. Unevenness(before) = SumFunctionOnSet(sq, M)
    BY DEF Unevenness
  <2> HIDE DEF before, src, dst, M
  <2>3. Squares(before, src, dst, M, 0) = sq
    BY <2>1 DEF Squares
  <2> QED  BY <2>2, <2>3
<1>7. Unevenness(after) = SumFunctionOnSet(Squares(before, src, dst, M, L), M)
  <2> DEFINE sq == [n \in M |-> after[n] * after[n]]
  <2>1. \A n \in M : CountAfter(before, src, dst, n, L) = after[n]
    <3> SUFFICES ASSUME NEW n \in M PROVE CountAfter(before, src, dst, n, L) = after[n]
      OBVIOUS
    <3>1. before[n] = Count(n)
      OBVIOUS
    <3>2. after[n] = Count(n) + moves(n, "dst") - moves(n, "src")
      OBVIOUS
    <3> HIDE DEF before, src, dst, after, moves, L
    <3> QED  BY <1>5, <3>1, <3>2 DEF CountAfter
  <2>2. Unevenness(after) = SumFunctionOnSet(sq, M)
    BY DEF Unevenness
  <2> HIDE DEF before, src, dst, M, after, L
  <2>3. Squares(before, src, dst, M, L) = sq
    BY <2>1 DEF Squares
  <2> QED  BY <2>2, <2>3
<1> HIDE DEF before, src, dst, M, after, L
<1>8. PICK num \in [1 .. L -> Nat] : Evening(before, Cardinality(M), Total, L, src, dst, num)
  BY <1>3
<1>9. SumFunctionOnSet(Squares(before, src, dst, M, L), M)
      < SumFunctionOnSet(Squares(before, src, dst, M, 0), M)
  BY <1>2, <1>3, <1>4, <1>8, MovesEven
<1> QED  BY <1>6, <1>7, <1>9

(***************************************************************************)
(* However agents are placed, migrated, killed and written to, and nodes   *)
(* leave, a living agent runs on one node with its mail, and every plan    *)
(* makes the cluster it was made for more even.                            *)
(***************************************************************************)
THEOREM AlwaysPlacedOnceAndSettled ==
  ASSUME PlacementAssumption
  PROVE  PlacementSpec => []PlacedOnceAndSettled
<1>1. PlacementInit => PlacementInv
  BY PlacementStarts
<1>2. PlacementInv /\ [PlacementNext]_placement => PlacementInv'
  BY PlacementStep
<1>3. PlacementInv => PlacedOnceAndSettled
  BY RebalancingWorks DEF PlacedOnceAndSettled, PlacementInv
<1> QED  BY <1>1, <1>2, <1>3, PTL DEF PlacementSpec
=============================================================================
