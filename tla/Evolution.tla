------------------------------- MODULE Evolution -------------------------------
(***************************************************************************)
(* GeneticPool and AgentFactory of src/battousai/evolution.py, and the     *)
(* engine as far as it gets.  A genome is its source, its score and its    *)
(* generation; its tunable numbers are left out.                           *)
(***************************************************************************)
EXTENDS Integers, Sequences, FiniteSets

CONSTANTS
  Sources,       \* source codes; those of Broken do not compile
  Broken,
  ClassOf,       \* the class a source defines
  Scores,        \* fitness scores
  MaxPopulation, \* max_population
  Elite,         \* elite_fraction, in percent
  MaxBorn,       \* bound on genomes
  MaxCycles      \* bound on generations, registrations and cycles

EvolutionAssumption ==
  /\ Broken \subseteq Sources /\ Sources \subseteq DOMAIN ClassOf
  /\ 0 \in Scores /\ Scores \subseteq Int
  /\ MaxPopulation \in Nat \ {0} /\ Elite \in 0 .. 100
  /\ MaxBorn \in Nat /\ MaxCycles \in Nat

VARIABLES
  genomes,    \* _genomes
  generation, \* _generation
  born,       \* genomes made so far, as many as there are ids
  registry,   \* _registry, per class the source of each version
  cycle,      \* _cycle
  phase       \* _phase

evolution == <<genomes, generation, born, registry, cycle, phase>>
pool == <<genomes, generation, born>>

-----------------------------------------------------------------------------
(* The pool                                                                 *)

Best(x, y) == IF x > y THEN x ELSE y

\* sorted(key=fitness_score, reverse=True): what is equal keeps its order.
Ranked(q) ==
  LET notBehind(i) ==
        {j \in DOMAIN q : \/ q[j].fitness > q[i].fitness
                          \/ q[j].fitness = q[i].fitness /\ j <= i}
  IN [k \in DOMAIN q |-> q[CHOOSE i \in DOMAIN q : Cardinality(notBehind(i)) = k]]

TopK(k) == SubSeq(Ranked(genomes), 1, k)

\* Mutant of Evicted: the newest goes, the pool is not sorted first.
NewestEvicted(q) == IF Len(q) >= MaxPopulation THEN SubSeq(q, 1, Len(q) - 1) ELSE q

\* A full pool is sorted, and its last genome goes.
Evicted(q) == IF Len(q) >= MaxPopulation THEN SubSeq(Ranked(q), 1, Len(q) - 1) ELSE q

\* A genome that was not scored yet.
NewGenome(id, source, gen) ==
  [id |-> id, source |-> source, fitness |-> 0, gen |-> gen]

Add(source) ==
  /\ born < MaxBorn
  /\ born' = born + 1
  /\ genomes' = Append(Evicted(genomes), NewGenome(born + 1, source, 0))
  /\ UNCHANGED <<generation, registry, cycle, phase>>

UpdateFitness(i, score) ==
  /\ i \in DOMAIN genomes
  /\ genomes' = [genomes EXCEPT ![i].fitness = score]
  /\ UNCHANGED <<generation, born, registry, cycle, phase>>

\* The source of the fitter parent, the first of two equal ones.
Crossover(a, b) ==
  [source |-> IF a.fitness >= b.fitness THEN a.source ELSE b.source,
   gen |-> generation + 2]

\* A copy without its score, one generation further.
Mutate(child, id) ==
  NewGenome(id, child.source, child.gen + 1)

\* Offspring have two parents among the elite: an elite of one has none.
NextGeneration ==
  /\ generation < MaxCycles
  /\ generation' = generation + 1
  /\ LET n == Len(genomes)
         elite == TopK(IF n = 0 THEN 0 ELSE Best(1, (n * Elite) \div 100))
         missing == IF Len(elite) >= 2 THEN MaxPopulation - Len(elite) ELSE 0
         couples == {c \in (DOMAIN elite) \X (DOMAIN elite) : c[1] # c[2]}
     IN /\ born + missing <= MaxBorn
        /\ born' = born + missing
        /\ \E chosen \in [1 .. missing -> couples] :
             genomes' = elite \o [i \in 1 .. missing |->
               Mutate(Crossover(elite[chosen[i][1]], elite[chosen[i][2]]), born + i)]
  /\ UNCHANGED <<registry, cycle, phase>>

-----------------------------------------------------------------------------
(* The factory and the engine                                               *)

\* What does not compile, or defines no agent, is not registered.
CompileAndRegister(source) ==
  /\ source \notin Broken
  /\ Len(registry[ClassOf[source]]) < MaxCycles
  /\ registry' = [registry EXCEPT ![ClassOf[source]] = Append(@, source)]
  /\ UNCHANGED <<genomes, generation, born, cycle, phase>>

Latest(class) == Len(registry[class])

\* get: 0 stands for no version asked for, an empty string for None.
Get(class, version) ==
  LET v == IF version = 0 THEN Latest(class) ELSE version
  IN IF v \in DOMAIN registry[class] THEN registry[class][v] ELSE ""

\* _bootstrap_pool raises KeyError on its first template, which has braces of
\* its own: the cycle is counted, and the phase stays.
Think ==
  /\ cycle < MaxCycles
  /\ cycle' = cycle + 1
  /\ UNCHANGED <<genomes, generation, born, registry, phase>>

EvolutionInit ==
  /\ genomes = << >> /\ generation = 0 /\ born = 0
  /\ registry = [class \in {ClassOf[s] : s \in Sources} |-> << >>]
  /\ cycle = 0 /\ phase = "BOOTSTRAP"

EvolutionNext ==
  \/ \E s \in Sources : Add(s) \/ CompileAndRegister(s)
  \/ \E i \in 1 .. MaxPopulation, score \in Scores : UpdateFitness(i, score)
  \/ NextGeneration
  \/ Think

EvolutionSpec == EvolutionInit /\ [][EvolutionNext]_evolution

-----------------------------------------------------------------------------
Ids(q) == {q[i].id : i \in DOMAIN q}

(***************************************************************************)
(* Whatever is added, scored and bred: the pool never exceeds its maximum, *)
(* no genome goes while a less fit one stays, the sources of a new         *)
(* generation are those of the elite that stays, and a version of a class, *)
(* once registered, can be had for a rollback unchanged.                   *)
(***************************************************************************)
FittestSurvive ==
  [][/\ Len(genomes') <= MaxPopulation
     /\ \A i, j \in DOMAIN genomes :
          genomes[i].id \notin Ids(genomes') /\ genomes[j].id \in Ids(genomes')
            => genomes[j].fitness >= genomes[i].fitness
     /\ generation' # generation =>
          /\ genomes # << >> => Ids(genomes) \cap Ids(genomes') # {}
          /\ \A i \in DOMAIN genomes' :
               \E j \in DOMAIN genomes : /\ genomes[j].source = genomes'[i].source
                                         /\ genomes[j].id \in Ids(genomes')
     /\ \A class \in DOMAIN registry : \A v \in DOMAIN registry[class] :
          Get(class, v)' = Get(class, v)]_evolution
=============================================================================
