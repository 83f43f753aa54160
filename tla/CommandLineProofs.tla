------------------------- MODULE CommandLineProofs --------------------------
(***************************************************************************)
(* Runs of the tool, for any files and formulas: early answers are those of *)
(* the game, and what the solvers are called with is what the files say.    *)
(*                                                                         *)
(* Recursive functions over formulas are computed part by part; the         *)
(* preprocessing is compared with the meaning of formulas; the steps of a   *)
(* run are counted; the names that are read are related to the variables,   *)
(* these to the letters and to the conditions.                              *)
(***************************************************************************)
EXTENDS Parser, VarMgrProofs

-----------------------------------------------------------------------------
(* Recursion *)

\* The value at a place is computed from the values at lower places.
LooksDown(D, rank, V, step) ==
    /\ step \in [D -> [[D -> V] -> V]]
    /\ \A d \in D : \A g, h \in [D -> V] :
            (\A e \in D : rank[e] < rank[d] => g[e] = h[e]) => step[d][g] = step[d][h]

IsSolved(D, V, step) == \E F \in [D -> V] : \A d \in D : F[d] = step[d][F]

\* A definition by recursion on a rank has a solution.
LEMMA RecursiveFunction ==
    ASSUME NEW D, NEW rank \in [D -> Nat], NEW V, V # {}, NEW step, LooksDown(D, rank, V, step)
    PROVE  IsSolved(D, V, step)
<1>. USE DEF LooksDown
<1>. DEFINE Solves(n, g) == g \in [D -> V] /\ \A d \in D : rank[d] < n => g[d] = step[d][g]
<1>1. \A n \in Nat : \E g : Solves(n, g)
  <2>. DEFINE T == {n \in Nat : ~\E g : Solves(n, g)}
  <2>. SUFFICES ASSUME T # {} PROVE FALSE
    OBVIOUS
  <2>1. PICK n \in T : \A m \in T : n <= m
    <3>1. T \in SUBSET Nat
      OBVIOUS
    <3>. HIDE DEF T
    <3>. QED  BY <3>1, LeastNumber
  <2>2. n # 0
    <3>1. PICK v \in V : TRUE
      OBVIOUS
    <3>2. [d \in D |-> v] \in [D -> V] /\ \A d \in D : ~(rank[d] < 0)
      OBVIOUS
    <3>3. Solves(0, [d \in D |-> v])
      BY <3>2
    <3>. QED  BY <3>3
  <2>3. n \in Nat /\ n - 1 \in Nat /\ n - 1 \notin T
    <3>1. n \in Nat
      OBVIOUS
    <3>2. n - 1 \in Nat /\ ~(n <= n - 1)
      BY <2>2, <3>1
    <3>. HIDE DEF T
    <3>. QED  BY <2>1, <3>1, <3>2
  <2>4. PICK g : Solves(n - 1, g)
    BY <2>3
  <2>. DEFINE h == [d \in D |-> step[d][g]]
  <2>5. h \in [D -> V]
    BY <2>4
  <2>6. ASSUME NEW d \in D, rank[d] < n PROVE h[d] = step[d][h]
    <3>1. \A e \in D : rank[e] < rank[d] => rank[e] < n - 1
      BY <2>3, <2>6
    <3>2. \A e \in D : rank[e] < rank[d] => g[e] = h[e]
      BY <2>4, <3>1
    <3>. QED  BY <2>4, <2>5, <3>2
  <2>7. Solves(n, h)
    <3>. HIDE DEF h
    <3>. QED  BY <2>5, <2>6
  <2>. QED  BY <2>1, <2>7
<1>2. ASSUME NEW n \in Nat, NEW m \in Nat, NEW g, NEW h, Solves(n, g), Solves(m, h),
             NEW d \in D, rank[d] < n, rank[d] < m
      PROVE  g[d] = h[d]
  <2>. DEFINE T == {rank[e] : e \in {e \in D : rank[e] < n /\ rank[e] < m /\ g[e] # h[e]}}
  <2>. SUFFICES ASSUME T # {} PROVE FALSE
    BY <1>2
  <2>1. PICK k \in T : \A l \in T : k <= l
    <3>1. T \in SUBSET Nat
      OBVIOUS
    <3>. HIDE DEF T
    <3>. QED  BY <3>1, LeastNumber
  <2>2. PICK e \in D : k = rank[e] /\ rank[e] < n /\ rank[e] < m /\ g[e] # h[e]
    BY <2>1
  <2>3. \A c \in D : rank[c] < rank[e] => rank[c] < n /\ rank[c] < m /\ rank[c] \notin T
    <3>. SUFFICES ASSUME NEW c \in D, rank[c] < rank[e]
                  PROVE  rank[c] < n /\ rank[c] < m /\ rank[c] \notin T
      OBVIOUS
    <3>1. rank[c] < n /\ rank[c] < m /\ ~(rank[e] <= rank[c])
      BY <2>2
    <3>. HIDE DEF T
    <3>. QED  BY <2>1, <2>2, <3>1
  <2>4. \A c \in D : rank[c] < rank[e] => g[c] = h[c]
    BY <2>3
  <2>. QED  BY <1>2, <2>2, <2>4
<1>. DEFINE G(d) == CHOOSE g : Solves(rank[d] + 1, g)
            F == [d \in D |-> G(d)[d]]
<1>3. \A d \in D : Solves(rank[d] + 1, G(d))
  <2>1. \A d \in D : rank[d] + 1 \in Nat
    OBVIOUS
  <2>2. \A d \in D : \E g : Solves(rank[d] + 1, g)
    BY <1>1, <2>1
  <2>. HIDE DEF Solves
  <2>. QED  BY <2>2
<1>. HIDE DEF G
<1>4. F \in [D -> V]
  BY <1>3
<1>5. ASSUME NEW d \in D PROVE F[d] = step[d][F]
  <2>1. \A e \in D : rank[e] < rank[d] =>
            /\ rank[e] + 1 \in Nat /\ rank[d] + 1 \in Nat
            /\ rank[e] < rank[e] + 1 /\ rank[e] < rank[d] + 1
    OBVIOUS
  <2>2. \A e \in D : rank[e] < rank[d] => F[e] = G(d)[e]
    <3>. SUFFICES ASSUME NEW e \in D, rank[e] < rank[d] PROVE G(e)[e] = G(d)[e]
      OBVIOUS
    <3>. HIDE DEF Solves, F
    <3>. QED  BY <1>2, <1>3, <2>1
  <2>3. G(d) \in [D -> V] /\ G(d)[d] = step[d][G(d)]
    BY <1>3
  <2>4. F[d] = G(d)[d]
    OBVIOUS
  <2>. HIDE DEF F
  <2>. QED  BY <1>4, <2>2, <2>3, <2>4
<1>. HIDE DEF F
<1>. QED  BY <1>4, <1>5 DEF IsSolved

\* The parts of a formula are formulas, and lower.
LEMMA PartsOfFormulas ==
    ASSUME NEW f \in Formulas
    PROVE  /\ f.op \in DOMAIN Arity /\ Height(f) \in Nat
           /\ f.args \in Seq(Formulas) /\ Len(f.args) = Arity[f.op]
           /\ DOMAIN f.args = 1 .. Arity[f.op]
           /\ \A k \in DOMAIN f.args :
                    /\ f.args[k] \in Formulas
                    /\ Height(f.args[k]) \in Nat /\ Height(f.args[k]) < Height(f)
<1>1. f.args \in Seq(Formulas) /\ Len(f.args) = Arity[f.op]
  BY FormulasAssumption
<1>2. DOMAIN f.args = 1 .. Len(f.args) /\ \A k \in DOMAIN f.args : f.args[k] \in Formulas
  BY <1>1, LenProperties, ElementOfSeq
<1>. QED  BY <1>1, <1>2, FormulasAssumption

\* Induction on formulas.
LEMMA FormulaInduction ==
    ASSUME NEW T,
           \A f \in Formulas : (\A k \in DOMAIN f.args : f.args[k] \in T) => f \in T
    PROVE  Formulas \subseteq T
<1>. DEFINE heights == {Height(f) : f \in Formulas \ T}
<1>. SUFFICES ASSUME heights # {} PROVE FALSE
  OBVIOUS
<1>1. PICK n \in heights : \A m \in heights : n <= m
  <2>1. heights \in SUBSET Nat
    BY FormulasAssumption
  <2>. HIDE DEF heights
  <2>. QED  BY <2>1, LeastNumber
<1>2. PICK f \in Formulas \ T : n = Height(f)
  BY <1>1
<1>3. \A k \in DOMAIN f.args : /\ f.args[k] \in Formulas
                               /\ Height(f.args[k]) \in Nat /\ Height(f) \in Nat
                               /\ Height(f.args[k]) < Height(f)
  BY <1>2, PartsOfFormulas
<1>4. ASSUME NEW k \in DOMAIN f.args, f.args[k] \notin T PROVE FALSE
  <2>1. f.args[k] \in Formulas \ T /\ ~(n <= Height(f.args[k]))
    BY <1>2, <1>3, <1>4
  <2>2. Height(f.args[k]) \in heights
    BY <2>1
  <2>. HIDE DEF heights
  <2>. QED  BY <1>1, <2>1, <2>2
<1>. QED  BY <1>2, <1>4

\* Recursion on formulas: a value computed from those of the parts.
LEMMA FormulaRecursion ==
    ASSUME NEW V, V # {}, NEW step \in [Formulas -> [[Formulas -> V] -> V]],
           \A f \in Formulas : \A g, h \in [Formulas -> V] :
               (\A k \in DOMAIN f.args : g[f.args[k]] = h[f.args[k]]) => step[f][g] = step[f][h]
    PROVE  IsSolved(Formulas, V, step)
<1>. DEFINE rank == [f \in Formulas |-> Height(f)]
<1>1. rank \in [Formulas -> Nat]
  BY FormulasAssumption
<1>2. ASSUME NEW f \in Formulas, NEW g \in [Formulas -> V], NEW h \in [Formulas -> V],
             \A e \in Formulas : rank[e] < rank[f] => g[e] = h[e]
      PROVE  step[f][g] = step[f][h]
  <2>1. \A k \in DOMAIN f.args : f.args[k] \in Formulas /\ rank[f.args[k]] < rank[f]
    BY PartsOfFormulas
  <2>. HIDE DEF rank
  <2>. QED  BY <1>2, <2>1
<1>. HIDE DEF rank
<1>3. LooksDown(Formulas, rank, V, step)
  BY <1>2 DEF LooksDown
<1>. QED  BY <1>1, <1>3, RecursiveFunction

\* The operators, and how many parts each has.
LEMMA Operators ==
    ASSUME NEW f \in Formulas
    PROVE  /\ f.op \in {"true", "false", "atom", "not", "and", "or", "next", "weak_next",
                        "until", "release", "eventually", "always"}
           /\ f.op \in {"true", "false", "atom"} => DOMAIN f.args = {}
           /\ f.op \in {"not", "next", "weak_next", "eventually", "always"} =>
                    Len(f.args) = 1 /\ DOMAIN f.args = {1}
           /\ f.op \in {"and", "or", "until", "release"} =>
                    Len(f.args) = 2 /\ DOMAIN f.args = {1, 2}
<1>1. f.op \in DOMAIN Arity /\ Len(f.args) = Arity[f.op] /\ DOMAIN f.args = 1 .. Arity[f.op]
  BY PartsOfFormulas
<1>2. /\ f.op \in {"true", "false", "atom"} => Arity[f.op] = 0
      /\ f.op \in {"not", "next", "weak_next", "eventually", "always"} => Arity[f.op] = 1
      /\ f.op \in {"and", "or", "until", "release"} => Arity[f.op] = 2
  BY <1>1 DEF Arity
<1>3. f.op \in {"true", "false", "atom", "not", "and", "or", "next", "weak_next",
                "until", "release", "eventually", "always"}
  BY <1>1 DEF Arity
<1>4. 1 .. 0 = {} /\ 1 .. 1 = {1} /\ 1 .. 2 = {1, 2}
  OBVIOUS
<1>. QED  BY <1>1, <1>2, <1>3, <1>4

EndStep(g, letter, h) ==
    CASE g.op = "true" -> TRUE
      [] g.op \in {"false", "next"} -> FALSE
      [] g.op = "weak_next" -> TRUE
      [] g.op = "atom" -> g.name \in letter
      [] g.op = "not" -> ~h[g.args[1]]
      [] g.op = "and" -> \A k \in DOMAIN g.args : h[g.args[k]]
      [] g.op = "or" -> \E k \in DOMAIN g.args : h[g.args[k]]
      [] OTHER -> h[g.args[Len(g.args)]]

EndsAsParts(f, letter) ==
    /\ holds_at_the_end(f, letter) \in BOOLEAN
    /\ f.op \in {"true", "weak_next"} => holds_at_the_end(f, letter)
    /\ f.op \in {"false", "next"} => ~holds_at_the_end(f, letter)
    /\ f.op = "atom" => (holds_at_the_end(f, letter) <=> f.name \in letter)
    /\ f.op = "not" => (holds_at_the_end(f, letter) <=> ~holds_at_the_end(f.args[1], letter))
    /\ f.op = "and" =>
         (holds_at_the_end(f, letter)
             <=> \A k \in DOMAIN f.args : holds_at_the_end(f.args[k], letter))
    /\ f.op = "or" =>
         (holds_at_the_end(f, letter)
             <=> \E k \in DOMAIN f.args : holds_at_the_end(f.args[k], letter))
    /\ f.op \in {"until", "release", "eventually", "always"} =>
         (holds_at_the_end(f, letter) <=> holds_at_the_end(f.args[Len(f.args)], letter))

\* The visitor's result for a formula, from those for its parts.
LEMMA EndOfFormulas == ASSUME NEW f \in Formulas, NEW letter PROVE EndsAsParts(f, letter)
<1>. DEFINE step == [g \in Formulas |-> [h \in [Formulas -> BOOLEAN] |-> EndStep(g, letter, h)]]
            Solution(h) == h = [g \in Formulas |-> EndStep(g, letter, h)]
<1>1. ASSUME NEW g \in Formulas, NEW h, \A k \in DOMAIN g.args : h[g.args[k]] \in BOOLEAN
      PROVE  EndStep(g, letter, h) \in BOOLEAN
  <2>1. CASE g.op \in {"true", "weak_next"}
    BY <2>1 DEF EndStep
  <2>2. CASE g.op \in {"false", "next"}
    BY <2>2 DEF EndStep
  <2>3. CASE g.op = "atom"
    BY <2>3 DEF EndStep
  <2>4. CASE g.op \in {"and", "or"}
    BY <2>4 DEF EndStep
  <2>5. CASE g.op = "not"
    <3>. QED  BY <1>1, <2>5, Operators, PartsOfFormulas DEF EndStep
  <2>6. CASE g.op \in {"until", "release", "eventually", "always"}
    <3>1. h[g.args[Len(g.args)]] \in BOOLEAN
      BY <1>1, <2>6, Operators, PartsOfFormulas
    <3>. QED  BY <2>6, <3>1 DEF EndStep
  <2>. QED  BY <2>1, <2>2, <2>3, <2>4, <2>5, <2>6, Operators
<1>2. step \in [Formulas -> [[Formulas -> BOOLEAN] -> BOOLEAN]]
  BY <1>1, PartsOfFormulas
<1>3. ASSUME NEW e \in Formulas, NEW g \in [Formulas -> BOOLEAN], NEW h \in [Formulas -> BOOLEAN],
             \A k \in DOMAIN e.args : g[e.args[k]] = h[e.args[k]]
      PROVE  step[e][g] = step[e][h]
  <2>1. EndStep(e, letter, g) = EndStep(e, letter, h)
    <3>1. CASE e.op \in {"true", "weak_next"}
      BY <3>1 DEF EndStep
    <3>2. CASE e.op \in {"false", "next"}
      BY <3>2 DEF EndStep
    <3>3. CASE e.op = "atom"
      BY <3>3 DEF EndStep
    <3>4. CASE e.op = "and"
      BY <1>3, <3>4 DEF EndStep
    <3>5. CASE e.op = "or"
      BY <1>3, <3>5 DEF EndStep
    <3>6. CASE e.op = "not"
      BY <1>3, <3>6, Operators, PartsOfFormulas DEF EndStep
    <3>7. CASE e.op \in {"until", "release", "eventually", "always"}
      <4>1. Len(e.args) \in DOMAIN e.args
        BY <3>7, Operators
      <4>2. g[e.args[Len(e.args)]] = h[e.args[Len(e.args)]]
        BY <1>3, <4>1
      <4>. QED  BY <3>7, <4>2 DEF EndStep
    <3>. QED  BY <3>1, <3>2, <3>3, <3>4, <3>5, <3>6, <3>7, Operators
  <2>. QED  BY <2>1
<1>4. IsSolved(Formulas, BOOLEAN, step)
  <2>. HIDE DEF step
  <2>. QED  BY <1>2, <1>3, FormulaRecursion
<1>5. PICK F \in [Formulas -> BOOLEAN] : \A g \in Formulas : F[g] = step[g][F]
  BY <1>4 DEF IsSolved
<1>6. Solution(F)
  BY <1>5
<1>. DEFINE H == CHOOSE h : Solution(h)
<1>7. Solution(H)
  <2>. HIDE DEF Solution
  <2>. QED  BY <1>6
<1>8. \A g \in Formulas : holds_at_the_end(g, letter) = H[g]
  BY DEF holds_at_the_end, EndStep
<1>. HIDE DEF H
<1>9. \A g \in Formulas : H[g] = EndStep(g, letter, H)
  BY <1>7
<1>. HIDE DEF Solution
<1>10. \A g \in Formulas : H[g] \in BOOLEAN
  <2>. DEFINE T == {g \in Formulas : H[g] \in BOOLEAN}
  <2>1. \A g \in Formulas : (\A k \in DOMAIN g.args : g.args[k] \in T) => g \in T
    BY <1>1, <1>9
  <2>. HIDE DEF T
  <2>2. Formulas \subseteq T
    BY <2>1, FormulaInduction
  <2>. QED  BY <2>2 DEF T
<1>11. holds_at_the_end(f, letter) = EndStep(f, letter, H)
  BY <1>8, <1>9
<1>12. \A k \in DOMAIN f.args : /\ H[f.args[k]] = holds_at_the_end(f.args[k], letter)
                                 /\ H[f.args[k]] \in BOOLEAN
  BY <1>8, <1>10, PartsOfFormulas
<1>13. holds_at_the_end(f, letter) \in BOOLEAN
  BY <1>8, <1>10
<1>14. ASSUME f.op \in {"true", "weak_next"} PROVE holds_at_the_end(f, letter)
  BY <1>11, <1>14 DEF EndStep
<1>15. ASSUME f.op \in {"false", "next"} PROVE ~holds_at_the_end(f, letter)
  BY <1>11, <1>15 DEF EndStep
<1>16. ASSUME f.op = "atom" PROVE holds_at_the_end(f, letter) <=> f.name \in letter
  BY <1>11, <1>16 DEF EndStep
<1>17. ASSUME f.op = "not"
       PROVE  holds_at_the_end(f, letter) <=> ~holds_at_the_end(f.args[1], letter)
  <2>1. H[f.args[1]] = holds_at_the_end(f.args[1], letter)
    BY <1>12, <1>17, Operators, PartsOfFormulas
  <2>. QED  BY <1>11, <1>17, <2>1 DEF EndStep
<1>18. ASSUME f.op = "and"
       PROVE  holds_at_the_end(f, letter)
                <=> \A k \in DOMAIN f.args : holds_at_the_end(f.args[k], letter)
  BY <1>11, <1>12, <1>18 DEF EndStep
<1>19. ASSUME f.op = "or"
       PROVE  holds_at_the_end(f, letter)
                <=> \E k \in DOMAIN f.args : holds_at_the_end(f.args[k], letter)
  BY <1>11, <1>12, <1>19 DEF EndStep
<1>20. ASSUME f.op \in {"until", "release", "eventually", "always"}
       PROVE  holds_at_the_end(f, letter) <=> holds_at_the_end(f.args[Len(f.args)], letter)
  <2>1. H[f.args[Len(f.args)]] = holds_at_the_end(f.args[Len(f.args)], letter)
    BY <1>12, <1>20, Operators, PartsOfFormulas
  <2>. QED  BY <1>11, <1>20, <2>1 DEF EndStep
<1>. QED  BY <1>13, <1>14, <1>15, <1>16, <1>17, <1>18, <1>19, <1>20 DEF EndsAsParts

MayStep(g, letter, h) ==
    CASE g.op \in {"true", "next", "weak_next", "eventually"} -> TRUE
      [] g.op = "false" -> FALSE
      [] g.op = "atom" -> g.name \in letter
      [] g.op = "not" -> ~h[g.args[1]]
      [] g.op = "and" -> \A k \in DOMAIN g.args : h[g.args[k]]
      [] g.op \in {"or", "until"} -> \E k \in DOMAIN g.args : h[g.args[k]]
      [] OTHER -> h[g.args[Len(g.args)]]

StartsAsParts(f, letter) ==
    /\ may_hold(f, letter) \in BOOLEAN
    /\ f.op \in {"true", "next", "weak_next", "eventually"} => may_hold(f, letter)
    /\ f.op = "false" => ~may_hold(f, letter)
    /\ f.op = "atom" => (may_hold(f, letter) <=> f.name \in letter)
    /\ f.op = "not" => (may_hold(f, letter) <=> ~may_hold(f.args[1], letter))
    /\ f.op = "and" =>
         (may_hold(f, letter)
             <=> \A k \in DOMAIN f.args : may_hold(f.args[k], letter))
    /\ f.op \in {"or", "until"} =>
         (may_hold(f, letter)
             <=> \E k \in DOMAIN f.args : may_hold(f.args[k], letter))
    /\ f.op \in {"release", "always"} =>
         (may_hold(f, letter) <=> may_hold(f.args[Len(f.args)], letter))

\* What a formula says of a first letter, part by part.
LEMMA StartOfFormulas == ASSUME NEW f \in Formulas, NEW letter PROVE StartsAsParts(f, letter)
<1>. DEFINE step == [g \in Formulas |-> [h \in [Formulas -> BOOLEAN] |-> MayStep(g, letter, h)]]
            Solution(h) == h = [g \in Formulas |-> MayStep(g, letter, h)]
<1>1. ASSUME NEW g \in Formulas, NEW h, \A k \in DOMAIN g.args : h[g.args[k]] \in BOOLEAN
      PROVE  MayStep(g, letter, h) \in BOOLEAN
  <2>1. CASE g.op \in {"true", "next", "weak_next", "eventually"}
    BY <2>1 DEF MayStep
  <2>2. CASE g.op = "false"
    BY <2>2 DEF MayStep
  <2>3. CASE g.op = "atom"
    BY <2>3 DEF MayStep
  <2>4. CASE g.op \in {"and", "or", "until"}
    BY <2>4 DEF MayStep
  <2>5. CASE g.op = "not"
    <3>. QED  BY <1>1, <2>5, Operators, PartsOfFormulas DEF MayStep
  <2>6. CASE g.op \in {"release", "always"}
    <3>1. h[g.args[Len(g.args)]] \in BOOLEAN
      BY <1>1, <2>6, Operators, PartsOfFormulas
    <3>. QED  BY <2>6, <3>1 DEF MayStep
  <2>. QED  BY <2>1, <2>2, <2>3, <2>4, <2>5, <2>6, Operators
<1>2. step \in [Formulas -> [[Formulas -> BOOLEAN] -> BOOLEAN]]
  BY <1>1, PartsOfFormulas
<1>3. ASSUME NEW e \in Formulas, NEW g \in [Formulas -> BOOLEAN], NEW h \in [Formulas -> BOOLEAN],
             \A k \in DOMAIN e.args : g[e.args[k]] = h[e.args[k]]
      PROVE  step[e][g] = step[e][h]
  <2>1. MayStep(e, letter, g) = MayStep(e, letter, h)
    <3>1. CASE e.op \in {"true", "next", "weak_next", "eventually"}
      BY <3>1 DEF MayStep
    <3>2. CASE e.op = "false"
      BY <3>2 DEF MayStep
    <3>3. CASE e.op = "atom"
      BY <3>3 DEF MayStep
    <3>4. CASE e.op = "and"
      BY <1>3, <3>4 DEF MayStep
    <3>5. CASE e.op \in {"or", "until"}
      BY <1>3, <3>5 DEF MayStep
    <3>6. CASE e.op = "not"
      BY <1>3, <3>6, Operators, PartsOfFormulas DEF MayStep
    <3>7. CASE e.op \in {"release", "always"}
      <4>1. Len(e.args) \in DOMAIN e.args
        BY <3>7, Operators
      <4>2. g[e.args[Len(e.args)]] = h[e.args[Len(e.args)]]
        BY <1>3, <4>1
      <4>. QED  BY <3>7, <4>2 DEF MayStep
    <3>. QED  BY <3>1, <3>2, <3>3, <3>4, <3>5, <3>6, <3>7, Operators
  <2>. QED  BY <2>1
<1>4. IsSolved(Formulas, BOOLEAN, step)
  <2>. HIDE DEF step
  <2>. QED  BY <1>2, <1>3, FormulaRecursion
<1>5. PICK F \in [Formulas -> BOOLEAN] : \A g \in Formulas : F[g] = step[g][F]
  BY <1>4 DEF IsSolved
<1>6. Solution(F)
  BY <1>5
<1>. DEFINE H == CHOOSE h : Solution(h)
<1>7. Solution(H)
  <2>. HIDE DEF Solution
  <2>. QED  BY <1>6
<1>8. \A g \in Formulas : may_hold(g, letter) = H[g]
  BY DEF may_hold, MayStep
<1>. HIDE DEF H
<1>9. \A g \in Formulas : H[g] = MayStep(g, letter, H)
  BY <1>7
<1>. HIDE DEF Solution
<1>10. \A g \in Formulas : H[g] \in BOOLEAN
  <2>. DEFINE T == {g \in Formulas : H[g] \in BOOLEAN}
  <2>1. \A g \in Formulas : (\A k \in DOMAIN g.args : g.args[k] \in T) => g \in T
    BY <1>1, <1>9
  <2>. HIDE DEF T
  <2>2. Formulas \subseteq T
    BY <2>1, FormulaInduction
  <2>. QED  BY <2>2 DEF T
<1>11. may_hold(f, letter) = MayStep(f, letter, H)
  BY <1>8, <1>9
<1>12. \A k \in DOMAIN f.args : /\ H[f.args[k]] = may_hold(f.args[k], letter)
                                 /\ H[f.args[k]] \in BOOLEAN
  BY <1>8, <1>10, PartsOfFormulas
<1>13. may_hold(f, letter) \in BOOLEAN
  BY <1>8, <1>10
<1>14. ASSUME f.op \in {"true", "next", "weak_next", "eventually"} PROVE may_hold(f, letter)
  BY <1>11, <1>14 DEF MayStep
<1>15. ASSUME f.op = "false" PROVE ~may_hold(f, letter)
  BY <1>11, <1>15 DEF MayStep
<1>16. ASSUME f.op = "atom" PROVE may_hold(f, letter) <=> f.name \in letter
  BY <1>11, <1>16 DEF MayStep
<1>17. ASSUME f.op = "not"
       PROVE  may_hold(f, letter) <=> ~may_hold(f.args[1], letter)
  <2>1. H[f.args[1]] = may_hold(f.args[1], letter)
    BY <1>12, <1>17, Operators, PartsOfFormulas
  <2>. QED  BY <1>11, <1>17, <2>1 DEF MayStep
<1>18. ASSUME f.op = "and"
       PROVE  may_hold(f, letter)
                <=> \A k \in DOMAIN f.args : may_hold(f.args[k], letter)
  BY <1>11, <1>12, <1>18 DEF MayStep
<1>19. ASSUME f.op \in {"or", "until"}
       PROVE  may_hold(f, letter)
                <=> \E k \in DOMAIN f.args : may_hold(f.args[k], letter)
  BY <1>11, <1>12, <1>19 DEF MayStep
<1>20. ASSUME f.op \in {"release", "always"}
       PROVE  may_hold(f, letter) <=> may_hold(f.args[Len(f.args)], letter)
  <2>1. H[f.args[Len(f.args)]] = may_hold(f.args[Len(f.args)], letter)
    BY <1>12, <1>20, Operators, PartsOfFormulas
  <2>. QED  BY <1>11, <1>20, <2>1 DEF MayStep
<1>. QED  BY <1>13, <1>14, <1>15, <1>16, <1>17, <1>18, <1>19, <1>20 DEF StartsAsParts

NamesIn(formulas_) == {f.name : f \in formulas_}

AtomStep(g, h) ==
    IF g.op = "atom" THEN {g.name} ELSE UNION {h[g.args[k]] : k \in DOMAIN g.args}

\* The names of a formula are those of its parts.
LEMMA AtomsOfFormulas ==
    ASSUME NEW f \in Formulas
    PROVE  /\ Atoms(f) \subseteq NamesIn(Formulas)
           /\ f.op = "atom" => Atoms(f) = {f.name}
           /\ f.op # "atom" => Atoms(f) = UNION {Atoms(f.args[k]) : k \in DOMAIN f.args}
<1>. DEFINE V == SUBSET NamesIn(Formulas)
            step == [g \in Formulas |-> [h \in [Formulas -> V] |-> AtomStep(g, h)]]
            Solution(h) == h = [g \in Formulas |-> AtomStep(g, h)]
<1>1. ASSUME NEW g \in Formulas, NEW h, \A k \in DOMAIN g.args : h[g.args[k]] \in V
      PROVE  AtomStep(g, h) \in V
  <2>1. CASE g.op = "atom"
    BY <1>1, <2>1, Operators, PartsOfFormulas DEF AtomStep, NamesIn
  <2>2. CASE g.op # "atom"
    <3>1. AtomStep(g, h) = UNION {h[g.args[k]] : k \in DOMAIN g.args}
      BY <2>2 DEF AtomStep
    <3>2. \A k \in DOMAIN g.args : h[g.args[k]] \subseteq NamesIn(Formulas)
      BY <1>1
    <3>. QED  BY <3>1, <3>2
  <2>. QED  BY <2>1, <2>2, Operators
<1>2. step \in [Formulas -> [[Formulas -> V] -> V]]
  BY <1>1, PartsOfFormulas
<1>3. ASSUME NEW g \in Formulas, NEW h \in [Formulas -> V], NEW i \in [Formulas -> V],
             \A k \in DOMAIN g.args : h[g.args[k]] = i[g.args[k]]
      PROVE  step[g][h] = step[g][i]
  <2>1. AtomStep(g, h) = AtomStep(g, i)
    <3>1. CASE g.op = "atom"
      BY <1>3, <3>1 DEF AtomStep
    <3>2. CASE g.op # "atom"
      <4>1. /\ AtomStep(g, h) = UNION {h[g.args[k]] : k \in DOMAIN g.args}
            /\ AtomStep(g, i) = UNION {i[g.args[k]] : k \in DOMAIN g.args}
        BY <3>2 DEF AtomStep
      <4>2. {h[g.args[k]] : k \in DOMAIN g.args} = {i[g.args[k]] : k \in DOMAIN g.args}
        BY <1>3
      <4>. QED  BY <4>1, <4>2
    <3>. QED  BY <3>1, <3>2, Operators
  <2>. QED  BY <2>1
<1>4. IsSolved(Formulas, V, step)
  <2>1. V # {}
    OBVIOUS
  <2>. HIDE DEF step, V
  <2>. QED  BY <1>2, <1>3, <2>1, FormulaRecursion
<1>5. PICK F \in [Formulas -> V] : \A g \in Formulas : F[g] = step[g][F]
  BY <1>4 DEF IsSolved
<1>6. Solution(F)
  BY <1>5
<1>. DEFINE H == CHOOSE h : Solution(h)
<1>7. Solution(H)
  <2>. HIDE DEF Solution
  <2>. QED  BY <1>6
<1>8. \A g \in Formulas : Atoms(g) = H[g]
  BY DEF Atoms, AtomStep
<1>. HIDE DEF H
<1>9. \A g \in Formulas : H[g] = AtomStep(g, H)
  BY <1>7
<1>. HIDE DEF Solution
<1>10. \A g \in Formulas : H[g] \in V
  <2>. DEFINE T == {g \in Formulas : H[g] \in V}
  <2>1. \A g \in Formulas : (\A k \in DOMAIN g.args : g.args[k] \in T) => g \in T
    BY <1>1, <1>9
  <2>. HIDE DEF T
  <2>2. Formulas \subseteq T
    BY <2>1, FormulaInduction
  <2>. QED  BY <2>2 DEF T
<1>11. Atoms(f) = AtomStep(f, H)
  BY <1>8, <1>9
<1>12. \A k \in DOMAIN f.args : H[f.args[k]] = Atoms(f.args[k])
  BY <1>8, PartsOfFormulas
<1>13. Atoms(f) \subseteq NamesIn(Formulas)
  BY <1>8, <1>10
<1>14. ASSUME f.op = "atom" PROVE Atoms(f) = {f.name}
  BY <1>11, <1>12, <1>14, Operators, PartsOfFormulas DEF AtomStep
<1>15. ASSUME f.op # "atom" PROVE Atoms(f) = UNION {Atoms(f.args[k]) : k \in DOMAIN f.args}
  <2>1. Atoms(f) = UNION {H[f.args[k]] : k \in DOMAIN f.args}
    BY <1>11, <1>15 DEF AtomStep
  <2>2. {H[f.args[k]] : k \in DOMAIN f.args} = {Atoms(f.args[k]) : k \in DOMAIN f.args}
    BY <1>12
  <2>. QED  BY <2>1, <2>2
<1>. QED  BY <1>13, <1>14, <1>15

VisitStep(g, h) ==
    CASE g.op = "atom" -> {g.name}
      [] g.op \in {"next", "weak_next"} -> {}
      [] g.op \in {"until", "release"} -> h[g.args[Len(g.args)]]
      [] OTHER -> UNION {h[g.args[k]] : k \in DOMAIN g.args}

\* The names that a visit of the preprocessing meets, part by part.
LEMMA VisitedInFormulas ==
    ASSUME NEW f \in Formulas
    PROVE  /\ visited(f) \subseteq NamesIn(Formulas)
           /\ f.op = "atom" => visited(f) = {f.name}
           /\ f.op \in {"next", "weak_next"} => visited(f) = {}
           /\ f.op \in {"until", "release"} => visited(f) = visited(f.args[Len(f.args)])
           /\ f.op \in {"true", "false", "not", "and", "or", "eventually", "always"}
                   => visited(f) = UNION {visited(f.args[k]) : k \in DOMAIN f.args}
<1>. DEFINE V == SUBSET NamesIn(Formulas)
            step == [g \in Formulas |-> [h \in [Formulas -> V] |-> VisitStep(g, h)]]
            Solution(h) == h = [g \in Formulas |-> VisitStep(g, h)]
<1>1. ASSUME NEW g \in Formulas, NEW h, \A k \in DOMAIN g.args : h[g.args[k]] \in V
      PROVE  VisitStep(g, h) \in V
  <2>1. CASE g.op = "atom"
    BY <1>1, <2>1, Operators, PartsOfFormulas DEF VisitStep, NamesIn
  <2>2. CASE g.op \in {"next", "weak_next"}
    BY <1>1, <2>2, Operators, PartsOfFormulas DEF VisitStep, NamesIn
  <2>3. CASE g.op \in {"until", "release"}
    <3>1. VisitStep(g, h) = h[g.args[Len(g.args)]]
      BY <2>3 DEF VisitStep
    <3>2. Len(g.args) \in DOMAIN g.args
      BY <2>3, Operators, PartsOfFormulas
    <3>. QED  BY <1>1, <3>1, <3>2
  <2>4. CASE g.op \in {"true", "false", "not", "and", "or", "eventually", "always"}
    <3>1. VisitStep(g, h) = UNION {h[g.args[k]] : k \in DOMAIN g.args}
      BY <2>4 DEF VisitStep
    <3>2. \A k \in DOMAIN g.args : h[g.args[k]] \subseteq NamesIn(Formulas)
      BY <1>1
    <3>. QED  BY <3>1, <3>2
  <2>. QED  BY <2>1, <2>2, <2>3, <2>4, Operators
<1>2. step \in [Formulas -> [[Formulas -> V] -> V]]
  BY <1>1, PartsOfFormulas
<1>3. ASSUME NEW g \in Formulas, NEW h \in [Formulas -> V], NEW i \in [Formulas -> V],
             \A k \in DOMAIN g.args : h[g.args[k]] = i[g.args[k]]
      PROVE  step[g][h] = step[g][i]
  <2>1. VisitStep(g, h) = VisitStep(g, i)
    <3>1. CASE g.op = "atom"
      BY <1>3, <3>1 DEF VisitStep
    <3>2. CASE g.op \in {"next", "weak_next"}
      BY <1>3, <3>2 DEF VisitStep
    <3>3. CASE g.op \in {"until", "release"}
      <4>1. VisitStep(g, h) = h[g.args[Len(g.args)]] /\ VisitStep(g, i) = i[g.args[Len(g.args)]]
        BY <3>3 DEF VisitStep
      <4>2. Len(g.args) \in DOMAIN g.args
        BY <3>3, Operators, PartsOfFormulas
      <4>. QED  BY <1>3, <4>1, <4>2
    <3>4. CASE g.op \in {"true", "false", "not", "and", "or", "eventually", "always"}
      <4>1. /\ VisitStep(g, h) = UNION {h[g.args[k]] : k \in DOMAIN g.args}
            /\ VisitStep(g, i) = UNION {i[g.args[k]] : k \in DOMAIN g.args}
        BY <3>4 DEF VisitStep
      <4>2. {h[g.args[k]] : k \in DOMAIN g.args} = {i[g.args[k]] : k \in DOMAIN g.args}
        BY <1>3
      <4>. QED  BY <4>1, <4>2
    <3>. QED  BY <3>1, <3>2, <3>3, <3>4, Operators
  <2>. QED  BY <2>1
<1>4. IsSolved(Formulas, V, step)
  <2>1. V # {}
    OBVIOUS
  <2>. HIDE DEF step, V
  <2>. QED  BY <1>2, <1>3, <2>1, FormulaRecursion
<1>5. PICK F \in [Formulas -> V] : \A g \in Formulas : F[g] = step[g][F]
  BY <1>4 DEF IsSolved
<1>6. Solution(F)
  BY <1>5
<1>. DEFINE H == CHOOSE h : Solution(h)
<1>7. Solution(H)
  <2>. HIDE DEF Solution
  <2>. QED  BY <1>6
<1>8. \A g \in Formulas : visited(g) = H[g]
  BY DEF visited, VisitStep
<1>. HIDE DEF H
<1>9. \A g \in Formulas : H[g] = VisitStep(g, H)
  BY <1>7
<1>. HIDE DEF Solution
<1>10. \A g \in Formulas : H[g] \in V
  <2>. DEFINE T == {g \in Formulas : H[g] \in V}
  <2>1. \A g \in Formulas : (\A k \in DOMAIN g.args : g.args[k] \in T) => g \in T
    BY <1>1, <1>9
  <2>. HIDE DEF T
  <2>2. Formulas \subseteq T
    BY <2>1, FormulaInduction
  <2>. QED  BY <2>2 DEF T
<1>11. visited(f) = VisitStep(f, H)
  BY <1>8, <1>9
<1>12. \A k \in DOMAIN f.args : H[f.args[k]] = visited(f.args[k])
  BY <1>8, PartsOfFormulas
<1>13. visited(f) \subseteq NamesIn(Formulas)
  BY <1>8, <1>10
<1>14. ASSUME f.op = "atom" PROVE visited(f) = {f.name}
  BY <1>11, <1>12, <1>14, Operators, PartsOfFormulas DEF VisitStep
<1>15. ASSUME f.op \in {"next", "weak_next"} PROVE visited(f) = {}
  BY <1>11, <1>12, <1>15, Operators, PartsOfFormulas DEF VisitStep
<1>16. ASSUME f.op \in {"until", "release"} PROVE visited(f) = visited(f.args[Len(f.args)])
  BY <1>11, <1>12, <1>16, Operators, PartsOfFormulas DEF VisitStep
<1>17. ASSUME f.op \in {"true", "false", "not", "and", "or", "eventually", "always"}
        PROVE visited(f) = UNION {visited(f.args[k]) : k \in DOMAIN f.args}
  <2>1. visited(f) = UNION {H[f.args[k]] : k \in DOMAIN f.args}
    BY <1>11, <1>17 DEF VisitStep
  <2>2. {H[f.args[k]] : k \in DOMAIN f.args} = {visited(f.args[k]) : k \in DOMAIN f.args}
    BY <1>12
  <2>. QED  BY <2>1, <2>2
<1>. QED  BY <1>13, <1>14, <1>15, <1>16, <1>17

HoldAt(g, word, h, j) ==
    LET Arg(k, l) == h[g.args[k]][l]
        Later == j .. Len(word)
    IN  CASE g.op = "true" -> TRUE
          [] g.op = "false" -> FALSE
          [] g.op = "atom" -> g.name \in word[j]
          [] g.op = "not" -> ~Arg(1, j)
          [] g.op = "and" -> Arg(1, j) /\ Arg(2, j)
          [] g.op = "or" -> Arg(1, j) \/ Arg(2, j)
          [] g.op = "next" -> j < Len(word) /\ Arg(1, j + 1)
          [] g.op = "weak_next" -> j = Len(word) \/ Arg(1, j + 1)
          [] g.op = "until" -> \E l \in Later : Arg(2, l) /\ \A k \in j .. l - 1 : Arg(1, k)
          [] g.op = "release" -> \A l \in Later : Arg(2, l) \/ \E k \in j .. l - 1 : Arg(1, k)
          [] g.op = "eventually" -> \E l \in Later : Arg(1, l)
          [] OTHER -> \A l \in Later : Arg(1, l)

HoldsAsParts(f, word, j) ==
    /\ Holds(f, word, j) \in BOOLEAN
    /\ f.op = "true" => Holds(f, word, j)
    /\ f.op = "false" => ~Holds(f, word, j)
    /\ f.op = "atom" => (Holds(f, word, j) <=> f.name \in word[j])
    /\ f.op = "not" => (Holds(f, word, j) <=> ~Holds(f.args[1], word, j))
    /\ f.op = "and" => (Holds(f, word, j) <=> Holds(f.args[1], word, j) /\ Holds(f.args[2], word, j))
    /\ f.op = "or" => (Holds(f, word, j) <=> Holds(f.args[1], word, j) \/ Holds(f.args[2], word, j))
    /\ f.op = "next" => (Holds(f, word, j) <=> j < Len(word) /\ Holds(f.args[1], word, j + 1))
    /\ f.op = "weak_next" => (Holds(f, word, j) <=> j = Len(word) \/ Holds(f.args[1], word, j + 1))
    /\ f.op = "until" => (Holds(f, word, j)
            <=> \E l \in j .. Len(word) : Holds(f.args[2], word, l)
                    /\ \A k \in j .. l - 1 : Holds(f.args[1], word, k))
    /\ f.op = "release" => (Holds(f, word, j)
            <=> \A l \in j .. Len(word) : Holds(f.args[2], word, l)
                    \/ \E k \in j .. l - 1 : Holds(f.args[1], word, k))
    /\ f.op = "eventually" => (Holds(f, word, j)
            <=> \E l \in j .. Len(word) : Holds(f.args[1], word, l))
    /\ f.op = "always" => (Holds(f, word, j) <=> \A l \in j .. Len(word) : Holds(f.args[1], word, l))

\* What a formula says of a word, part by part.
LEMMA HoldsOfFormulas ==
    ASSUME NEW f \in Formulas, NEW word, Len(word) \in Nat, NEW j \in 1 .. Len(word)
    PROVE  HoldsAsParts(f, word, j)
<1>. DEFINE positions == 1 .. Len(word)
            V == [positions -> BOOLEAN]
            step == [g \in Formulas |-> [h \in [Formulas -> V] |->
                        [i \in positions |-> HoldAt(g, word, h, i)]]]
            Solution(h) == h = [g \in Formulas |-> [i \in positions |-> HoldAt(g, word, h, i)]]
<1>1. ASSUME NEW g \in Formulas, NEW h, NEW i \in positions PROVE HoldAt(g, word, h, i) \in BOOLEAN
  <2>1. CASE g.op = "true"
    BY <2>1 DEF HoldAt
  <2>2. CASE g.op = "false"
    BY <2>2 DEF HoldAt
  <2>3. CASE g.op = "atom"
    BY <2>3 DEF HoldAt
  <2>4. CASE g.op = "not"
    BY <2>4 DEF HoldAt
  <2>5. CASE g.op = "and"
    BY <2>5 DEF HoldAt
  <2>6. CASE g.op = "or"
    BY <2>6 DEF HoldAt
  <2>7. CASE g.op = "next"
    BY <2>7 DEF HoldAt
  <2>8. CASE g.op = "weak_next"
    BY <2>8 DEF HoldAt
  <2>9. CASE g.op = "until"
    BY <2>9 DEF HoldAt
  <2>10. CASE g.op = "release"
    BY <2>10 DEF HoldAt
  <2>11. CASE g.op = "eventually"
    BY <2>11 DEF HoldAt
  <2>12. CASE g.op = "always"
    BY <2>12 DEF HoldAt
  <2>. QED  BY <2>1, <2>2, <2>3, <2>4, <2>5, <2>6, <2>7, <2>8, <2>9, <2>10, <2>11, <2>12, Operators
<1>2. step \in [Formulas -> [[Formulas -> V] -> V]]
  BY <1>1
<1>3. ASSUME NEW g \in Formulas, NEW h1 \in [Formulas -> V], NEW h2 \in [Formulas -> V],
             \A k \in DOMAIN g.args : h1[g.args[k]] = h2[g.args[k]]
      PROVE  step[g][h1] = step[g][h2]
  <2>1. ASSUME NEW i \in positions PROVE HoldAt(g, word, h1, i) = HoldAt(g, word, h2, i)
    <3>1. CASE g.op = "true"
      BY <3>1 DEF HoldAt
    <3>2. CASE g.op = "false"
      BY <3>2 DEF HoldAt
    <3>3. CASE g.op = "atom"
      BY <3>3 DEF HoldAt
    <3>4. CASE g.op = "not"
      <4>1. h1[g.args[1]] = h2[g.args[1]]
        BY <1>3, <3>4, Operators, PartsOfFormulas
      <4>. QED  BY <3>4, <4>1 DEF HoldAt
    <3>5. CASE g.op = "and"
      <4>1. h1[g.args[1]] = h2[g.args[1]] /\ h1[g.args[2]] = h2[g.args[2]]
        BY <1>3, <3>5, Operators, PartsOfFormulas
      <4>. QED  BY <3>5, <4>1 DEF HoldAt
    <3>6. CASE g.op = "or"
      <4>1. h1[g.args[1]] = h2[g.args[1]] /\ h1[g.args[2]] = h2[g.args[2]]
        BY <1>3, <3>6, Operators, PartsOfFormulas
      <4>. QED  BY <3>6, <4>1 DEF HoldAt
    <3>7. CASE g.op = "next"
      <4>1. h1[g.args[1]] = h2[g.args[1]]
        BY <1>3, <3>7, Operators, PartsOfFormulas
      <4>. QED  BY <3>7, <4>1 DEF HoldAt
    <3>8. CASE g.op = "weak_next"
      <4>1. h1[g.args[1]] = h2[g.args[1]]
        BY <1>3, <3>8, Operators, PartsOfFormulas
      <4>. QED  BY <3>8, <4>1 DEF HoldAt
    <3>9. CASE g.op = "until"
      <4>1. h1[g.args[1]] = h2[g.args[1]] /\ h1[g.args[2]] = h2[g.args[2]]
        BY <1>3, <3>9, Operators, PartsOfFormulas
      <4>. QED  BY <3>9, <4>1 DEF HoldAt
    <3>10. CASE g.op = "release"
      <4>1. h1[g.args[1]] = h2[g.args[1]] /\ h1[g.args[2]] = h2[g.args[2]]
        BY <1>3, <3>10, Operators, PartsOfFormulas
      <4>. QED  BY <3>10, <4>1 DEF HoldAt
    <3>11. CASE g.op = "eventually"
      <4>1. h1[g.args[1]] = h2[g.args[1]]
        BY <1>3, <3>11, Operators, PartsOfFormulas
      <4>. QED  BY <3>11, <4>1 DEF HoldAt
    <3>12. CASE g.op = "always"
      <4>1. h1[g.args[1]] = h2[g.args[1]]
        BY <1>3, <3>12, Operators, PartsOfFormulas
      <4>. QED  BY <3>12, <4>1 DEF HoldAt
    <3>. QED  BY <3>1, <3>2, <3>3, <3>4, <3>5, <3>6, <3>7, <3>8, <3>9, <3>10, <3>11, <3>12, Operators
  <2>. QED  BY <2>1
<1>4. IsSolved(Formulas, V, step)
  <2>1. V # {}
    <3>1. [i \in positions |-> TRUE] \in V
      OBVIOUS
    <3>. QED  BY <3>1
  <2>. HIDE DEF step, V
  <2>. QED  BY <1>2, <1>3, <2>1, FormulaRecursion
<1>5. PICK F \in [Formulas -> V] : \A g \in Formulas : F[g] = step[g][F]
  BY <1>4 DEF IsSolved
<1>6. Solution(F)
  BY <1>5
<1>. DEFINE H == CHOOSE h : Solution(h)
<1>7. Solution(H)
  <2>. HIDE DEF Solution
  <2>. QED  BY <1>6
<1>8. \A g \in Formulas, i \in positions : Holds(g, word, i) = H[g][i]
  BY DEF Holds, HoldAt
<1>. HIDE DEF H
<1>9. \A g \in Formulas, i \in positions : H[g][i] = HoldAt(g, word, H, i)
  <2>1. \A g \in Formulas : H[g] = [i \in positions |-> HoldAt(g, word, H, i)]
    BY <1>7, Zenon
  <2>. HIDE DEF positions
  <2>. QED  BY <2>1
<1>. HIDE DEF Solution
<1>10. \A g \in Formulas, i \in positions : H[g][i] \in BOOLEAN
  BY <1>1, <1>9
<1>11. Holds(f, word, j) = HoldAt(f, word, H, j)
  BY <1>8, <1>9
<1>12. \A k \in DOMAIN f.args, i \in positions :
            H[f.args[k]][i] = Holds(f.args[k], word, i) /\ H[f.args[k]][i] \in BOOLEAN
  BY <1>8, <1>10, PartsOfFormulas
<1>13. Holds(f, word, j) \in BOOLEAN
  BY <1>8, <1>10
<1>14. ASSUME f.op = "true" PROVE Holds(f, word, j) <=> TRUE
  BY <1>11, <1>14 DEF HoldAt
<1>15. ASSUME f.op = "false" PROVE Holds(f, word, j) <=> FALSE
  BY <1>11, <1>15 DEF HoldAt
<1>16. ASSUME f.op = "atom" PROVE Holds(f, word, j) <=> f.name \in word[j]
  BY <1>11, <1>16 DEF HoldAt
<1>17. ASSUME f.op = "not" PROVE Holds(f, word, j) <=> ~Holds(f.args[1], word, j)
  <2>1. Holds(f, word, j) <=> ~H[f.args[1]][j]
    BY <1>11, <1>17 DEF HoldAt
  <2>2. 1 \in DOMAIN f.args
    BY <1>17, Operators, PartsOfFormulas
  <2>. QED  BY <1>12, <2>1, <2>2
<1>18. ASSUME f.op = "and"
        PROVE Holds(f, word, j) <=> Holds(f.args[1], word, j) /\ Holds(f.args[2], word, j)
  <2>1. Holds(f, word, j) <=> H[f.args[1]][j] /\ H[f.args[2]][j]
    BY <1>11, <1>18 DEF HoldAt
  <2>2. 1 \in DOMAIN f.args /\ 2 \in DOMAIN f.args
    BY <1>18, Operators, PartsOfFormulas
  <2>. QED  BY <1>12, <2>1, <2>2
<1>19. ASSUME f.op = "or"
        PROVE Holds(f, word, j) <=> Holds(f.args[1], word, j) \/ Holds(f.args[2], word, j)
  <2>1. Holds(f, word, j) <=> H[f.args[1]][j] \/ H[f.args[2]][j]
    BY <1>11, <1>19 DEF HoldAt
  <2>2. 1 \in DOMAIN f.args /\ 2 \in DOMAIN f.args
    BY <1>19, Operators, PartsOfFormulas
  <2>. QED  BY <1>12, <2>1, <2>2
<1>20. ASSUME f.op = "next" PROVE Holds(f, word, j) <=> j < Len(word) /\ Holds(f.args[1], word, j + 1)
  <2>1. Holds(f, word, j) <=> j < Len(word) /\ H[f.args[1]][j + 1]
    BY <1>11, <1>20 DEF HoldAt
  <2>2. 1 \in DOMAIN f.args
    BY <1>20, Operators, PartsOfFormulas
  <2>. QED  BY <1>12, <2>1, <2>2
<1>21. ASSUME f.op = "weak_next"
        PROVE Holds(f, word, j) <=> j = Len(word) \/ Holds(f.args[1], word, j + 1)
  <2>1. Holds(f, word, j) <=> j = Len(word) \/ H[f.args[1]][j + 1]
    BY <1>11, <1>21 DEF HoldAt
  <2>2. 1 \in DOMAIN f.args
    BY <1>21, Operators, PartsOfFormulas
  <2>. QED  BY <1>12, <2>1, <2>2
<1>22. ASSUME f.op = "until"
       PROVE Holds(f, word, j) <=> \E l \in j .. Len(word) : Holds(f.args[2], word, l)
               /\ \A k \in j .. l - 1 : Holds(f.args[1], word, k)
  <2>1. Holds(f, word, j)
          <=> \E l \in j .. Len(word) : H[f.args[2]][l] /\ \A k \in j .. l - 1 : H[f.args[1]][k]
    BY <1>11, <1>22 DEF HoldAt
  <2>2. 1 \in DOMAIN f.args /\ 2 \in DOMAIN f.args
    BY <1>22, Operators, PartsOfFormulas
  <2>. QED  BY <1>12, <2>1, <2>2
<1>23. ASSUME f.op = "release"
       PROVE Holds(f, word, j) <=> \A l \in j .. Len(word) : Holds(f.args[2], word, l)
               \/ \E k \in j .. l - 1 : Holds(f.args[1], word, k)
  <2>1. Holds(f, word, j)
          <=> \A l \in j .. Len(word) : H[f.args[2]][l] \/ \E k \in j .. l - 1 : H[f.args[1]][k]
    BY <1>11, <1>23 DEF HoldAt
  <2>2. 1 \in DOMAIN f.args /\ 2 \in DOMAIN f.args
    BY <1>23, Operators, PartsOfFormulas
  <2>. QED  BY <1>12, <2>1, <2>2
<1>24. ASSUME f.op = "eventually"
        PROVE Holds(f, word, j) <=> \E l \in j .. Len(word) : Holds(f.args[1], word, l)
  <2>1. Holds(f, word, j) <=> \E l \in j .. Len(word) : H[f.args[1]][l]
    BY <1>11, <1>24 DEF HoldAt
  <2>2. 1 \in DOMAIN f.args
    BY <1>24, Operators, PartsOfFormulas
  <2>. QED  BY <1>12, <2>1, <2>2
<1>25. ASSUME f.op = "always"
        PROVE Holds(f, word, j) <=> \A l \in j .. Len(word) : Holds(f.args[1], word, l)
  <2>1. Holds(f, word, j) <=> \A l \in j .. Len(word) : H[f.args[1]][l]
    BY <1>11, <1>25 DEF HoldAt
  <2>2. 1 \in DOMAIN f.args
    BY <1>25, Operators, PartsOfFormulas
  <2>. QED  BY <1>12, <2>1, <2>2
<1>. QED  BY <1>13, <1>14, <1>15, <1>16, <1>17, <1>18, <1>19, <1>20, <1>21, <1>22, <1>23, <1>24,
        <1>25 DEF HoldsAsParts

NormalFormAt(g, h, negated) ==
    CASE g.op = "atom" -> IF negated THEN Not(g) ELSE g
      [] g.op = "not" -> h[g.args[1]][~negated]
      [] OTHER -> [op |-> IF negated THEN Dual[g.op] ELSE g.op,
                   args |-> [k \in DOMAIN g.args |-> h[g.args[k]][negated]]]

NormalFormStep(g, h) == [negated \in BOOLEAN |-> NormalFormAt(g, h, negated)]

\* What is computed from a formula is computed from its parts.
LEMMA NormalFormLooksDown ==
    ASSUME NEW f \in Formulas, NEW g, NEW h, \A k \in DOMAIN f.args : g[f.args[k]] = h[f.args[k]]
    PROVE  NormalFormStep(f, g) = NormalFormStep(f, h)
<1>1. ASSUME NEW negated \in BOOLEAN PROVE NormalFormAt(f, g, negated) = NormalFormAt(f, h, negated)
  <2>1. CASE f.op = "atom"
    BY <2>1 DEF NormalFormAt
  <2>2. CASE f.op = "not"
    <3>1. g[f.args[1]] = h[f.args[1]]
      BY <2>2, Operators, PartsOfFormulas
    <3>. QED  BY <2>2, <3>1 DEF NormalFormAt
  <2>3. CASE f.op \notin {"atom", "not"}
    <3>1. [k \in DOMAIN f.args |-> g[f.args[k]][negated]] =
            [k \in DOMAIN f.args |-> h[f.args[k]][negated]]
      OBVIOUS
    <3>. QED  BY <2>3, <3>1 DEF NormalFormAt
  <2>. QED  BY <2>1, <2>2, <2>3
<1>. QED  BY <1>1 DEF NormalFormStep

\* The recursion that brings a formula to its normal form has a solution.
LEMMA NormalFormExists == \E h : h = [g \in Formulas |-> NormalFormStep(g, h)]
<1>. DEFINE Solves(n, g) ==
                /\ g = [f \in Formulas |-> g[f]]
                /\ \A f \in Formulas : Height(f) < n => g[f] = NormalFormStep(f, g)
<1>0. \A f \in Formulas : Height(f) \in Nat
  BY PartsOfFormulas
<1>1. \A n \in Nat : \E g : Solves(n, g)
  <2>. DEFINE T == {n \in Nat : ~\E g : Solves(n, g)}
  <2>. SUFFICES ASSUME T # {} PROVE FALSE
    OBVIOUS
  <2>1. PICK n \in T : \A m \in T : n <= m
    <3>1. T \in SUBSET Nat
      OBVIOUS
    <3>. HIDE DEF T
    <3>. QED  BY <3>1, LeastNumber
  <2>2. n # 0
    <3>1. Solves(0, [f \in Formulas |-> TRUE])
      <4>1. \A f \in Formulas : ~(Height(f) < 0)
        BY <1>0
      <4>. QED  BY <4>1
    <3>. QED  BY <3>1
  <2>3. n \in Nat /\ n - 1 \in Nat /\ n - 1 \notin T
    <3>1. n \in Nat
      OBVIOUS
    <3>2. n - 1 \in Nat /\ ~(n <= n - 1)
      BY <2>2, <3>1
    <3>. HIDE DEF T
    <3>. QED  BY <2>1, <3>1, <3>2
  <2>4. PICK g : Solves(n - 1, g)
    BY <2>3
  <2>. DEFINE h == [f \in Formulas |-> NormalFormStep(f, g)]
  <2>5. ASSUME NEW f \in Formulas, Height(f) < n PROVE h[f] = NormalFormStep(f, h)
    <3>1. \A k \in DOMAIN f.args : f.args[k] \in Formulas /\ Height(f.args[k]) < n - 1
      BY <1>0, <2>3, <2>5, PartsOfFormulas
    <3>2. \A k \in DOMAIN f.args : g[f.args[k]] = h[f.args[k]]
      BY <2>4, <3>1
    <3>3. h[f] = NormalFormStep(f, g)
      OBVIOUS
    <3>. HIDE DEF h
    <3>. QED  BY <3>2, <3>3, NormalFormLooksDown
  <2>6. Solves(n, h)
    <3>1. h = [f \in Formulas |-> h[f]]
      OBVIOUS
    <3>. HIDE DEF h
    <3>. QED  BY <2>5, <3>1
  <2>. QED  BY <2>1, <2>6
<1>2. ASSUME NEW n \in Nat, NEW m \in Nat, NEW g, NEW h, Solves(n, g), Solves(m, h)
      PROVE  \A f \in Formulas : Height(f) < n /\ Height(f) < m => g[f] = h[f]
  <2>. DEFINE T == {f \in Formulas : Height(f) < n /\ Height(f) < m => g[f] = h[f]}
  <2>1. ASSUME NEW f \in Formulas, \A k \in DOMAIN f.args : f.args[k] \in T PROVE f \in T
    <3>. SUFFICES ASSUME Height(f) < n, Height(f) < m PROVE g[f] = h[f]
      OBVIOUS
    <3>1. \A k \in DOMAIN f.args :
            f.args[k] \in Formulas /\ Height(f.args[k]) < n /\ Height(f.args[k]) < m
      BY <1>0, PartsOfFormulas
    <3>2. \A k \in DOMAIN f.args : g[f.args[k]] = h[f.args[k]]
      BY <2>1, <3>1
    <3>3. NormalFormStep(f, g) = NormalFormStep(f, h)
      BY <3>2, NormalFormLooksDown
    <3>. QED  BY <1>2, <3>3
  <2>. HIDE DEF T
  <2>2. Formulas \subseteq T
    BY <2>1, FormulaInduction
  <2>. QED  BY <2>2 DEF T
<1>. DEFINE G(f) == CHOOSE g : Solves(Height(f) + 1, g)
            F == [f \in Formulas |-> G(f)[f]]
<1>3. \A f \in Formulas : Height(f) + 1 \in Nat /\ Solves(Height(f) + 1, G(f))
  <2>1. \A f \in Formulas : Height(f) + 1 \in Nat
    BY <1>0
  <2>2. \A f \in Formulas : \E g : Solves(Height(f) + 1, g)
    BY <1>1, <2>1
  <2>. HIDE DEF Solves
  <2>. QED  BY <2>1, <2>2
<1>. HIDE DEF G
<1>4. ASSUME NEW f \in Formulas PROVE F[f] = NormalFormStep(f, F)
  <2>1. ASSUME NEW k \in DOMAIN f.args PROVE G(f)[f.args[k]] = F[f.args[k]]
    <3>. DEFINE e == f.args[k]
    <3>1. e \in Formulas /\ Height(e) < Height(e) + 1 /\ Height(e) < Height(f) + 1
      BY <1>0, PartsOfFormulas
    <3>2. F[e] = G(e)[e]
      BY <3>1
    <3>. HIDE DEF e, Solves, F
    <3>3. G(f)[e] = G(e)[e]
      BY <1>2, <1>3, <3>1
    <3>. QED  BY <3>2, <3>3 DEF e
  <2>2. Height(f) < Height(f) + 1
    BY <1>0
  <2>3. G(f)[f] = NormalFormStep(f, G(f))
    BY <1>3, <2>2
  <2>4. F[f] = G(f)[f]
    OBVIOUS
  <2>. HIDE DEF F
  <2>5. NormalFormStep(f, G(f)) = NormalFormStep(f, F)
    BY <2>1, NormalFormLooksDown
  <2>. QED  BY <2>3, <2>4, <2>5
<1>5. F = [f \in Formulas |-> F[f]]
  OBVIOUS
<1>. HIDE DEF F
<1>6. F = [f \in Formulas |-> NormalFormStep(f, F)]
  BY <1>4, <1>5
<1>. QED  BY <1>6

\* The normal form of a formula is made of the normal forms of its parts.
LEMMA NormalForms ==
    ASSUME NEW f \in Formulas, NEW negated \in BOOLEAN
    PROVE  /\ to_nnf(f, negated) \in Formulas
           /\ f.op = "atom" => to_nnf(f, negated) = IF negated THEN Not(f) ELSE f
           /\ f.op = "not" => to_nnf(f, negated) = to_nnf(f.args[1], ~negated)
           /\ f.op \notin {"atom", "not"} =>
                to_nnf(f, negated) =
                    [op |-> IF negated THEN Dual[f.op] ELSE f.op,
                     args |-> [k \in DOMAIN f.args |-> to_nnf(f.args[k], negated)]]
<1>. DEFINE Solution(h) == h = [g \in Formulas |-> NormalFormStep(g, h)]
            H == CHOOSE h : Solution(h)
<1>1. Solution(H)
  <2>1. \E h : Solution(h)
    BY NormalFormExists
  <2>. HIDE DEF Solution
  <2>. QED  BY <2>1
<1>2. \A g \in Formulas, n \in BOOLEAN : to_nnf(g, n) = H[g][n]
  BY DEF to_nnf, NormalFormStep, NormalFormAt
<1>. HIDE DEF H
<1>3. H[f] = NormalFormStep(f, H)
  BY <1>1
<1>. HIDE DEF Solution
<1>4. to_nnf(f, negated) = NormalFormAt(f, H, negated)
  BY <1>2, <1>3 DEF NormalFormStep
<1>5. \A k \in DOMAIN f.args, n \in BOOLEAN : H[f.args[k]][n] = to_nnf(f.args[k], n)
  BY <1>2, PartsOfFormulas
<1>6. ASSUME f.op = "atom" PROVE to_nnf(f, negated) = IF negated THEN Not(f) ELSE f
  BY <1>4, <1>6 DEF NormalFormAt
<1>7. ASSUME f.op = "not" PROVE to_nnf(f, negated) = to_nnf(f.args[1], ~negated)
  <2>1. H[f.args[1]][~negated] = to_nnf(f.args[1], ~negated)
    <3>1. 1 \in DOMAIN f.args
      BY <1>7, Operators, PartsOfFormulas
    <3>2. (~negated) \in BOOLEAN
      OBVIOUS
    <3>. QED  BY <1>5, <3>1, <3>2, Zenon
  <2>. QED  BY <1>4, <1>7, <2>1 DEF NormalFormAt
<1>8. ASSUME f.op \notin {"atom", "not"}
      PROVE  to_nnf(f, negated) =
                [op |-> IF negated THEN Dual[f.op] ELSE f.op,
                 args |-> [k \in DOMAIN f.args |-> to_nnf(f.args[k], negated)]]
  <2>1. [k \in DOMAIN f.args |-> H[f.args[k]][negated]]
            = [k \in DOMAIN f.args |-> to_nnf(f.args[k], negated)]
    BY <1>5
  <2>. QED  BY <1>4, <1>8, <2>1 DEF NormalFormAt
<1>. QED  BY <1>6, <1>7, <1>8, NormalFormsAssumption

WordsOver(inputs, outputs) == Seq(SUBSET (inputs \cup outputs))

WinsAt(f, inputs, outputs, agent_first, wins, m, word) ==
    LET Good(x, y) ==
            \/ Holds(f, Append(word, x \cup y), 1)
            \/ wins[m - 1][Append(word, x \cup y)]
    IN  /\ m > 0
        /\ IF agent_first
           THEN \E y \in SUBSET outputs : \A x \in SUBSET inputs : Good(x, y)
           ELSE \A x \in SUBSET inputs : \E y \in SUBSET outputs : Good(x, y)

Plays(f, inputs, outputs, agent_first, n, wins) ==
    \A m \in 0 .. n, word \in WordsOver(inputs, outputs) :
        wins[m][word] = WinsAt(f, inputs, outputs, agent_first, wins, m, word)

\* The recursion that plays the game has a solution.
LEMMA GamePlayed ==
    ASSUME NEW f, NEW inputs, NEW outputs, NEW agent_first, NEW n \in Nat
    PROVE  \E wins :
              /\ AgentWins(f, inputs, outputs, agent_first, n) = wins[n][<<>>]
              /\ Plays(f, inputs, outputs, agent_first, n, wins)
<1>. DEFINE D == 0 .. n
            Words == WordsOver(inputs, outputs)
            V == [Words -> BOOLEAN]
            At(h, m, word) == WinsAt(f, inputs, outputs, agent_first, h, m, word)
            rank == [m \in D |-> m]
            step == [m \in D |-> [h \in [D -> V] |-> [word \in Words |-> At(h, m, word)]]]
            Solution(h) == h = [m \in D |-> [word \in Words |-> At(h, m, word)]]
<1>1. ASSUME NEW m, NEW word, NEW h PROVE At(h, m, word) \in BOOLEAN
  BY DEF WinsAt
<1>2. step \in [D -> [[D -> V] -> V]]
  BY <1>1
<1>3. ASSUME NEW m \in D, NEW g \in [D -> V], NEW h \in [D -> V],
             \A k \in D : rank[k] < rank[m] => g[k] = h[k]
      PROVE  step[m][g] = step[m][h]
  <2>1. ASSUME NEW word \in Words PROVE At(g, m, word) = At(h, m, word)
    <3>1. CASE m > 0
      <4>1. g[m - 1] = h[m - 1]
        BY <1>3, <3>1
      <4>. QED  BY <4>1 DEF WinsAt
    <3>2. CASE ~(m > 0)
      BY <3>2 DEF WinsAt
    <3>. QED  BY <3>1, <3>2
  <2>. QED  BY <2>1
<1>4. IsSolved(D, V, step)
  <2>1. V # {}
    <3>1. [word \in Words |-> TRUE] \in V
      OBVIOUS
    <3>. QED  BY <3>1
  <2>2. rank \in [D -> Nat]
    OBVIOUS
  <2>. HIDE DEF step, V, rank, D
  <2>3. LooksDown(D, rank, V, step)
    BY <1>2, <1>3 DEF LooksDown
  <2>. QED  BY <2>1, <2>2, <2>3, RecursiveFunction
<1>5. PICK F \in [D -> V] : \A m \in D : F[m] = step[m][F]
  BY <1>4 DEF IsSolved
<1>6. Solution(F)
  BY <1>5
<1>. DEFINE H == CHOOSE h : Solution(h)
<1>7. Solution(H)
  <2>. HIDE DEF Solution
  <2>. QED  BY <1>6
<1>8. AgentWins(f, inputs, outputs, agent_first, n) = H[n][<<>>]
  BY DEF AgentWins, WinsAt, WordsOver
<1>. HIDE DEF H
<1>9. \A m \in D, word \in Words : H[m][word] = At(H, m, word)
  <2>1. \A m \in D : H[m] = [word \in Words |-> At(H, m, word)]
    BY <1>7, Zenon
  <2>. HIDE DEF D, Words
  <2>. QED  BY <2>1
<1>10. Plays(f, inputs, outputs, agent_first, n, H)
  BY <1>9 DEF Plays
<1>. QED  BY <1>8, <1>10

\* The visitor of the one-step realizability finds what the formula means on a word of
\* one letter.
LEMMA EndIsMeaning ==
    ASSUME NEW f \in Formulas, NEW letter
    PROVE  holds_at_the_end(f, letter) <=> Holds(f, <<letter>>, 1)
<1>. DEFINE word == <<letter>>
            T == {g \in Formulas : holds_at_the_end(g, letter) <=> Holds(g, word, 1)}
<1>1. Len(word) \in Nat /\ Len(word) = 1 /\ 1 \in 1 .. Len(word) /\ word[1] = letter
  OBVIOUS
<1>. HIDE DEF word
<1>2. ASSUME NEW g \in Formulas, \A k \in DOMAIN g.args : g.args[k] \in T PROVE g \in T
  <2>1. \A k \in DOMAIN g.args : holds_at_the_end(g.args[k], letter) <=> Holds(g.args[k], word, 1)
    BY <1>2
  <2>2. EndsAsParts(g, letter) /\ HoldsAsParts(g, word, 1)
    BY <1>1, EndOfFormulas, HoldsOfFormulas
  <2>3. 1 .. Len(word) = {1} /\ 1 .. 1 - 1 = {}
    BY <1>1
  <2>. SUFFICES holds_at_the_end(g, letter) <=> Holds(g, word, 1)
    OBVIOUS
  <2>4. CASE g.op = "true"
    BY <1>1, <2>1, <2>2, <2>3, <2>4, Operators DEF EndsAsParts, HoldsAsParts
  <2>5. CASE g.op = "false"
    BY <1>1, <2>1, <2>2, <2>3, <2>5, Operators DEF EndsAsParts, HoldsAsParts
  <2>6. CASE g.op = "atom"
    BY <1>1, <2>1, <2>2, <2>3, <2>6, Operators DEF EndsAsParts, HoldsAsParts
  <2>7. CASE g.op = "not"
    BY <1>1, <2>1, <2>2, <2>3, <2>7, Operators DEF EndsAsParts, HoldsAsParts
  <2>8. CASE g.op = "and"
    BY <1>1, <2>1, <2>2, <2>3, <2>8, Operators DEF EndsAsParts, HoldsAsParts
  <2>9. CASE g.op = "or"
    BY <1>1, <2>1, <2>2, <2>3, <2>9, Operators DEF EndsAsParts, HoldsAsParts
  <2>10. CASE g.op = "next"
    BY <1>1, <2>1, <2>2, <2>3, <2>10, Operators DEF EndsAsParts, HoldsAsParts
  <2>11. CASE g.op = "weak_next"
    BY <1>1, <2>1, <2>2, <2>3, <2>11, Operators DEF EndsAsParts, HoldsAsParts
  <2>12. CASE g.op = "until"
    BY <1>1, <2>1, <2>2, <2>3, <2>12, Operators DEF EndsAsParts, HoldsAsParts
  <2>13. CASE g.op = "release"
    BY <1>1, <2>1, <2>2, <2>3, <2>13, Operators DEF EndsAsParts, HoldsAsParts
  <2>14. CASE g.op = "eventually"
    BY <1>1, <2>1, <2>2, <2>3, <2>14, Operators DEF EndsAsParts, HoldsAsParts
  <2>15. CASE g.op = "always"
    BY <1>1, <2>1, <2>2, <2>3, <2>15, Operators DEF EndsAsParts, HoldsAsParts
  <2>. QED  BY <2>4, <2>5, <2>6, <2>7, <2>8, <2>9, <2>10, <2>11, <2>12, <2>13, <2>14, <2>15, Operators
<1>. HIDE DEF T
<1>3. Formulas \subseteq T
  BY <1>2, FormulaInduction
<1>. QED  BY <1>3 DEF T, word

\* What it finds depends on the atoms it comes by only.
LEMMA VisitedDecide ==
    ASSUME NEW f \in Formulas, NEW l1, NEW l2, l1 \cap visited(f) = l2 \cap visited(f)
    PROVE  holds_at_the_end(f, l1) <=> holds_at_the_end(f, l2)
<1>. DEFINE T == {g \in Formulas : l1 \cap visited(g) = l2 \cap visited(g) =>
                                        (holds_at_the_end(g, l1) <=> holds_at_the_end(g, l2))}
<1>1. ASSUME NEW g \in Formulas, \A k \in DOMAIN g.args : g.args[k] \in T PROVE g \in T
  <2>. SUFFICES ASSUME l1 \cap visited(g) = l2 \cap visited(g)
                PROVE  holds_at_the_end(g, l1) <=> holds_at_the_end(g, l2)
    OBVIOUS
  <2>0. EndsAsParts(g, l1) /\ EndsAsParts(g, l2)
    BY EndOfFormulas
  <2>1. ASSUME NEW k \in DOMAIN g.args, visited(g.args[k]) \subseteq visited(g)
        PROVE  holds_at_the_end(g.args[k], l1) <=> holds_at_the_end(g.args[k], l2)
    <3>1. l1 \cap visited(g.args[k]) = l2 \cap visited(g.args[k])
      BY <2>1
    <3>. QED  BY <1>1, <3>1
  <2>2. CASE g.op \in {"true", "false", "next", "weak_next"}
    BY <2>0, <2>2 DEF EndsAsParts
  <2>3. CASE g.op = "atom"
    <3>1. visited(g) = {g.name}
      BY <2>3, VisitedInFormulas
    <3>2. g.name \in l1 <=> g.name \in l2
      BY <3>1
    <3>. QED  BY <2>0, <2>3, <3>2 DEF EndsAsParts
  <2>4. CASE g.op \in {"not", "and", "or", "eventually", "always"}
    <3>1. \A k \in DOMAIN g.args : visited(g.args[k]) \subseteq visited(g)
      BY <2>4, VisitedInFormulas
    <3>2. \A k \in DOMAIN g.args : holds_at_the_end(g.args[k], l1) <=> holds_at_the_end(g.args[k], l2)
      BY <2>1, <3>1
    <3>3. CASE g.op = "not"
      <4>1. 1 \in DOMAIN g.args
        BY <3>3, Operators, PartsOfFormulas
      <4>. QED  BY <2>0, <3>2, <3>3, <4>1 DEF EndsAsParts
    <3>4. CASE g.op \in {"eventually", "always"}
      <4>1. Len(g.args) \in DOMAIN g.args
        BY <3>4, Operators, PartsOfFormulas
      <4>. QED  BY <2>0, <3>2, <3>4, <4>1 DEF EndsAsParts
    <3>5. CASE g.op = "and"
      BY <2>0, <3>2, <3>5 DEF EndsAsParts
    <3>6. CASE g.op = "or"
      BY <2>0, <3>2, <3>6 DEF EndsAsParts
    <3>. QED  BY <2>4, <3>3, <3>4, <3>5, <3>6
  <2>5. CASE g.op \in {"until", "release"}
    <3>1. Len(g.args) \in DOMAIN g.args
      BY <2>5, Operators, PartsOfFormulas
    <3>2. visited(g.args[Len(g.args)]) = visited(g)
      BY <2>5, VisitedInFormulas
    <3>. QED  BY <2>0, <2>1, <2>5, <3>1, <3>2 DEF EndsAsParts
  <2>. QED  BY <2>2, <2>3, <2>4, <2>5, Operators
<1>. HIDE DEF T
<1>2. Formulas \subseteq T
  BY <1>1, FormulaInduction
<1>. QED  BY <1>2 DEF T

\* A visit meets names of the formula only.
LEMMA VisitedAreAtoms == ASSUME NEW f \in Formulas PROVE visited(f) \subseteq Atoms(f)
<1>. DEFINE T == {g \in Formulas : visited(g) \subseteq Atoms(g)}
<1>1. ASSUME NEW g \in Formulas, \A k \in DOMAIN g.args : g.args[k] \in T PROVE g \in T
  <2>. SUFFICES visited(g) \subseteq Atoms(g)
    OBVIOUS
  <2>1. CASE g.op = "atom"
    BY <2>1, VisitedInFormulas, AtomsOfFormulas
  <2>2. CASE g.op \in {"next", "weak_next"}
    BY <2>2, VisitedInFormulas
  <2>3. CASE g.op \in {"until", "release"}
    <3>1. Len(g.args) \in DOMAIN g.args
      BY <2>3, Operators, PartsOfFormulas
    <3>2. Atoms(g) = UNION {Atoms(g.args[k]) : k \in DOMAIN g.args}
      BY <2>3, AtomsOfFormulas
    <3>. QED  BY <1>1, <2>3, <3>1, <3>2, VisitedInFormulas
  <2>4. CASE g.op \in {"true", "false", "not", "and", "or", "eventually", "always"}
    <3>1. visited(g) = UNION {visited(g.args[k]) : k \in DOMAIN g.args}
      BY <2>4, VisitedInFormulas
    <3>2. Atoms(g) = UNION {Atoms(g.args[k]) : k \in DOMAIN g.args}
      BY <2>4, AtomsOfFormulas
    <3>. QED  BY <1>1, <3>1, <3>2
  <2>. QED  BY <2>1, <2>2, <2>3, <2>4, Operators
<1>. HIDE DEF T
<1>2. Formulas \subseteq T
  BY <1>1, FormulaInduction
<1>. QED  BY <1>2 DEF T

\* The normal form of a formula that is not an atom and not a negation.
DualParts(f, g, negated) ==
    /\ g.op = IF negated THEN Dual[f.op] ELSE f.op
    /\ DOMAIN g.args = DOMAIN f.args
    /\ Len(g.args) = Len(f.args)
    /\ \A k \in DOMAIN f.args : g.args[k] = to_nnf(f.args[k], negated)

\* The normal form of a formula agrees with it if the normal forms of its parts do.
LEMMA NormalFormParts ==
    ASSUME NEW f \in Formulas, f.op \notin {"atom", "not"}, NEW negated \in BOOLEAN
    PROVE  DualParts(f, to_nnf(f, negated), negated)
<1>. DEFINE args_ == [k \in DOMAIN f.args |-> to_nnf(f.args[k], negated)]
            g == [op |-> IF negated THEN Dual[f.op] ELSE f.op, args |-> args_]
<1>1. to_nnf(f, negated) = g
  BY NormalForms
<1>2. f.args \in Seq(Formulas)
  BY PartsOfFormulas
<1>3. DOMAIN f.args = 1 .. Len(f.args) /\ Len(f.args) \in Nat
  BY <1>2
<1>4. DOMAIN args_ = 1 .. Len(f.args) /\ Len(args_) = Len(f.args)
  BY <1>3
<1>5. g.args = args_ /\ g.op = IF negated THEN Dual[f.op] ELSE f.op
  OBVIOUS
<1>6. \A k \in DOMAIN f.args : args_[k] = to_nnf(f.args[k], negated)
  OBVIOUS
<1>. HIDE DEF g, args_
<1>. QED  BY <1>1, <1>3, <1>4, <1>5, <1>6 DEF DualParts

\* If a formula, or its negation, is true at a position of a word, then the visitor of the
\* one-step unrealizability does not rule the letter there out.
LEMMA MayHoldIsNecessary ==
    ASSUME NEW f \in Formulas, NEW word, Len(word) \in Nat, NEW i \in 1 .. Len(word),
           NEW negated \in BOOLEAN, Holds(f, word, i) # negated
    PROVE  may_hold(to_nnf(f, negated), word[i])
<1>. DEFINE May(g, n) == may_hold(to_nnf(g, n), word[i])
            T == {g \in Formulas : \A n \in BOOLEAN : Holds(g, word, i) # n => May(g, n)}
<1>1. ASSUME NEW g \in Formulas, \A k \in DOMAIN g.args : g.args[k] \in T PROVE g \in T
  <2>. SUFFICES ASSUME NEW n \in BOOLEAN, Holds(g, word, i) # n PROVE May(g, n)
    OBVIOUS
  <2>1. \A k \in DOMAIN g.args, m \in BOOLEAN : Holds(g.args[k], word, i) # m => May(g.args[k], m)
    BY <1>1
  <2>2. HoldsAsParts(g, word, i) /\ \A k \in DOMAIN g.args : HoldsAsParts(g.args[k], word, i)
    BY HoldsOfFormulas, PartsOfFormulas
  <2>3. i \in i .. Len(word) /\ i .. i - 1 = {}
    OBVIOUS
  <2>. DEFINE h == to_nnf(g, n)
  <2>4. h \in Formulas /\ StartsAsParts(h, word[i])
    BY NormalForms, StartOfFormulas
  <2>5. CASE g.op = "atom"
    <3>1. Holds(g, word, i) <=> g.name \in word[i]
      BY <2>2, <2>5 DEF HoldsAsParts
    <3>2. StartsAsParts(g, word[i])
      BY StartOfFormulas
    <3>3. CASE ~n
      <4>1. h = g
        BY <2>5, <3>3, NormalForms
      <4>2. Holds(g, word, i)
        BY <2>2, <3>3 DEF HoldsAsParts
      <4>. QED  BY <2>5, <3>1, <3>2, <4>1, <4>2 DEF StartsAsParts
    <3>4. CASE n
      <4>1. h = Not(g)
        BY <2>5, <3>4, NormalForms
      <4>2. h.op = "not" /\ h.args[1] = g
        BY <4>1 DEF Not
      <4>3. ~Holds(g, word, i)
        BY <2>2, <3>4 DEF HoldsAsParts
      <4>. QED  BY <2>4, <2>5, <3>1, <3>2, <4>2, <4>3 DEF StartsAsParts
    <3>. QED  BY <3>3, <3>4
  <2>6. CASE g.op = "not"
    <3>1. 1 \in DOMAIN g.args
      BY <2>6, Operators
    <3>2. h = to_nnf(g.args[1], ~n)
      BY <2>6, NormalForms
    <3>3. Holds(g, word, i) <=> ~Holds(g.args[1], word, i)
      BY <2>2, <2>6 DEF HoldsAsParts
    <3>4. Holds(g, word, i) \in BOOLEAN /\ Holds(g.args[1], word, i) \in BOOLEAN
      BY <2>2, <3>1 DEF HoldsAsParts
    <3>5. Holds(g.args[1], word, i) # ~n /\ (~n) \in BOOLEAN
      BY <3>3, <3>4
    <3>6. May(g.args[1], ~n)
      <4>. HIDE DEF May
      <4>. QED  BY <2>1, <3>1, <3>5, Zenon
    <3>. QED  BY <3>2, <3>6
  <2>7. CASE g.op \notin {"atom", "not"}
    <3>1. DualParts(g, h, n)
      BY <2>7, NormalFormParts
    <3>2. Dual["true"] = "false" /\ Dual["false"] = "true" /\ Dual["and"] = "or" /\ Dual["or"] = "and"
          /\ Dual["next"] = "weak_next" /\ Dual["weak_next"] = "next"
          /\ Dual["until"] = "release" /\ Dual["release"] = "until"
          /\ Dual["eventually"] = "always" /\ Dual["always"] = "eventually"
      BY DEF Dual
    <3>3. \A k \in DOMAIN g.args : Holds(g.args[k], word, i) # n => may_hold(h.args[k], word[i])
      BY <2>1, <3>1 DEF DualParts
    <3>4. /\ Holds(g, word, i) \in BOOLEAN
          /\ \A k \in DOMAIN g.args : Holds(g.args[k], word, i) \in BOOLEAN
      BY <2>2 DEF HoldsAsParts
    <3>5. Holds(g, word, i) <=> ~n
      BY <3>4
    <3>6. \A k \in DOMAIN g.args : (Holds(g.args[k], word, i) <=> ~n) => may_hold(h.args[k], word[i])
      BY <3>3, <3>4
    <3>. SUFFICES may_hold(h, word[i])
      OBVIOUS
    <3>. HIDE DEF h
    <3>7. CASE g.op = "true"
      <4>1. h.op = IF n THEN "false" ELSE "true"
        BY <3>1, <3>2, <3>7 DEF DualParts
      <4>2. DOMAIN h.args = {} /\ DOMAIN g.args = {}
        BY <3>1, <3>7, Operators DEF DualParts
      <4>3. Holds(g, word, i)
        BY <2>2, <2>3, <3>7 DEF HoldsAsParts
      <4>4. n => (~may_hold(h, word[i]))
        BY <2>4, <4>1, <4>2 DEF StartsAsParts
      <4>5. ~n => (may_hold(h, word[i]))
        BY <2>4, <4>1, <4>2 DEF StartsAsParts
      <4>. QED  BY <3>5, <3>6, <4>1, <4>2, <4>3, <4>4, <4>5
    <3>8. CASE g.op = "false"
      <4>1. h.op = IF n THEN "true" ELSE "false"
        BY <3>1, <3>2, <3>8 DEF DualParts
      <4>2. DOMAIN h.args = {} /\ DOMAIN g.args = {}
        BY <3>1, <3>8, Operators DEF DualParts
      <4>3. ~Holds(g, word, i)
        BY <2>2, <2>3, <3>8 DEF HoldsAsParts
      <4>4. n => (may_hold(h, word[i]))
        BY <2>4, <4>1, <4>2 DEF StartsAsParts
      <4>5. ~n => (~may_hold(h, word[i]))
        BY <2>4, <4>1, <4>2 DEF StartsAsParts
      <4>. QED  BY <3>5, <3>6, <4>1, <4>2, <4>3, <4>4, <4>5
    <3>9. CASE g.op = "and"
      <4>1. h.op = IF n THEN "or" ELSE "and"
        BY <3>1, <3>2, <3>9 DEF DualParts
      <4>2. Len(h.args) = 2 /\ DOMAIN h.args = {1, 2} /\ DOMAIN g.args = {1, 2}
        BY <3>1, <3>9, Operators DEF DualParts
      <4>3. Holds(g, word, i) <=> Holds(g.args[1], word, i) /\ Holds(g.args[2], word, i)
        BY <2>2, <2>3, <3>9 DEF HoldsAsParts
      <4>4. n => (may_hold(h.args[1], word[i]) \/ may_hold(h.args[2], word[i]) => may_hold(h, word[i]))
        BY <2>4, <4>1, <4>2 DEF StartsAsParts
      <4>5. ~n => (may_hold(h.args[1], word[i]) /\ may_hold(h.args[2], word[i]) => may_hold(h, word[i]))
        BY <2>4, <4>1, <4>2 DEF StartsAsParts
      <4>. QED  BY <3>5, <3>6, <4>1, <4>2, <4>3, <4>4, <4>5
    <3>10. CASE g.op = "or"
      <4>1. h.op = IF n THEN "and" ELSE "or"
        BY <3>1, <3>2, <3>10 DEF DualParts
      <4>2. Len(h.args) = 2 /\ DOMAIN h.args = {1, 2} /\ DOMAIN g.args = {1, 2}
        BY <3>1, <3>10, Operators DEF DualParts
      <4>3. Holds(g, word, i) <=> Holds(g.args[1], word, i) \/ Holds(g.args[2], word, i)
        BY <2>2, <2>3, <3>10 DEF HoldsAsParts
      <4>4. n => (may_hold(h.args[1], word[i]) /\ may_hold(h.args[2], word[i]) => may_hold(h, word[i]))
        BY <2>4, <4>1, <4>2 DEF StartsAsParts
      <4>5. ~n => (may_hold(h.args[1], word[i]) \/ may_hold(h.args[2], word[i]) => may_hold(h, word[i]))
        BY <2>4, <4>1, <4>2 DEF StartsAsParts
      <4>. QED  BY <3>5, <3>6, <4>1, <4>2, <4>3, <4>4, <4>5
    <3>11. CASE g.op = "next"
      <4>1. h.op = IF n THEN "weak_next" ELSE "next"
        BY <3>1, <3>2, <3>11 DEF DualParts
      <4>2. Len(h.args) = 1 /\ DOMAIN h.args = {1} /\ DOMAIN g.args = {1}
        BY <3>1, <3>11, Operators DEF DualParts
      <4>4. n => (may_hold(h, word[i]))
        BY <2>4, <4>1, <4>2 DEF StartsAsParts
      <4>5. ~n => (may_hold(h, word[i]))
        BY <2>4, <4>1, <4>2 DEF StartsAsParts
      <4>. QED  BY <3>5, <3>6, <4>1, <4>2, <4>4, <4>5
    <3>12. CASE g.op = "weak_next"
      <4>1. h.op = IF n THEN "next" ELSE "weak_next"
        BY <3>1, <3>2, <3>12 DEF DualParts
      <4>2. Len(h.args) = 1 /\ DOMAIN h.args = {1} /\ DOMAIN g.args = {1}
        BY <3>1, <3>12, Operators DEF DualParts
      <4>4. n => (may_hold(h, word[i]))
        BY <2>4, <4>1, <4>2 DEF StartsAsParts
      <4>5. ~n => (may_hold(h, word[i]))
        BY <2>4, <4>1, <4>2 DEF StartsAsParts
      <4>. QED  BY <3>5, <3>6, <4>1, <4>2, <4>4, <4>5
    <3>13. CASE g.op = "until"
      <4>1. h.op = IF n THEN "release" ELSE "until"
        BY <3>1, <3>2, <3>13 DEF DualParts
      <4>2. Len(h.args) = 2 /\ DOMAIN h.args = {1, 2} /\ DOMAIN g.args = {1, 2}
        BY <3>1, <3>13, Operators DEF DualParts
      <4>3. /\ ~Holds(g, word, i) => ~Holds(g.args[2], word, i)
            /\ (Holds(g, word, i) => Holds(g.args[1], word, i) \/ Holds(g.args[2], word, i))
        <5>1. Holds(g, word, i)
                <=> \E l \in i .. Len(word) :
                        Holds(g.args[2], word, l) /\ \A k \in i .. l - 1 : Holds(g.args[1], word, k)
          BY <2>2, <3>13 DEF HoldsAsParts
        <5>2. \A l \in i .. Len(word) : l = i \/ i \in i .. l - 1
          OBVIOUS
        <5>. QED  BY <2>3, <5>1, <5>2
      <4>4. n => (may_hold(h.args[2], word[i]) => may_hold(h, word[i]))
        BY <2>4, <4>1, <4>2 DEF StartsAsParts
      <4>5. ~n => (may_hold(h.args[1], word[i]) \/ may_hold(h.args[2], word[i]) => may_hold(h, word[i]))
        BY <2>4, <4>1, <4>2 DEF StartsAsParts
      <4>. QED  BY <3>5, <3>6, <4>1, <4>2, <4>3, <4>4, <4>5
    <3>14. CASE g.op = "release"
      <4>1. h.op = IF n THEN "until" ELSE "release"
        BY <3>1, <3>2, <3>14 DEF DualParts
      <4>2. Len(h.args) = 2 /\ DOMAIN h.args = {1, 2} /\ DOMAIN g.args = {1, 2}
        BY <3>1, <3>14, Operators DEF DualParts
      <4>3. /\ Holds(g, word, i) => Holds(g.args[2], word, i)
            /\ (~Holds(g, word, i) => ~Holds(g.args[1], word, i) \/ ~Holds(g.args[2], word, i))
        <5>1. Holds(g, word, i)
                <=> \A l \in i .. Len(word) :
                        Holds(g.args[2], word, l) \/ \E k \in i .. l - 1 : Holds(g.args[1], word, k)
          BY <2>2, <3>14 DEF HoldsAsParts
        <5>2. \A l \in i .. Len(word) : l = i \/ i \in i .. l - 1
          OBVIOUS
        <5>. QED  BY <2>3, <5>1, <5>2
      <4>4. n => (may_hold(h.args[1], word[i]) \/ may_hold(h.args[2], word[i]) => may_hold(h, word[i]))
        BY <2>4, <4>1, <4>2 DEF StartsAsParts
      <4>5. ~n => (may_hold(h.args[2], word[i]) => may_hold(h, word[i]))
        BY <2>4, <4>1, <4>2 DEF StartsAsParts
      <4>. QED  BY <3>5, <3>6, <4>1, <4>2, <4>3, <4>4, <4>5
    <3>15. CASE g.op = "eventually"
      <4>1. h.op = IF n THEN "always" ELSE "eventually"
        BY <3>1, <3>2, <3>15 DEF DualParts
      <4>2. Len(h.args) = 1 /\ DOMAIN h.args = {1} /\ DOMAIN g.args = {1}
        BY <3>1, <3>15, Operators DEF DualParts
      <4>3. ~Holds(g, word, i) => ~Holds(g.args[1], word, i)
        BY <2>2, <2>3, <3>15 DEF HoldsAsParts
      <4>4. n => (may_hold(h.args[1], word[i]) => may_hold(h, word[i]))
        BY <2>4, <4>1, <4>2 DEF StartsAsParts
      <4>5. ~n => (may_hold(h, word[i]))
        BY <2>4, <4>1, <4>2 DEF StartsAsParts
      <4>. QED  BY <3>5, <3>6, <4>1, <4>2, <4>3, <4>4, <4>5
    <3>16. CASE g.op = "always"
      <4>1. h.op = IF n THEN "eventually" ELSE "always"
        BY <3>1, <3>2, <3>16 DEF DualParts
      <4>2. Len(h.args) = 1 /\ DOMAIN h.args = {1} /\ DOMAIN g.args = {1}
        BY <3>1, <3>16, Operators DEF DualParts
      <4>3. Holds(g, word, i) => Holds(g.args[1], word, i)
        BY <2>2, <2>3, <3>16 DEF HoldsAsParts
      <4>4. n => (may_hold(h, word[i]))
        BY <2>4, <4>1, <4>2 DEF StartsAsParts
      <4>5. ~n => (may_hold(h.args[1], word[i]) => may_hold(h, word[i]))
        BY <2>4, <4>1, <4>2 DEF StartsAsParts
      <4>. QED  BY <3>5, <3>6, <4>1, <4>2, <4>3, <4>4, <4>5
    <3>. QED  BY <2>7, <3>7, <3>8, <3>9, <3>10, <3>11, <3>12, <3>13, <3>14, <3>15, <3>16, Operators
  <2>. QED  BY <2>5, <2>6, <2>7
<1>. HIDE DEF T
<1>2. Formulas \subseteq T
  BY <1>1, FormulaInduction
<1>. QED  BY <1>2 DEF T

IsWin(f, inputs, outputs, letter) ==
    \E word \in WordsOver(inputs, outputs) :
        Len(word) >= 1 /\ word[1] = letter /\ Holds(f, word, 1)

\* Who wins from a word makes the formula true on a longer one.
LEMMA WinsGiveWords ==
    ASSUME NEW f, NEW inputs, NEW outputs, NEW agent_first, NEW n \in Nat, NEW wins,
           Plays(f, inputs, outputs, agent_first, n, wins),
           NEW m \in 0 .. n, NEW word \in WordsOver(inputs, outputs), Len(word) >= 1, wins[m][word]
    PROVE  IsWin(f, inputs, outputs, word[1])
<1>. DEFINE Words == WordsOver(inputs, outputs)
            Fails(k) == \E w \in Words : Len(w) >= 1 /\ wins[k][w] /\ ~IsWin(f, inputs, outputs, w[1])
            T == {k \in 0 .. n : Fails(k)}
<1>. SUFFICES ASSUME T # {} PROVE FALSE
  OBVIOUS
<1>1. PICK k \in T : \A l \in T : k <= l
  <2>1. T \in SUBSET Nat
    OBVIOUS
  <2>. HIDE DEF T
  <2>. QED  BY <2>1, LeastNumber
<1>2. k \in 0 .. n /\ Fails(k)
  OBVIOUS
<1>. HIDE DEF T
<1>3. PICK w \in Words : Len(w) >= 1 /\ wins[k][w] /\ ~IsWin(f, inputs, outputs, w[1])
  BY <1>2
<1>4. WinsAt(f, inputs, outputs, agent_first, wins, k, w)
  BY <1>2, <1>3 DEF Plays
<1>5. k > 0 /\ \E x \in SUBSET inputs, y \in SUBSET outputs :
            Holds(f, Append(w, x \cup y), 1) \/ wins[k - 1][Append(w, x \cup y)]
  <2>1. {} \in SUBSET inputs /\ {} \in SUBSET outputs
    OBVIOUS
  <2>2. CASE agent_first
    BY <1>4, <2>1, <2>2 DEF WinsAt
  <2>3. CASE ~agent_first
    BY <1>4, <2>1, <2>3 DEF WinsAt
  <2>. QED  BY <2>2, <2>3
<1>6. PICK x \in SUBSET inputs, y \in SUBSET outputs :
            Holds(f, Append(w, x \cup y), 1) \/ wins[k - 1][Append(w, x \cup y)]
  BY <1>5
<1>. DEFINE v == Append(w, x \cup y)
<1>7. v \in Words /\ Len(v) >= 1 /\ v[1] = w[1]
  <2>1. x \cup y \in SUBSET (inputs \cup outputs)
    OBVIOUS
  <2>. DEFINE S == SUBSET (inputs \cup outputs)
  <2>2. w \in Seq(S) /\ x \cup y \in S
    BY <2>1 DEF WordsOver
  <2>. HIDE DEF S
  <2>3. v \in Seq(S) /\ Len(v) >= 1 /\ v[1] = w[1]
    BY <1>3, <2>2
  <2>. QED  BY <2>3 DEF S, WordsOver
<1>. HIDE DEF v
<1>8. ~IsWin(f, inputs, outputs, v[1])
  BY <1>3, <1>7
<1>9. ~Holds(f, v, 1)
  BY <1>7, <1>8 DEF IsWin
<1>10. wins[k - 1][v]
  BY <1>6, <1>9 DEF v
<1>11. k - 1 \in 0 .. n /\ ~(k <= k - 1)
  BY <1>2, <1>5
<1>12. Fails(k - 1)
  BY <1>7, <1>8, <1>10
<1>. HIDE DEF Fails
<1>13. k - 1 \in T
  BY <1>11, <1>12 DEF T
<1>. QED  BY <1>1, <1>11, <1>13

\* What it takes to win: a first letter, picked in the order of the players.
LEMMA FirstLetterOfAWin ==
    ASSUME NEW f, NEW inputs, NEW outputs, NEW agent_first, NEW n \in Nat,
           AgentWins(f, inputs, outputs, agent_first, n)
    PROVE  IF agent_first
           THEN \E y \in SUBSET outputs : \A x \in SUBSET inputs :
                    IsWin(f, inputs, outputs, x \cup y)
           ELSE \A x \in SUBSET inputs : \E y \in SUBSET outputs :
                    IsWin(f, inputs, outputs, x \cup y)
<1>1. PICK wins :
            /\ AgentWins(f, inputs, outputs, agent_first, n) = wins[n][<<>>]
            /\ Plays(f, inputs, outputs, agent_first, n, wins)
  BY GamePlayed
<1>2. <<>> \in WordsOver(inputs, outputs) /\ n \in 0 .. n
  BY DEF WordsOver
<1>3. WinsAt(f, inputs, outputs, agent_first, wins, n, <<>>)
  BY <1>1, <1>2 DEF Plays
<1>4. ASSUME NEW x \in SUBSET inputs, NEW y \in SUBSET outputs, n > 0,
             Holds(f, Append(<<>>, x \cup y), 1) \/ wins[n - 1][Append(<<>>, x \cup y)]
      PROVE  IsWin(f, inputs, outputs, x \cup y)
  <2>. DEFINE v == Append(<<>>, x \cup y)
  <2>1. v \in WordsOver(inputs, outputs) /\ Len(v) >= 1 /\ v[1] = x \cup y
    <3>1. x \cup y \in SUBSET (inputs \cup outputs)
      OBVIOUS
    <3>. DEFINE S == SUBSET (inputs \cup outputs)
    <3>2. x \cup y \in S
      BY <3>1
    <3>. HIDE DEF S
    <3>3. v \in Seq(S) /\ Len(v) >= 1 /\ v[1] = x \cup y
      BY <3>2
    <3>. QED  BY <3>3 DEF S, WordsOver
  <2>. HIDE DEF v
  <2>2. n - 1 \in 0 .. n
    BY <1>4
  <2>3. Holds(f, v, 1) \/ wins[n - 1][v]
    BY <1>4 DEF v
  <2>4. CASE Holds(f, v, 1)
    BY <2>1, <2>4 DEF IsWin
  <2>5. CASE wins[n - 1][v]
    <3>1. IsWin(f, inputs, outputs, v[1])
      BY <1>1, <2>1, <2>2, <2>5, WinsGiveWords
    <3>. QED  BY <2>1, <3>1
  <2>. QED  BY <2>3, <2>4, <2>5
<1>5. CASE agent_first
  BY <1>3, <1>4, <1>5 DEF WinsAt
<1>6. CASE ~agent_first
  BY <1>3, <1>4, <1>6 DEF WinsAt
<1>. QED  BY <1>5, <1>6

\* A first letter that ends the game is a win.
LEMMA WinWithOneLetter ==
    ASSUME NEW f, NEW inputs, NEW outputs, NEW agent_first,
           IF agent_first
           THEN \E y \in SUBSET outputs : \A x \in SUBSET inputs : Holds(f, <<x \cup y>>, 1)
           ELSE \A x \in SUBSET inputs : \E y \in SUBSET outputs : Holds(f, <<x \cup y>>, 1)
    PROVE  AgentWins(f, inputs, outputs, agent_first, 1)
<1>1. PICK wins :
            /\ AgentWins(f, inputs, outputs, agent_first, 1) = wins[1][<<>>]
            /\ Plays(f, inputs, outputs, agent_first, 1, wins)
  BY GamePlayed
<1>2. <<>> \in WordsOver(inputs, outputs) /\ 1 \in 0 .. 1
  BY DEF WordsOver
<1>3. \A letter : Holds(f, <<letter>>, 1) => Holds(f, Append(<<>>, letter), 1)
  OBVIOUS
<1>4. WinsAt(f, inputs, outputs, agent_first, wins, 1, <<>>)
  <2>. DEFINE Good(x, y) == \/ Holds(f, Append(<<>>, x \cup y), 1)
                            \/ wins[1 - 1][Append(<<>>, x \cup y)]
  <2>1. \A x, y : Holds(f, <<x \cup y>>, 1) => Good(x, y)
    BY <1>3
  <2>2. WinsAt(f, inputs, outputs, agent_first, wins, 1, <<>>)
            <=> IF agent_first
                THEN \E y \in SUBSET outputs : \A x \in SUBSET inputs : Good(x, y)
                ELSE \A x \in SUBSET inputs : \E y \in SUBSET outputs : Good(x, y)
    BY DEF WinsAt
  <2>. HIDE DEF Good
  <2>3. CASE agent_first
    BY <2>1, <2>2, <2>3
  <2>4. CASE ~agent_first
    BY <2>1, <2>2, <2>4
  <2>. QED  BY <2>3, <2>4
<1>. QED  BY <1>1, <1>2, <1>4 DEF Plays

\* "Not end" is true where a word has a letter.
LEMMA ParsedFormula ==
    ASSUME NEW f \in Formulas, parse_formula(f) \in Formulas
    PROVE  /\ \A word : Len(word) \in Nat /\ Len(word) >= 1 =>
                    (Holds(parse_formula(f), word, 1) <=> Holds(f, word, 1))
           /\ Atoms(parse_formula(f)) \subseteq Atoms(f)
<1>. DEFINE F == parse_formula(f)
            E == Eventually(True)
<1>1. F.op = "and" /\ F.args = <<f, E>> /\ E.op = "eventually" /\ E.args = <<True>>
      /\ True.op = "true" /\ True.args = <<>>
  BY DEF parse_formula, And, Eventually, True
<1>. HIDE DEF F, E
<1>2. F \in Formulas
  BY DEF F
<1>3. E \in Formulas /\ DOMAIN F.args = {1, 2} /\ F.args[1] = f /\ F.args[2] = E
  <2>1. DOMAIN F.args = {1, 2}
    BY <1>1, <1>2, Operators
  <2>2. F.args[1] = f /\ F.args[2] = E
    BY <1>1
  <2>. QED  BY <1>2, <2>1, <2>2, PartsOfFormulas
<1>4. True \in Formulas /\ DOMAIN E.args = {1} /\ E.args[1] = True
  <2>1. DOMAIN E.args = {1}
    BY <1>1, <1>3, Operators
  <2>2. E.args[1] = True
    BY <1>1
  <2>. QED  BY <1>3, <2>1, <2>2, PartsOfFormulas
<1>5. ASSUME NEW word, Len(word) \in Nat, Len(word) >= 1
      PROVE  Holds(F, word, 1) <=> Holds(f, word, 1)
  <2>1. 1 \in 1 .. Len(word)
    BY <1>5
  <2>2. HoldsAsParts(F, word, 1) /\ HoldsAsParts(E, word, 1) /\ HoldsAsParts(True, word, 1)
    BY <1>2, <1>3, <1>4, <1>5, <2>1, HoldsOfFormulas
  <2>3. Holds(True, word, 1)
    BY <1>1, <2>2 DEF HoldsAsParts
  <2>4. Holds(E, word, 1)
    BY <1>1, <1>4, <2>1, <2>2, <2>3 DEF HoldsAsParts
  <2>5. Holds(F, word, 1) <=> Holds(f, word, 1) /\ Holds(E, word, 1)
    BY <1>1, <1>3, <2>2 DEF HoldsAsParts
  <2>. QED  BY <2>4, <2>5
<1>6. Atoms(F) \subseteq Atoms(f)
  <2>1. Atoms(True) = {}
    <3>1. True.op # "atom" /\ DOMAIN True.args = {}
      BY <1>1, <1>4, Operators
    <3>2. Atoms(True) = UNION {Atoms(True.args[k]) : k \in DOMAIN True.args}
      BY <1>4, <3>1, AtomsOfFormulas
    <3>. QED  BY <3>1, <3>2
  <2>2. Atoms(E) = {}
    <3>1. Atoms(E) = UNION {Atoms(E.args[k]) : k \in DOMAIN E.args}
      BY <1>1, <1>3, AtomsOfFormulas
    <3>. QED  BY <1>4, <2>1, <3>1
  <2>3. Atoms(F) = UNION {Atoms(F.args[k]) : k \in DOMAIN F.args}
    BY <1>1, <1>2, AtomsOfFormulas
  <2>. QED  BY <1>3, <2>2, <2>3
<1>. QED  BY <1>5, <1>6 DEF F

\* The moves that are read from a model win whatever else is in the letter.
LEMMA MovesWin ==
    ASSUME NEW f \in Formulas, NEW inputs, NEW outputs, Atoms(f) \subseteq inputs \cup outputs,
           NEW move \in one_step_realizable(f, inputs, outputs),
           NEW letter \in SUBSET (inputs \cup outputs),
           \A y \in DOMAIN move : move[y] <=> y \in letter
    PROVE  Holds(f, <<letter>>, 1)
<1>1. PICK others \in SUBSET (Atoms(f) \ outputs) :
            \A l \in SUBSET outputs :
                (\A y \in DOMAIN move : move[y] <=> y \in l) => quantified(f, inputs, l \cup others)
  BY DEF one_step_realizable
<1>2. DOMAIN move \subseteq (outputs \ inputs) \cap visited(f)
  BY DEF one_step_realizable
<1>. DEFINE own == letter \cap outputs
            chosen == uncontrollableVars(f, inputs)
            seen == ((own \cup others) \ chosen) \cup (letter \cap chosen)
<1>3. own \in SUBSET outputs /\ \A y \in DOMAIN move : move[y] <=> y \in own
  BY <1>2
<1>4. quantified(f, inputs, own \cup others)
  <2>. HIDE DEF own
  <2>. QED  BY <1>1, <1>3
<1>5. letter \cap chosen \in SUBSET chosen
  OBVIOUS
<1>6. holds_at_the_end(f, seen)
  <2>. HIDE DEF own
  <2>. QED  BY <1>4, <1>5 DEF quantified
<1>7. seen \cap visited(f) = letter \cap visited(f)
  <2>1. visited(f) \subseteq inputs \cup outputs
    BY VisitedAreAtoms
  <2>. QED  BY <2>1 DEF uncontrollableVars
<1>8. holds_at_the_end(f, letter)
  <2>. HIDE DEF seen
  <2>1. holds_at_the_end(f, seen) <=> holds_at_the_end(f, letter)
    BY <1>7, VisitedDecide
  <2>. QED  BY <1>6, <2>1
<1>. QED  BY <1>8, EndIsMeaning

\* A move that the preprocessing finds satisfies the formula with one letter, and the agent
\* wins whoever starts.
LEMMA RealizableIsWon ==
    ASSUME NEW f \in Formulas, parse_formula(f) \in Formulas, NEW inputs, NEW outputs, NEW agent_first,
           Atoms(f) \subseteq inputs \cup outputs,
           NEW move \in one_step_realizable(parse_formula(f), inputs, outputs)
    PROVE  /\ \A letter \in SUBSET (inputs \cup outputs) :
                (\A y \in DOMAIN move : move[y] <=> y \in letter) => Holds(f, <<letter>>, 1)
           /\ AgentWins(f, inputs, outputs, agent_first, 1)
<1>1. Atoms(parse_formula(f)) \subseteq inputs \cup outputs
  BY ParsedFormula
<1>2. ASSUME NEW letter \in SUBSET (inputs \cup outputs),
             \A y \in DOMAIN move : move[y] <=> y \in letter
      PROVE  Holds(f, <<letter>>, 1)
  <2>1. Holds(parse_formula(f), <<letter>>, 1)
    BY <1>1, <1>2, MovesWin
  <2>2. Len(<<letter>>) \in Nat /\ Len(<<letter>>) >= 1
    OBVIOUS
  <2>. QED  BY <2>1, <2>2, ParsedFormula
<1>3. DOMAIN move \subseteq outputs \ inputs /\ \A y \in DOMAIN move : move[y] \in BOOLEAN
  BY DEF one_step_realizable
<1>. DEFINE mine == {y \in DOMAIN move : move[y]}
<1>4. mine \in SUBSET outputs
  BY <1>3
<1>5. ASSUME NEW x \in SUBSET inputs PROVE Holds(f, <<x \cup mine>>, 1)
  <2>1. x \cup mine \in SUBSET (inputs \cup outputs)
    BY <1>4
  <2>2. \A y \in DOMAIN move : move[y] <=> y \in x \cup mine
    BY <1>3
  <2>. QED  BY <1>2, <2>1, <2>2
<1>. HIDE DEF mine
<1>6. AgentWins(f, inputs, outputs, agent_first, 1)
  BY <1>4, <1>5, WinWithOneLetter
<1>. QED  BY <1>2, <1>6

\* What the preprocessing finds unrealizable the agent does not win in any number of letters.
LEMMA UnrealizableIsLost ==
    ASSUME NEW f \in Formulas, parse_formula(f) \in Formulas, NEW inputs, NEW outputs, NEW agent_first,
           one_step_unrealizable(parse_formula(f), inputs, outputs,
                                 IF agent_first THEN "Agent" ELSE "Environment"),
           NEW n \in Nat
    PROVE  ~AgentWins(f, inputs, outputs, agent_first, n)
<1>. SUFFICES ASSUME AgentWins(f, inputs, outputs, agent_first, n) PROVE FALSE
  OBVIOUS
<1>. DEFINE nnf == to_nnf(parse_formula(f), FALSE)
            Hopeless(x, y) == ~may_hold(nnf, x \cup y)
<1>1. ASSUME NEW x, NEW y, Hopeless(x, y) PROVE ~IsWin(f, inputs, outputs, x \cup y)
  <2>. SUFFICES ASSUME NEW word \in WordsOver(inputs, outputs), Len(word) >= 1, word[1] = x \cup y,
                       Holds(f, word, 1)
                PROVE  FALSE
    BY DEF IsWin
  <2>1. Len(word) \in Nat /\ 1 \in 1 .. Len(word)
    BY DEF WordsOver
  <2>2. Holds(parse_formula(f), word, 1)
    BY <2>1, ParsedFormula
  <2>3. Holds(parse_formula(f), word, 1) # FALSE
    BY <2>2
  <2>4. may_hold(nnf, word[1])
    BY <2>1, <2>3, MayHoldIsNecessary
  <2>. QED  BY <1>1, <2>4
<1>2. IF ~agent_first
      THEN \E x \in SUBSET inputs : \A y \in SUBSET outputs : Hopeless(x, y)
      ELSE \A y \in SUBSET outputs : \E x \in SUBSET inputs : Hopeless(x, y)
  <2>1. {} \in SUBSET unpartitioned(parse_formula(f), inputs, outputs)
    OBVIOUS
  <2>2. \A x, y : {} \cup x \cup y = x \cup y
    OBVIOUS
  <2>3. CASE agent_first
    BY <2>1, <2>2, <2>3 DEF one_step_unrealizable
  <2>4. CASE ~agent_first
    BY <2>1, <2>2, <2>4 DEF one_step_unrealizable
  <2>. QED  BY <2>3, <2>4
<1>. HIDE DEF Hopeless
<1>3. IF agent_first
      THEN \E y \in SUBSET outputs : \A x \in SUBSET inputs : IsWin(f, inputs, outputs, x \cup y)
      ELSE \A x \in SUBSET inputs : \E y \in SUBSET outputs : IsWin(f, inputs, outputs, x \cup y)
  BY FirstLetterOfAWin
<1>4. CASE agent_first
  BY <1>1, <1>2, <1>3, <1>4
<1>5. CASE ~agent_first
  BY <1>1, <1>2, <1>3, <1>5
<1>. QED  BY <1>4, <1>5

-----------------------------------------------------------------------------
(* The steps of a run *)

Commands == {"synthesis", "maxset", "fairness", "stability", "gr1"}

\* How many steps are left when an automaton has its state variables created.
StatesAt(a_command) ==
    IF a_command = "gr1" THEN {4, 6, 8}
    ELSE IF a_command \in {"fairness", "stability"} THEN {4} ELSE {3}

\* How many automata are left to build when n steps are.
AutomataLeft(a_command, n) ==
    IF a_command = "gr1" THEN IF n >= 8 THEN 3 ELSE IF n >= 6 THEN 2 ELSE IF n >= 4 THEN 1 ELSE 0
    ELSE IF a_command \in {"fairness", "stability"} THEN IF n >= 4 THEN 1 ELSE 0
    ELSE IF n >= 3 THEN 1 ELSE 0

\* What the steps are, by how many are left.
AsCounted(step, a_command, n, all) ==
    /\ step = "inputs" <=> n = all
    /\ step = "outputs" <=> n = all - 1
    /\ step = "preprocessing" <=> (a_command = "synthesis" /\ n = 5)
    /\ step = "names" <=> n - 1 \in StatesAt(a_command)
    /\ step = "states" <=> n \in StatesAt(a_command)
    /\ step = "gr1_file" <=> (a_command = "gr1" /\ n = 3)
    /\ step = "partition" <=> n = IF a_command \in {"fairness", "stability"} THEN 3 ELSE 2
    /\ step = "assumption" <=> (a_command \in {"fairness", "stability"} /\ n = 2)
    /\ step = "solve" <=> n = 1

StepsAsCounted(a_command, n) ==
    AsCounted(steps(a_command)[Len(steps(a_command)) - n + 1], a_command, n,
              Len(steps(a_command)))

Steps == {"inputs", "outputs", "preprocessing", "names", "states", "partition", "assumption",
          "gr1_file", "solve"}

\* Lists of steps, written down.
LEMMA TuplesOfStrings ==
    ASSUME NEW S, NEW a \in S, NEW b \in S, NEW c \in S, NEW d \in S, NEW e \in S
    PROVE  /\ <<a, b, c, d>> \in Seq(S)
           /\ <<a, b, c, d, e>> \in Seq(S)
           /\ \A f, g, h, i \in S : <<a, b, c, d, e, f, g, h, i>> \in Seq(S)
OBVIOUS

\* The steps of every command, counted from the end.
LEMMA StepsOfCommands ==
    ASSUME NEW a_command \in Commands
    PROVE  /\ steps(a_command) \in Seq(Steps)
           /\ Len(steps(a_command)) >= 6
           /\ AutomataLeft(a_command, Len(steps(a_command))) = IF a_command = "gr1" THEN 3 ELSE 1
           /\ \A n \in 1 .. Len(steps(a_command)) : StepsAsCounted(a_command, n)
<1>. DEFINE all == steps(a_command)
<1>1. CASE a_command = "synthesis"
  <2>1. all = <<"inputs", "outputs">>
                \o <<"preprocessing", "names", "states", "partition", "solve">>
    BY <1>1 DEF steps
  <2>2. Len(all) = 7
    BY <2>1
  <2>3.
        /\ all[1] = "inputs" /\ all[2] = "outputs" /\ all[3] = "preprocessing"
        /\ all[4] = "names" /\ all[5] = "states" /\ all[6] = "partition"
        /\ all[7] = "solve"
    BY <2>1
  <2>4. all \in Seq(Steps)
    <3>0. "preprocessing" \in Steps /\ "names" \in Steps /\ "states" \in Steps
            /\ "partition" \in Steps /\ "solve" \in Steps
      BY DEF Steps
    <3>1. <<"preprocessing", "names", "states", "partition", "solve">> \in Seq(Steps)
      BY <3>0, TuplesOfStrings, ZenonT(30)
    <3>4. <<"inputs", "outputs">> \in Seq(Steps)
      BY DEF Steps
    <3>. DEFINE last == <<"preprocessing", "names", "states", "partition", "solve">>
    <3>2. last \in Seq(Steps)
      BY <3>1
    <3>. HIDE DEF last
    <3>3. <<"inputs", "outputs">> \o last \in Seq(Steps)
      BY <3>2, <3>4
    <3>. QED  BY <2>1, <3>3 DEF last
  <2>. HIDE DEF all
  <2>5. ASSUME NEW n \in 1 .. 7 PROVE StepsAsCounted(a_command, n)
    <3>1. CASE n = 1
      <4>1. all[Len(all) - n + 1] = "solve"
        BY <2>2, <2>3, <3>1
      <4>2. AsCounted("solve", a_command, 1, 7)
        BY <1>1 DEF AsCounted, StatesAt
      <4>. QED  BY <2>2, <3>1, <4>1, <4>2 DEF all, StepsAsCounted
    <3>2. CASE n = 2
      <4>1. all[Len(all) - n + 1] = "partition"
        BY <2>2, <2>3, <3>2
      <4>2. AsCounted("partition", a_command, 2, 7)
        BY <1>1 DEF AsCounted, StatesAt
      <4>. QED  BY <2>2, <3>2, <4>1, <4>2 DEF all, StepsAsCounted
    <3>3. CASE n = 3
      <4>1. all[Len(all) - n + 1] = "states"
        BY <2>2, <2>3, <3>3
      <4>2. AsCounted("states", a_command, 3, 7)
        BY <1>1 DEF AsCounted, StatesAt
      <4>. QED  BY <2>2, <3>3, <4>1, <4>2 DEF all, StepsAsCounted
    <3>4. CASE n = 4
      <4>1. all[Len(all) - n + 1] = "names"
        BY <2>2, <2>3, <3>4
      <4>2. AsCounted("names", a_command, 4, 7)
        BY <1>1 DEF AsCounted, StatesAt
      <4>. QED  BY <2>2, <3>4, <4>1, <4>2 DEF all, StepsAsCounted
    <3>5. CASE n = 5
      <4>1. all[Len(all) - n + 1] = "preprocessing"
        BY <2>2, <2>3, <3>5
      <4>2. AsCounted("preprocessing", a_command, 5, 7)
        BY <1>1 DEF AsCounted, StatesAt
      <4>. QED  BY <2>2, <3>5, <4>1, <4>2 DEF all, StepsAsCounted
    <3>6. CASE n = 6
      <4>1. all[Len(all) - n + 1] = "outputs"
        BY <2>2, <2>3, <3>6
      <4>2. AsCounted("outputs", a_command, 6, 7)
        BY <1>1 DEF AsCounted, StatesAt
      <4>. QED  BY <2>2, <3>6, <4>1, <4>2 DEF all, StepsAsCounted
    <3>7. CASE n = 7
      <4>1. all[Len(all) - n + 1] = "inputs"
        BY <2>2, <2>3, <3>7
      <4>2. AsCounted("inputs", a_command, 7, 7)
        BY <1>1 DEF AsCounted, StatesAt
      <4>. QED  BY <2>2, <3>7, <4>1, <4>2 DEF all, StepsAsCounted
    <3>. QED  BY <3>1, <3>2, <3>3, <3>4, <3>5, <3>6, <3>7
  <2>6. AutomataLeft(a_command, 7) = IF a_command = "gr1" THEN 3 ELSE 1
    BY <1>1 DEF AutomataLeft
  <2>7. Len(all) >= 6 /\ AutomataLeft(a_command, Len(all)) = IF a_command = "gr1" THEN 3 ELSE 1
    BY <2>2, <2>6
  <2>8. \A n \in 1 .. Len(all) : StepsAsCounted(a_command, n)
    BY <2>2, <2>5
  <2>. QED  BY <2>4, <2>7, <2>8 DEF all
<1>2. CASE a_command = "maxset"
  <2>1. all = <<"inputs", "outputs">>
                \o <<"names", "states", "partition", "solve">>
    BY <1>2 DEF steps
  <2>2. Len(all) = 6
    BY <2>1
  <2>3.
        /\ all[1] = "inputs" /\ all[2] = "outputs" /\ all[3] = "names"
        /\ all[4] = "states" /\ all[5] = "partition" /\ all[6] = "solve"
    BY <2>1
  <2>4. all \in Seq(Steps)
    <3>0. "names" \in Steps /\ "states" \in Steps /\ "partition" \in Steps /\ "solve" \in Steps
      BY DEF Steps
    <3>1. <<"names", "states", "partition", "solve">> \in Seq(Steps)
      BY <3>0, TuplesOfStrings, ZenonT(30)
    <3>4. <<"inputs", "outputs">> \in Seq(Steps)
      BY DEF Steps
    <3>. DEFINE last == <<"names", "states", "partition", "solve">>
    <3>2. last \in Seq(Steps)
      BY <3>1
    <3>. HIDE DEF last
    <3>3. <<"inputs", "outputs">> \o last \in Seq(Steps)
      BY <3>2, <3>4
    <3>. QED  BY <2>1, <3>3 DEF last
  <2>. HIDE DEF all
  <2>5. ASSUME NEW n \in 1 .. 6 PROVE StepsAsCounted(a_command, n)
    <3>1. CASE n = 1
      <4>1. all[Len(all) - n + 1] = "solve"
        BY <2>2, <2>3, <3>1
      <4>2. AsCounted("solve", a_command, 1, 6)
        BY <1>2 DEF AsCounted, StatesAt
      <4>. QED  BY <2>2, <3>1, <4>1, <4>2 DEF all, StepsAsCounted
    <3>2. CASE n = 2
      <4>1. all[Len(all) - n + 1] = "partition"
        BY <2>2, <2>3, <3>2
      <4>2. AsCounted("partition", a_command, 2, 6)
        BY <1>2 DEF AsCounted, StatesAt
      <4>. QED  BY <2>2, <3>2, <4>1, <4>2 DEF all, StepsAsCounted
    <3>3. CASE n = 3
      <4>1. all[Len(all) - n + 1] = "states"
        BY <2>2, <2>3, <3>3
      <4>2. AsCounted("states", a_command, 3, 6)
        BY <1>2 DEF AsCounted, StatesAt
      <4>. QED  BY <2>2, <3>3, <4>1, <4>2 DEF all, StepsAsCounted
    <3>4. CASE n = 4
      <4>1. all[Len(all) - n + 1] = "names"
        BY <2>2, <2>3, <3>4
      <4>2. AsCounted("names", a_command, 4, 6)
        BY <1>2 DEF AsCounted, StatesAt
      <4>. QED  BY <2>2, <3>4, <4>1, <4>2 DEF all, StepsAsCounted
    <3>5. CASE n = 5
      <4>1. all[Len(all) - n + 1] = "outputs"
        BY <2>2, <2>3, <3>5
      <4>2. AsCounted("outputs", a_command, 5, 6)
        BY <1>2 DEF AsCounted, StatesAt
      <4>. QED  BY <2>2, <3>5, <4>1, <4>2 DEF all, StepsAsCounted
    <3>6. CASE n = 6
      <4>1. all[Len(all) - n + 1] = "inputs"
        BY <2>2, <2>3, <3>6
      <4>2. AsCounted("inputs", a_command, 6, 6)
        BY <1>2 DEF AsCounted, StatesAt
      <4>. QED  BY <2>2, <3>6, <4>1, <4>2 DEF all, StepsAsCounted
    <3>. QED  BY <3>1, <3>2, <3>3, <3>4, <3>5, <3>6
  <2>6. AutomataLeft(a_command, 6) = IF a_command = "gr1" THEN 3 ELSE 1
    BY <1>2 DEF AutomataLeft
  <2>7. Len(all) >= 6 /\ AutomataLeft(a_command, Len(all)) = IF a_command = "gr1" THEN 3 ELSE 1
    BY <2>2, <2>6
  <2>8. \A n \in 1 .. Len(all) : StepsAsCounted(a_command, n)
    BY <2>2, <2>5
  <2>. QED  BY <2>4, <2>7, <2>8 DEF all
<1>3. CASE a_command \in {"fairness", "stability"}
  <2>1. all = <<"inputs", "outputs">>
                \o <<"names", "states", "partition", "assumption", "solve">>
    BY <1>3 DEF steps
  <2>2. Len(all) = 7
    BY <2>1
  <2>3.
        /\ all[1] = "inputs" /\ all[2] = "outputs" /\ all[3] = "names"
        /\ all[4] = "states" /\ all[5] = "partition" /\ all[6] = "assumption"
        /\ all[7] = "solve"
    BY <2>1
  <2>4. all \in Seq(Steps)
    <3>0. "names" \in Steps /\ "states" \in Steps /\ "partition" \in Steps
            /\ "assumption" \in Steps /\ "solve" \in Steps
      BY DEF Steps
    <3>1. <<"names", "states", "partition", "assumption", "solve">> \in Seq(Steps)
      BY <3>0, TuplesOfStrings, ZenonT(30)
    <3>4. <<"inputs", "outputs">> \in Seq(Steps)
      BY DEF Steps
    <3>. DEFINE last == <<"names", "states", "partition", "assumption", "solve">>
    <3>2. last \in Seq(Steps)
      BY <3>1
    <3>. HIDE DEF last
    <3>3. <<"inputs", "outputs">> \o last \in Seq(Steps)
      BY <3>2, <3>4
    <3>. QED  BY <2>1, <3>3 DEF last
  <2>. HIDE DEF all
  <2>5. ASSUME NEW n \in 1 .. 7 PROVE StepsAsCounted(a_command, n)
    <3>1. CASE n = 1
      <4>1. all[Len(all) - n + 1] = "solve"
        BY <2>2, <2>3, <3>1
      <4>2. AsCounted("solve", a_command, 1, 7)
        BY <1>3 DEF AsCounted, StatesAt
      <4>. QED  BY <2>2, <3>1, <4>1, <4>2 DEF all, StepsAsCounted
    <3>2. CASE n = 2
      <4>1. all[Len(all) - n + 1] = "assumption"
        BY <2>2, <2>3, <3>2
      <4>2. AsCounted("assumption", a_command, 2, 7)
        BY <1>3 DEF AsCounted, StatesAt
      <4>. QED  BY <2>2, <3>2, <4>1, <4>2 DEF all, StepsAsCounted
    <3>3. CASE n = 3
      <4>1. all[Len(all) - n + 1] = "partition"
        BY <2>2, <2>3, <3>3
      <4>2. AsCounted("partition", a_command, 3, 7)
        BY <1>3 DEF AsCounted, StatesAt
      <4>. QED  BY <2>2, <3>3, <4>1, <4>2 DEF all, StepsAsCounted
    <3>4. CASE n = 4
      <4>1. all[Len(all) - n + 1] = "states"
        BY <2>2, <2>3, <3>4
      <4>2. AsCounted("states", a_command, 4, 7)
        BY <1>3 DEF AsCounted, StatesAt
      <4>. QED  BY <2>2, <3>4, <4>1, <4>2 DEF all, StepsAsCounted
    <3>5. CASE n = 5
      <4>1. all[Len(all) - n + 1] = "names"
        BY <2>2, <2>3, <3>5
      <4>2. AsCounted("names", a_command, 5, 7)
        BY <1>3 DEF AsCounted, StatesAt
      <4>. QED  BY <2>2, <3>5, <4>1, <4>2 DEF all, StepsAsCounted
    <3>6. CASE n = 6
      <4>1. all[Len(all) - n + 1] = "outputs"
        BY <2>2, <2>3, <3>6
      <4>2. AsCounted("outputs", a_command, 6, 7)
        BY <1>3 DEF AsCounted, StatesAt
      <4>. QED  BY <2>2, <3>6, <4>1, <4>2 DEF all, StepsAsCounted
    <3>7. CASE n = 7
      <4>1. all[Len(all) - n + 1] = "inputs"
        BY <2>2, <2>3, <3>7
      <4>2. AsCounted("inputs", a_command, 7, 7)
        BY <1>3 DEF AsCounted, StatesAt
      <4>. QED  BY <2>2, <3>7, <4>1, <4>2 DEF all, StepsAsCounted
    <3>. QED  BY <3>1, <3>2, <3>3, <3>4, <3>5, <3>6, <3>7
  <2>6. AutomataLeft(a_command, 7) = IF a_command = "gr1" THEN 3 ELSE 1
    BY <1>3 DEF AutomataLeft
  <2>7. Len(all) >= 6 /\ AutomataLeft(a_command, Len(all)) = IF a_command = "gr1" THEN 3 ELSE 1
    BY <2>2, <2>6
  <2>8. \A n \in 1 .. Len(all) : StepsAsCounted(a_command, n)
    BY <2>2, <2>5
  <2>. QED  BY <2>4, <2>7, <2>8 DEF all
<1>4. CASE a_command = "gr1"
  <2>1. all = <<"inputs", "outputs">>
                \o <<"names", "states", "names", "states", "names", "states", "gr1_file",
                        "partition", "solve">>
    BY <1>4 DEF steps
  <2>2. Len(all) = 11
    BY <2>1
  <2>3.
        /\ all[1] = "inputs" /\ all[2] = "outputs" /\ all[3] = "names"
        /\ all[4] = "states" /\ all[5] = "names" /\ all[6] = "states"
        /\ all[7] = "names" /\ all[8] = "states" /\ all[9] = "gr1_file"
        /\ all[10] = "partition" /\ all[11] = "solve"
    BY <2>1
  <2>4. all \in Seq(Steps)
    <3>0. "names" \in Steps /\ "states" \in Steps /\ "gr1_file" \in Steps
            /\ "partition" \in Steps /\ "solve" \in Steps
      BY DEF Steps
    <3>1. <<"names", "states", "names", "states", "names", "states", "gr1_file", "partition",
            "solve">> \in Seq(Steps)
      BY <3>0, TuplesOfStrings, ZenonT(30)
    <3>4. <<"inputs", "outputs">> \in Seq(Steps)
      BY DEF Steps
    <3>. DEFINE last == <<"names", "states", "names", "states", "names", "states", "gr1_file",
            "partition", "solve">>
    <3>2. last \in Seq(Steps)
      BY <3>1
    <3>. HIDE DEF last
    <3>3. <<"inputs", "outputs">> \o last \in Seq(Steps)
      BY <3>2, <3>4
    <3>. QED  BY <2>1, <3>3 DEF last
  <2>. HIDE DEF all
  <2>5. ASSUME NEW n \in 1 .. 11 PROVE StepsAsCounted(a_command, n)
    <3>1. CASE n = 1
      <4>1. all[Len(all) - n + 1] = "solve"
        BY <2>2, <2>3, <3>1
      <4>2. AsCounted("solve", a_command, 1, 11)
        BY <1>4 DEF AsCounted, StatesAt
      <4>. QED  BY <2>2, <3>1, <4>1, <4>2 DEF all, StepsAsCounted
    <3>2. CASE n = 2
      <4>1. all[Len(all) - n + 1] = "partition"
        BY <2>2, <2>3, <3>2
      <4>2. AsCounted("partition", a_command, 2, 11)
        BY <1>4 DEF AsCounted, StatesAt
      <4>. QED  BY <2>2, <3>2, <4>1, <4>2 DEF all, StepsAsCounted
    <3>3. CASE n = 3
      <4>1. all[Len(all) - n + 1] = "gr1_file"
        BY <2>2, <2>3, <3>3
      <4>2. AsCounted("gr1_file", a_command, 3, 11)
        BY <1>4 DEF AsCounted, StatesAt
      <4>. QED  BY <2>2, <3>3, <4>1, <4>2 DEF all, StepsAsCounted
    <3>4. CASE n = 4
      <4>1. all[Len(all) - n + 1] = "states"
        BY <2>2, <2>3, <3>4
      <4>2. AsCounted("states", a_command, 4, 11)
        BY <1>4 DEF AsCounted, StatesAt
      <4>. QED  BY <2>2, <3>4, <4>1, <4>2 DEF all, StepsAsCounted
    <3>5. CASE n = 5
      <4>1. all[Len(all) - n + 1] = "names"
        BY <2>2, <2>3, <3>5
      <4>2. AsCounted("names", a_command, 5, 11)
        BY <1>4 DEF AsCounted, StatesAt
      <4>. QED  BY <2>2, <3>5, <4>1, <4>2 DEF all, StepsAsCounted
    <3>6. CASE n = 6
      <4>1. all[Len(all) - n + 1] = "states"
        BY <2>2, <2>3, <3>6
      <4>2. AsCounted("states", a_command, 6, 11)
        BY <1>4 DEF AsCounted, StatesAt
      <4>. QED  BY <2>2, <3>6, <4>1, <4>2 DEF all, StepsAsCounted
    <3>7. CASE n = 7
      <4>1. all[Len(all) - n + 1] = "names"
        BY <2>2, <2>3, <3>7
      <4>2. AsCounted("names", a_command, 7, 11)
        BY <1>4 DEF AsCounted, StatesAt
      <4>. QED  BY <2>2, <3>7, <4>1, <4>2 DEF all, StepsAsCounted
    <3>8. CASE n = 8
      <4>1. all[Len(all) - n + 1] = "states"
        BY <2>2, <2>3, <3>8
      <4>2. AsCounted("states", a_command, 8, 11)
        BY <1>4 DEF AsCounted, StatesAt
      <4>. QED  BY <2>2, <3>8, <4>1, <4>2 DEF all, StepsAsCounted
    <3>9. CASE n = 9
      <4>1. all[Len(all) - n + 1] = "names"
        BY <2>2, <2>3, <3>9
      <4>2. AsCounted("names", a_command, 9, 11)
        BY <1>4 DEF AsCounted, StatesAt
      <4>. QED  BY <2>2, <3>9, <4>1, <4>2 DEF all, StepsAsCounted
    <3>10. CASE n = 10
      <4>1. all[Len(all) - n + 1] = "outputs"
        BY <2>2, <2>3, <3>10
      <4>2. AsCounted("outputs", a_command, 10, 11)
        BY <1>4 DEF AsCounted, StatesAt
      <4>. QED  BY <2>2, <3>10, <4>1, <4>2 DEF all, StepsAsCounted
    <3>11. CASE n = 11
      <4>1. all[Len(all) - n + 1] = "inputs"
        BY <2>2, <2>3, <3>11
      <4>2. AsCounted("inputs", a_command, 11, 11)
        BY <1>4 DEF AsCounted, StatesAt
      <4>. QED  BY <2>2, <3>11, <4>1, <4>2 DEF all, StepsAsCounted
    <3>. QED  BY <3>1, <3>2, <3>3, <3>4, <3>5, <3>6, <3>7, <3>8, <3>9, <3>10, <3>11
  <2>6. AutomataLeft(a_command, 11) = IF a_command = "gr1" THEN 3 ELSE 1
    BY <1>4 DEF AutomataLeft
  <2>7. Len(all) >= 6 /\ AutomataLeft(a_command, Len(all)) = IF a_command = "gr1" THEN 3 ELSE 1
    BY <2>2, <2>6
  <2>8. \A n \in 1 .. Len(all) : StepsAsCounted(a_command, n)
    BY <2>2, <2>5
  <2>. QED  BY <2>4, <2>7, <2>8 DEF all
<1>. QED  BY <1>1, <1>2, <1>3, <1>4 DEF Commands

\* What is left of the steps of a command.
Rest(a_command, left) ==
    /\ left \in Seq(Steps)
    /\ Len(left) <= Len(steps(a_command))
    /\ \A i \in 1 .. Len(left) :
            left[i] = steps(a_command)[Len(steps(a_command)) - Len(left) + i]

\* The step that is next is where it is counted to be.
LEMMA RestOfSteps ==
    ASSUME NEW a_command \in Commands, NEW left, Rest(a_command, left), left # <<>>
    PROVE  /\ Rest(a_command, Tail(left))
           /\ Len(left) \in Nat /\ Len(left) >= 1 /\ Len(Tail(left)) = Len(left) - 1
           /\ AsCounted(Head(left), a_command, Len(left), Len(steps(a_command)))
           /\ Len(left) <= Len(steps(a_command)) /\ Len(steps(a_command)) \in Nat
<1>. DEFINE all == steps(a_command)
            m == Len(all)
            n == Len(left)
<1>1. all \in Seq(Steps) /\ m \in Nat /\ left \in Seq(Steps) /\ n \in Nat /\ n <= m
  BY StepsOfCommands DEF Rest
<1>2. n >= 1 /\ Tail(left) \in Seq(Steps) /\ Len(Tail(left)) = n - 1
      /\ Head(left) = left[1] /\ \A i \in 1 .. n - 1 : Tail(left)[i] = left[i + 1]
  BY <1>1
<1>3. \A i \in 1 .. n : left[i] = all[m - n + i]
  BY DEF Rest
<1>. HIDE DEF all, m, n
<1>4. Head(left) = all[m - n + 1]
  BY <1>1, <1>2, <1>3
<1>5. AsCounted(Head(left), a_command, n, m)
  <2>1. StepsAsCounted(a_command, n)
    <3>1. n \in 1 .. m
      BY <1>1, <1>2
    <3>. QED  BY <3>1, StepsOfCommands DEF all, m
  <2>. QED  BY <1>4, <2>1 DEF StepsAsCounted, all, m
<1>6. Rest(a_command, Tail(left))
  <2>1. \A i \in 1 .. n - 1 : Tail(left)[i] = all[m - (n - 1) + i]
    <3>. TAKE i \in 1 .. n - 1
    <3>1. i + 1 \in 1 .. n /\ m - n + (i + 1) = m - (n - 1) + i
      BY <1>1, <1>2
    <3>. QED  BY <1>2, <1>3, <3>1
  <2>2. Tail(left) \in Seq(Steps) /\ Len(Tail(left)) = n - 1 /\ n - 1 <= m
    BY <1>1, <1>2
  <2>. QED  BY <2>1, <2>2 DEF Rest, all, m
<1>. QED  BY <1>1, <1>2, <1>5, <1>6 DEF all, m, n

\* The formulas whose automata are to be built when n steps are left.
FormulasLeft(a_command, spec, left, n) ==
    /\ left \in Seq(Formulas)
    /\ Len(left) = AutomataLeft(a_command, n)
    /\ \A i \in 1 .. Len(left) :
            left[i] = formulas(a_command, spec)[Len(formulas(a_command, spec)) - Len(left) + i]

\* Automata are left as they are counted.
LEMMA FormulasStayLeft ==
    ASSUME NEW a_command \in Commands, NEW spec, NEW left, NEW n \in Nat, n >= 1,
           FormulasLeft(a_command, spec, left, n)
    PROVE  /\ n \notin StatesAt(a_command) => FormulasLeft(a_command, spec, left, n - 1)
           /\ n \in StatesAt(a_command) => /\ FormulasLeft(a_command, spec, Tail(left), n - 1)
                                           /\ left # <<>>
<1>. DEFINE all == formulas(a_command, spec)
            m == Len(all)
            k == Len(left)
<1>1. left \in Seq(Formulas) /\ k \in Nat /\ k = AutomataLeft(a_command, n)
  BY DEF FormulasLeft
<1>2. m \in Nat
  BY DEF formulas
<1>3. ASSUME n \notin StatesAt(a_command) PROVE FormulasLeft(a_command, spec, left, n - 1)
  <2>1. AutomataLeft(a_command, n - 1) = AutomataLeft(a_command, n)
    BY <1>3 DEF AutomataLeft, StatesAt
  <2>. QED  BY <2>1 DEF FormulasLeft
<1>4. ASSUME n \in StatesAt(a_command)
      PROVE  FormulasLeft(a_command, spec, Tail(left), n - 1) /\ left # <<>>
  <2>1. AutomataLeft(a_command, n - 1) = k - 1 /\ k >= 1
    BY <1>1, <1>4 DEF AutomataLeft, StatesAt
  <2>2. left # <<>> /\ Tail(left) \in Seq(Formulas) /\ Len(Tail(left)) = k - 1
        /\ \A i \in 1 .. k - 1 : Tail(left)[i] = left[i + 1]
    BY <1>1, <2>1
  <2>3. \A i \in 1 .. k : left[i] = all[m - k + i]
    BY DEF FormulasLeft
  <2>. HIDE DEF all, m, k
  <2>4. \A i \in 1 .. k - 1 : Tail(left)[i] = all[m - (k - 1) + i]
    <3>. TAKE i \in 1 .. k - 1
    <3>1. i + 1 \in 1 .. k /\ m - k + (i + 1) = m - (k - 1) + i
      BY <1>1, <1>2
    <3>. QED  BY <2>2, <2>3, <3>1
  <2>. QED  BY <2>1, <2>2, <2>4 DEF FormulasLeft, all, m
<1>. QED  BY <1>3, <1>4

\* At the start the automata of all formulas are left.
LEMMA FormulasOfCommands ==
    ASSUME NEW line \in CommandLines
    PROVE  FormulasLeft(line.command, line.args, formulas(line.command, line.args),
                        Len(steps(line.command)))
<1>. DEFINE c == line.command
            all == formulas(c, line.args)
<1>1. c \in Commands /\ line.args.agn_safety \in Formulas /\ line.args.env_safety \in Formulas
      /\ line.args.formula \in Formulas
  BY CommandLinesAssumption DEF Commands
<1>2. AutomataLeft(c, Len(steps(c))) = IF c = "gr1" THEN 3 ELSE 1
  BY <1>1, StepsOfCommands
<1>3. all \in Seq(Formulas) /\ Len(all) = IF c = "gr1" THEN 3 ELSE 1
  BY <1>1 DEF formulas
<1>. HIDE DEF all, c
<1>4. \A i \in 1 .. Len(all) : all[i] = all[Len(all) - Len(all) + i]
  BY <1>3
<1>. QED  BY <1>2, <1>3, <1>4 DEF FormulasLeft, all, c

Overwritten == {"inputs", "outputs", "sys_first"}

\* The arguments and the steps of a run: what syfco's calls overwrite is as in the file or
\* nothing, and the rest of the steps and formulas is the rest of those of the command.
ArgumentsInv ==
    /\ \E line \in CommandLines : command = line.command /\ file = line.args
    /\ DOMAIN args = DOMAIN file
    /\ \A field \in DOMAIN file \ Overwritten : args[field] = file[field]
    /\ \A call \in {"inputs", "outputs"} : args[call] \in {file[call], <<"">>}

StepsInv ==
    /\ Rest(command, todo)
    /\ todo # <<>> => FormulasLeft(command, file, automata, Len(todo))
    /\ calls # <<>> => todo = steps(command) /\ answer = "none"
    /\ answer # "none" => todo = <<>>

\* What the arguments have of the file, whatever was overwritten.
LEMMA FieldsOfFiles ==
    ASSUME ArgumentsInv
    PROVE  /\ command \in Commands
           /\ DOMAIN args = {"inputs", "outputs", "sys_first", "formula", "agn_safety",
                             "env_safety", "condition", "says"}
           /\ args.formula = file.formula /\ args.agn_safety = file.agn_safety
           /\ args.env_safety = file.env_safety
           /\ args.condition = file.condition /\ args.says = file.says
           /\ {file.formula, file.agn_safety, file.env_safety} \subseteq Formulas
           /\ parse_formula(file.formula) \in Formulas
           /\ file.inputs \in Seq(Names) /\ file.outputs \in Seq(Names)
           /\ formulas(command, args) = formulas(command, file)
<1>1. PICK line \in CommandLines : command = line.command /\ file = line.args
  BY DEF ArgumentsInv
<1>2. /\ command \in Commands
      /\ DOMAIN file = {"inputs", "outputs", "sys_first", "formula", "agn_safety",
                        "env_safety", "condition", "says"}
      /\ {file.formula, file.agn_safety, file.env_safety} \subseteq Formulas
      /\ parse_formula(file.formula) \in Formulas
      /\ file.inputs \in Seq(Names) /\ file.outputs \in Seq(Names)
  BY <1>1, CommandLinesAssumption DEF Commands, parse_formula
<1>3. /\ args.formula = file.formula /\ args.agn_safety = file.agn_safety
      /\ args.env_safety = file.env_safety
      /\ args.condition = file.condition /\ args.says = file.says
  BY <1>2 DEF ArgumentsInv, Overwritten
<1>4. formulas(command, args) = formulas(command, file)
  BY <1>3 DEF formulas
<1>. QED  BY <1>2, <1>3, <1>4 DEF ArgumentsInv

\* No step spoils the arguments.
LEMMA ArgumentsAreRead ==
    ASSUME ArgumentsInv, [ParserNext]_parser_vars
    PROVE  ArgumentsInv'
<1>1. CASE UNCHANGED <<command, file, args>>
  BY <1>1 DEF ArgumentsInv
<1>2. ASSUME NEW call \in {"inputs", "outputs"}, ReadNames(call) PROVE ArgumentsInv'
  <2>1. UNCHANGED <<command, file>>
        /\ \/ args' = [args EXCEPT ![call] = split(file[call])]
           \/ args' = [args EXCEPT ![call] = split(<<>>)]
    BY <1>2 DEF ReadNames, syfco, other_vars
  <2>2. split(file[call]) \in {file[call], <<"">>} /\ split(<<>>) = <<"">>
    BY DEF split
  <2>3. call \in DOMAIN args /\ call \in Overwritten
    BY FieldsOfFiles DEF Overwritten
  <2>4. DOMAIN args' = DOMAIN args /\ args'[call] \in {file[call], <<"">>}
        /\ \A field \in DOMAIN args \ {call} : args'[field] = args[field]
    BY <2>1, <2>2, <2>3
  <2>5. {"inputs", "outputs"} \subseteq DOMAIN args
    BY FieldsOfFiles
  <2>. QED  BY <2>1, <2>3, <2>4, <2>5 DEF ArgumentsInv
<1>3. CASE read_target
  <2>1. UNCHANGED <<command, file>>
        /\ \E way : args' = [args EXCEPT !.sys_first = way]
    BY <1>3 DEF read_target, syfco, other_vars
  <2>2. DOMAIN args' = DOMAIN args
        /\ \A field \in DOMAIN args \ {"sys_first"} : args'[field] = args[field]
    BY <2>1
  <2>3. {"inputs", "outputs"} \subseteq DOMAIN args
    BY FieldsOfFiles
  <2>. QED  BY <2>1, <2>2, <2>3 DEF ArgumentsInv, Overwritten
<1>4. CASE Run
  <2>1. UNCHANGED file
    BY <1>4 DEF Run
  <2>2. UNCHANGED <<command, args>>
    BY <1>4 DEF Run, CLINext, build_var_mgr, preprocessing, do_dfa_construction, read_gr1_file,
                partition, read_assumption, handle_synthesis_result, run_vars
  <2>. QED  BY <1>1, <2>1, <2>2
<1>5. CASE read_formula
  BY <1>1, <1>5 DEF read_formula, syfco, other_vars
<1>6. CASE parse_error
  BY <1>1, <1>6 DEF parse_error, other_vars
<1>7. CASE UNCHANGED parser_vars
  BY <1>1, <1>7 DEF parser_vars, cli_vars
<1>. QED  BY <1>2, <1>3, <1>4, <1>5, <1>6, <1>7 DEF ParserNext

\* What a step of the run does to what is left of it.
GoesOn ==
    /\ todo # <<>>
    /\ UNCHANGED <<command, args, answer, winning_move>>
    /\ todo' = Tail(todo)
    /\ automata' = IF Head(todo) = "states" THEN Tail(automata) ELSE automata

AnswersEarly ==
    /\ todo # <<>>
    /\ Head(todo) = "preprocessing"
    /\ UNCHANGED <<command, args, automata>>
    /\ todo' = <<>>
    /\ \/ /\ answer' = "realizable"
          /\ winning_move' \in one_step_realizable(parse_formula(args.formula), Inputs, Outputs)
       \/ /\ answer' = "unrealizable"
          /\ one_step_unrealizable(parse_formula(args.formula), Inputs, Outputs,
                                   starting_player)

Answers ==
    /\ todo # <<>>
    /\ Head(todo) = "solve"
    /\ UNCHANGED <<command, args, automata>>
    /\ todo' = Tail(todo)

\* Every step goes on, answers early or answers.
LEMMA StepsOfTheRun ==
    ASSUME CLINext
    PROVE  GoesOn \/ AnswersEarly \/ Answers
<1>1. CASE build_var_mgr
  BY <1>1 DEF build_var_mgr, Doing, run_vars, GoesOn
<1>2. CASE preprocessing
  <2>. DEFINE formula == parse_formula(args.formula)
              moves == one_step_realizable(formula, Inputs, Outputs)
              lost == one_step_unrealizable(formula, Inputs, Outputs, starting_player)
  <2>1. /\ todo # <<>>
        /\ Head(todo) = "preprocessing"
        /\ IF moves # {}
           THEN Answer("realizable") /\ winning_move' \in moves
           ELSE /\ UNCHANGED winning_move
                /\ IF lost THEN Answer("unrealizable") ELSE todo' = Tail(todo) /\ UNCHANGED answer
        /\ UNCHANGED <<command, args, automata>>
    BY <1>2, Zenon DEF preprocessing
  <2>. HIDE DEF formula, moves, lost
  <2>2. \/ /\ answer' = "realizable" /\ todo' = <<>> /\ winning_move' \in moves
        \/ /\ answer' = "unrealizable" /\ todo' = <<>> /\ lost
        \/ /\ todo' = Tail(todo) /\ UNCHANGED <<answer, winning_move>>
    BY <2>1 DEF Answer
  <2>3. CASE todo' = <<>> /\ \/ answer' = "realizable" /\ winning_move' \in moves
                             \/ answer' = "unrealizable" /\ lost
    BY <2>1, <2>3 DEF AnswersEarly, formula, moves, lost
  <2>4. CASE todo' = Tail(todo) /\ UNCHANGED <<answer, winning_move>>
    BY <2>1, <2>4 DEF GoesOn
  <2>. QED  BY <2>2, <2>3, <2>4
<1>3. CASE do_dfa_construction
  BY <1>3 DEF do_dfa_construction, Doing, GoesOn
<1>4. CASE read_gr1_file
  BY <1>4 DEF read_gr1_file, Doing, run_vars, GoesOn
<1>5. CASE partition
  BY <1>5 DEF partition, Doing, run_vars, GoesOn
<1>6. CASE read_assumption
  BY <1>6 DEF read_assumption, Doing, run_vars, GoesOn
<1>7. CASE handle_synthesis_result
  BY <1>7 DEF handle_synthesis_result, Doing, Answers
<1>. QED  BY <1>1, <1>2, <1>3, <1>4, <1>5, <1>6, <1>7 DEF CLINext

\* No step spoils the count.
LEMMA StepsAreTaken ==
    ASSUME ArgumentsInv, StepsInv, [ParserNext]_parser_vars
    PROVE  StepsInv'
<1>1. CASE UNCHANGED <<command, file, todo, automata, answer>> /\ (calls' # <<>> => calls # <<>>)
  BY <1>1 DEF StepsInv, Rest, FormulasLeft
<1>2. CASE Run
  <2>1. calls = <<>> /\ UNCHANGED <<calls, file>> /\ CLINext
    BY <1>2 DEF Run
  <2>2. GoesOn \/ AnswersEarly \/ Answers
    BY <2>1, StepsOfTheRun
  <2>3. todo # <<>> /\ UNCHANGED command
    BY <2>2 DEF GoesOn, AnswersEarly, Answers
  <2>4. /\ Rest(command, todo) /\ command \in Commands
        /\ FormulasLeft(command, file, automata, Len(todo))
        /\ answer = "none"
    BY <2>3, FieldsOfFiles DEF StepsInv
  <2>. DEFINE n == Len(todo)
  <2>5. /\ n \in Nat /\ n >= 1 /\ Len(Tail(todo)) = n - 1 /\ Rest(command, Tail(todo))
        /\ AsCounted(Head(todo), command, n, Len(steps(command)))
    BY <2>3, <2>4, RestOfSteps
  <2>6. Head(todo) = "states" <=> n \in StatesAt(command)
    BY <2>5 DEF AsCounted
  <2>7. /\ ~(n \in StatesAt(command)) => FormulasLeft(command, file, automata, n - 1)
        /\ n \in StatesAt(command) => FormulasLeft(command, file, Tail(automata), n - 1)
    BY <2>4, <2>5, FormulasStayLeft
  <2>. HIDE DEF n
  <2>8. CASE GoesOn
    <3>1. Rest(command', todo') /\ FormulasLeft(command', file', automata', Len(todo'))
      BY <2>1, <2>3, <2>5, <2>6, <2>7, <2>8 DEF GoesOn
    <3>2. answer' = "none" /\ calls' = <<>>
      BY <2>1, <2>4, <2>8 DEF GoesOn
    <3>. QED  BY <3>1, <3>2 DEF StepsInv, Rest, FormulasLeft
  <2>9. CASE AnswersEarly
    <3>1. todo' = <<>> /\ calls' = <<>>
      BY <2>1, <2>9 DEF AnswersEarly
    <3>2. Rest(command, <<>>)
      <4>1. Len(steps(command)) \in Nat
        BY <2>4, StepsOfCommands
      <4>. QED  BY <4>1 DEF Rest
    <3>. QED  BY <2>3, <3>1, <3>2 DEF StepsInv, Rest
  <2>10. CASE Answers
    <3>1. n = 1
      BY <2>5, <2>10 DEF Answers, AsCounted
    <3>2. todo' = <<>> /\ calls' = <<>>
      <4>1. Len(Tail(todo)) = 0 /\ Tail(todo) \in Seq(Steps)
        BY <2>5, <3>1 DEF Rest
      <4>. QED  BY <2>1, <2>10, <4>1 DEF Answers
    <3>3. Rest(command', todo')
      BY <2>3, <2>5, <2>10 DEF Answers
    <3>. QED  BY <3>2, <3>3 DEF StepsInv, Rest
  <2>. QED  BY <2>2, <2>8, <2>9, <2>10
<1>3. CASE read_formula
  BY <1>1, <1>3 DEF read_formula, syfco, other_vars
<1>4. CASE ReadNames("inputs")
  BY <1>1, <1>4 DEF ReadNames, syfco, other_vars
<1>5. CASE ReadNames("outputs")
  BY <1>1, <1>5 DEF ReadNames, syfco, other_vars
<1>6. CASE read_target
  BY <1>1, <1>6 DEF read_target, syfco, other_vars
<1>7. CASE parse_error
  BY <1>1, <1>7 DEF parse_error, other_vars
<1>8. CASE UNCHANGED parser_vars
  BY <1>1, <1>8 DEF parser_vars, cli_vars
<1>. QED  BY <1>2, <1>3, <1>4, <1>5, <1>6, <1>7, <1>8 DEF ParserNext

\* The invariant of the arguments and of the count holds at the start.
LEMMA RunsStart ==
    ASSUME ParserInit
    PROVE  ArgumentsInv /\ StepsInv
<1>1. PICK line \in CommandLines : command = line.command /\ args = line.args
  BY DEF ParserInit, CLIInit
<1>2. file = args /\ todo = steps(command) /\ automata = formulas(command, args) /\ answer = "none"
  BY DEF ParserInit, CLIInit
<1>3. ArgumentsInv
  BY <1>1, <1>2 DEF ArgumentsInv
<1>4. StepsInv
  <2>1. command \in Commands
    BY <1>3, FieldsOfFiles
  <2>2. todo \in Seq(Steps)
    BY <1>2, <2>1, StepsOfCommands
  <2>3. Rest(command, todo)
    <3>. DEFINE m == Len(todo)
    <3>1. m \in Nat /\ m = Len(steps(command))
      BY <1>2, <2>2
    <3>. HIDE DEF m
    <3>2. \A i \in 1 .. m : m - m + i = i
      BY <3>1
    <3>. QED  BY <1>2, <2>2, <3>1, <3>2 DEF Rest, m
  <2>4. FormulasLeft(command, file, automata, Len(todo))
    BY <1>1, <1>2, FormulasOfCommands
  <2>. QED  BY <1>2, <2>3, <2>4 DEF StepsInv
<1>. QED  BY <1>3, <1>4

\* An early answer is what the preprocessing found.
EarlyInv ==
    (Early /\ todo = <<>>) =>
        \/ /\ answer = "realizable"
           /\ winning_move \in one_step_realizable(parse_formula(args.formula), Inputs, Outputs)
        \/ /\ answer = "unrealizable"
           /\ one_step_unrealizable(parse_formula(args.formula), Inputs, Outputs,
                                    starting_player)

RunInv == ArgumentsInv /\ StepsInv

\* No step spoils an early answer.
LEMMA EarlyAnswersAreFound ==
    ASSUME RunInv, EarlyInv, [ParserNext]_parser_vars
    PROVE  EarlyInv'
<1>. USE DEF RunInv
<1>1. CASE UNCHANGED <<command, args, todo, automata, answer, winning_move>>
  BY <1>1 DEF EarlyInv, Early, Inputs, Outputs, starting_player
<1>2. CASE calls # <<>> /\ UNCHANGED <<answer>>
  BY <1>2 DEF EarlyInv, Early, StepsInv
<1>3. CASE Run
  <2>1. GoesOn \/ AnswersEarly \/ Answers
    BY <1>3, StepsOfTheRun DEF Run
  <2>2. CASE GoesOn
    BY <2>2 DEF EarlyInv, Early, StepsInv, GoesOn
  <2>3. CASE AnswersEarly
    BY <2>3 DEF EarlyInv, AnswersEarly, Inputs, Outputs, starting_player
  <2>4. CASE Answers
    <3>1. /\ Rest(command, todo) /\ command \in Commands /\ todo # <<>> /\ Head(todo) = "solve"
          /\ FormulasLeft(command, file, automata, Len(todo))
      BY <2>4, FieldsOfFiles DEF Answers, StepsInv
    <3>2. Len(todo) = 1
      BY <3>1, RestOfSteps DEF AsCounted
    <3>3. automata = <<>>
      <4>1. AutomataLeft(command, 1) = 0
        BY DEF AutomataLeft
      <4>2. automata \in Seq(Formulas) /\ Len(automata) = 0
        BY <3>1, <3>2, <4>1 DEF FormulasLeft
      <4>. QED  BY <4>2
    <3>. QED  BY <2>4, <3>3 DEF EarlyInv, Early, Answers
  <2>. QED  BY <2>1, <2>2, <2>3, <2>4
<1>4. CASE read_formula
  BY <1>2, <1>4 DEF read_formula, syfco, other_vars
<1>5. CASE ReadNames("inputs")
  BY <1>2, <1>5 DEF ReadNames, syfco, other_vars
<1>6. CASE ReadNames("outputs")
  BY <1>2, <1>6 DEF ReadNames, syfco, other_vars
<1>7. CASE read_target
  BY <1>2, <1>7 DEF read_target, syfco, other_vars
<1>8. CASE parse_error
  BY <1>1, <1>8 DEF parse_error, other_vars
<1>9. CASE UNCHANGED parser_vars
  BY <1>1, <1>9 DEF parser_vars, cli_vars
<1>. QED  BY <1>3, <1>4, <1>5, <1>6, <1>7, <1>8, <1>9 DEF ParserNext

\* The arguments are those of the file where the calls of syfco do not overwrite them, and
\* what is left of a run, of its steps and of its automata, is a rest of what its command does.
THEOREM RunInvariant == ParserSpec => []RunInv
<1>1. ParserInit => RunInv
  BY RunsStart DEF RunInv
<1>2. RunInv /\ [ParserNext]_parser_vars => RunInv'
  BY ArgumentsAreRead, StepsAreTaken DEF RunInv
<1>. QED  BY <1>1, <1>2, PTL DEF ParserSpec

\* An early answer is what the preprocessing found.
LEMMA EarlyInvariant == ParserSpec => []EarlyInv
<1>1. ParserInit => EarlyInv
  BY DEF ParserInit, CLIInit, EarlyInv, Early
<1>2. RunInv /\ EarlyInv /\ [ParserNext]_parser_vars => EarlyInv'
  BY EarlyAnswersAreFound
<1>. QED  BY <1>1, <1>2, RunInvariant, PTL DEF ParserSpec

\* An early answer is about a formula over the letters.
LEMMA EarlySpecification ==
    ASSUME RunInv, EarlyInv, Early, Used \subseteq Inputs \cup Outputs
    PROVE  /\ todo = <<>>
           /\ args.formula \in Formulas /\ parse_formula(args.formula) \in Formulas
           /\ Atoms(args.formula) \subseteq Inputs \cup Outputs
<1>1. todo = <<>>
  BY DEF RunInv, StepsInv, Early
<1>2. args.formula \in Formulas /\ parse_formula(args.formula) \in Formulas
  BY FieldsOfFiles DEF RunInv
<1>3. args.formula \in ToSet(formulas(command, args))
  <2>1. formulas(command, args) = <<args.formula>>
    BY DEF formulas, Early
  <2>2. 1 \in DOMAIN <<args.formula>> /\ <<args.formula>>[1] = args.formula
    OBVIOUS
  <2>. QED  BY <2>1, <2>2 DEF ToSet
<1>4. Atoms(args.formula) \subseteq Used
  BY <1>3 DEF Used
<1>. QED  BY <1>1, <1>2, <1>4

\* The first move that is printed with an early answer satisfies the formula with one letter,
\* whatever the other variables are.
THEOREM EarlyMovesWin == ParserSpec => []EarlyMoveWins
<1>1. RunInv /\ EarlyInv => EarlyMoveWins
  <2>. SUFFICES ASSUME RunInv, EarlyInv, Early, answer = "realizable",
                       Used \subseteq Inputs \cup Outputs
                PROVE  \A letter \in SUBSET (Inputs \cup Outputs) :
                            (\A y \in DOMAIN winning_move : winning_move[y] <=> y \in letter)
                                => Holds(args.formula, <<letter>>, 1)
    BY DEF EarlyMoveWins
  <2>1. winning_move \in one_step_realizable(parse_formula(args.formula), Inputs, Outputs)
    BY EarlySpecification DEF EarlyInv
  <2>. QED  BY <2>1, EarlySpecification, RealizableIsWon
<1>. QED  BY <1>1, RunInvariant, EarlyInvariant, PTL

\* An early answer is that of the game, in which the agent has as many letters as it likes.
THEOREM EarlyAnswersAreThoseOfTheGame == ParserSpec => []EarlyAnswersAreRight
<1>1. RunInv /\ EarlyInv => EarlyAnswersAreRight
  <2>. SUFFICES ASSUME RunInv, EarlyInv, Early, Used \subseteq Inputs \cup Outputs
                PROVE  IF answer = "realizable" THEN AgentWinsWithin(1)
                       ELSE ~AgentWinsWithin(Horizon)
    BY DEF EarlyAnswersAreRight
  <2>1. CASE /\ answer = "realizable"
             /\ winning_move \in one_step_realizable(parse_formula(args.formula), Inputs, Outputs)
    <3>1. AgentWins(args.formula, Inputs, Outputs, args.sys_first, 1)
      BY <2>1, EarlySpecification, RealizableIsWon
    <3>. QED  BY <2>1, <3>1 DEF AgentWinsWithin
  <2>2. CASE /\ answer = "unrealizable"
             /\ one_step_unrealizable(parse_formula(args.formula), Inputs, Outputs,
                                      starting_player)
    <3>1. one_step_unrealizable(parse_formula(args.formula), Inputs, Outputs,
                                IF args.sys_first THEN "Agent" ELSE "Environment")
      BY <2>2 DEF starting_player
    <3>2. Horizon \in Nat
      BY CommandLinesAssumption
    <3>3. ~AgentWins(args.formula, Inputs, Outputs, args.sys_first, Horizon)
      BY <3>1, <3>2, EarlySpecification, UnrealizableIsLost
    <3>. QED  BY <2>2, <3>3 DEF AgentWinsWithin
  <2>. QED  BY <2>1, <2>2, EarlySpecification DEF EarlyInv
<1>. QED  BY <1>1, RunInvariant, EarlyInvariant, PTL

\* A formula has finitely many names.
LEMMA AtomsAreFinite ==
    ASSUME NEW f \in Formulas
    PROVE  IsFiniteSet(Atoms(f))
<1>. DEFINE T == {g \in Formulas : IsFiniteSet(Atoms(g))}
<1>1. ASSUME NEW g \in Formulas, \A k \in DOMAIN g.args : g.args[k] \in T PROVE g \in T
  <2>1. CASE g.op = "atom"
    <3>1. Atoms(g) = {g.name}
      BY <2>1, AtomsOfFormulas
    <3>. QED  BY <3>1, FS_Singleton
  <2>2. CASE g.op # "atom"
    <3>1. Atoms(g) = UNION {Atoms(g.args[k]) : k \in DOMAIN g.args}
      BY <2>2, AtomsOfFormulas
    <3>2. \A k \in DOMAIN g.args : IsFiniteSet(Atoms(g.args[k]))
      BY <1>1
    <3>3. DOMAIN g.args \in {{}, {1}, {1, 2}}
      BY Operators
    <3>4. CASE DOMAIN g.args = {}
      BY <3>1, <3>4, FS_EmptySet
    <3>5. CASE DOMAIN g.args = {1}
      <4>1. Atoms(g) = Atoms(g.args[1]) /\ IsFiniteSet(Atoms(g.args[1]))
        BY <3>1, <3>2, <3>5
      <4>. QED  BY <4>1
    <3>6. CASE DOMAIN g.args = {1, 2}
      <4>1. Atoms(g) = Atoms(g.args[1]) \cup Atoms(g.args[2])
        BY <3>1, <3>6
      <4>2. IsFiniteSet(Atoms(g.args[1])) /\ IsFiniteSet(Atoms(g.args[2]))
        BY <3>2, <3>6
      <4>. QED  BY <4>1, <4>2, FS_Union
    <3>. QED  BY <3>3, <3>4, <3>5, <3>6
  <2>. QED  BY <2>1, <2>2
<1>. HIDE DEF T
<1>2. Formulas \subseteq T
  BY <1>1, FormulaInduction
<1>. QED  BY <1>2 DEF T

\* A finite set as a list.
LEMMA ListOfSet ==
    ASSUME NEW S, NEW T \in SUBSET S, IsFiniteSet(T)
    PROVE  SetToSeq(T) \in Seq(S) /\ ToSet(SetToSeq(T)) = T
<1>1. PICK n \in Nat : ExistsBijection(1 .. n, T)
  BY FS_NatBijection
<1>2. Cardinality(T) = n
  BY <1>1, FS_CountingElements
<1>3. PICK f \in Bijection(1 .. n, T) : TRUE
  BY <1>1 DEF ExistsBijection
<1>4. f \in [1 .. n -> T] /\ IsInjective(f)
  BY <1>3 DEF Bijection, Injection, IsInjective
<1>. DEFINE s == SetToSeq(T)
<1>5. s \in [1 .. n -> T] /\ IsInjective(s)
  BY <1>2, <1>4 DEF SetToSeq
<1>. HIDE DEF s
<1>6. s \in Injection(1 .. n, T)
  BY <1>5 DEF Injection, IsInjective
<1>7. IsFiniteSet(1 .. n) /\ Cardinality(1 .. n) = n
  BY FS_Interval
<1>8. s \in Surjection(1 .. n, T)
  BY <1>2, <1>6, <1>7, FS_Injection
<1>9. ToSet(s) = T
  BY <1>5, <1>8 DEF Surjection, ToSet
<1>10. s \in Seq(T)
  BY <1>5, SeqDef
<1>11. s \in Seq(S)
  BY <1>10, SeqMonotonic
<1>. QED  BY <1>9, <1>11 DEF s

\* The elements of a list that is joined from lists.
LEMMA FlattenElements ==
    ASSUME NEW S, NEW seqs \in Seq(Seq(S))
    PROVE  /\ FlattenSeq(seqs) \in Seq(S)
           /\ ToSet(FlattenSeq(seqs)) = UNION {ToSet(seqs[i]) : i \in DOMAIN seqs}
<1>. DEFINE n == Len(seqs)
            D == 1 .. n
            V == Seq(S)
<1>1. n \in Nat /\ DOMAIN seqs = D /\ \A i \in D : seqs[i] \in V
  <2>. DEFINE W == Seq(S)
  <2>1. seqs \in Seq(W)
    OBVIOUS
  <2>. HIDE DEF W
  <2>2. Len(seqs) \in Nat /\ DOMAIN seqs = 1 .. Len(seqs) /\ \A i \in 1 .. Len(seqs) : seqs[i] \in W
    BY <2>1, LenProperties, ElementOfSeq
  <2>. QED  BY <2>2 DEF W
<1>2. CASE n = 0
  <2>1. DOMAIN seqs = {} /\ FlattenSeq(seqs) = seqs
    BY <1>1, <1>2 DEF FlattenSeq
  <2>2. seqs = <<>>
    BY <1>2, EmptySeq
  <2>. QED  BY <2>1, <2>2, EmptySeq DEF ToSet
<1>3. CASE n # 0
  <2>. DEFINE Flattened(i, g) == IF i = 1 THEN seqs[i] ELSE g[i - 1] \o seqs[i]
              step == [i \in D |-> [g \in [D -> V] |-> Flattened(i, g)]]
              rank == [i \in D |-> i]
  <2>1. \A s, t \in V : s \o t \in V
    BY ConcatProperties
  <2>. HIDE DEF V
  <2>2. \A i \in D : i # 1 => i - 1 \in D /\ i - 1 < i
    BY <1>1
  <2>3. \A i \in D : \A g \in [D -> V] : Flattened(i, g) \in V
    BY <1>1, <2>1, <2>2
  <2>4. LooksDown(D, rank, V, step)
    <3>1. step \in [D -> [[D -> V] -> V]]
      <4>. HIDE DEF Flattened
      <4>. QED  BY <2>3
    <3>2. ASSUME NEW d \in D, NEW g \in [D -> V], NEW h \in [D -> V],
                 \A e \in D : rank[e] < rank[d] => g[e] = h[e]
          PROVE  step[d][g] = step[d][h]
      <4>1. Flattened(d, g) = Flattened(d, h)
        BY <2>2, <3>2
      <4>. HIDE DEF Flattened
      <4>. QED  BY <4>1
    <3>. HIDE DEF step
    <3>. QED  BY <3>1, <3>2 DEF LooksDown
  <2>5. IsSolved(D, V, step)
    <3>1. rank \in [D -> Nat]
      BY <1>1
    <3>2. V # {}
      BY <1>1, <1>3
    <3>. HIDE DEF step, rank, D
    <3>. QED  BY <2>4, <3>1, <3>2, RecursiveFunction
  <2>6. PICK F \in [D -> V] : \A i \in D : F[i] = step[i][F]
    BY <2>5 DEF IsSolved
  <2>. DEFINE Flattens(f) == f = [i \in D |-> Flattened(i, f)]
              f == CHOOSE f : Flattens(f)
  <2>7. Flattens(F)
    <3>1. \A i \in D : F[i] = Flattened(i, F)
      <4>. HIDE DEF Flattened
      <4>. QED  BY <2>6
    <3>. HIDE DEF Flattened
    <3>. QED  BY <2>6, <3>1
  <2>8. Flattens(f)
    <3>. HIDE DEF Flattens
    <3>. QED  BY <2>7
  <2>9. FlattenSeq(seqs) = f[n]
    BY <1>3 DEF FlattenSeq
  <2>. HIDE DEF f
  <2>10. \A i \in D : f[i] = Flattened(i, f)
    BY <2>8
  <2>. DEFINE Elements(i) == UNION {ToSet(seqs[j]) : j \in 1 .. i}
              Right(i) == f[i] \in V /\ ToSet(f[i]) = Elements(i)
              T == {i \in D : ~Right(i)}
  <2>11. T = {}
    <3>. SUFFICES ASSUME T # {} PROVE FALSE
      OBVIOUS
    <3>1. PICK i \in T : \A j \in T : i <= j
      <4>1. T \in SUBSET Nat
        OBVIOUS
      <4>. HIDE DEF T
      <4>. QED  BY <4>1, LeastNumber
    <3>2. CASE i = 1
      <4>1. f[1] = seqs[1] /\ 1 \in D
        BY <2>10, <3>1, <3>2
      <4>2. 1 .. 1 = {1}
        OBVIOUS
      <4>3. Elements(1) = ToSet(seqs[1])
        BY <4>2
      <4>4. Right(1)
        BY <1>1, <4>1, <4>3
      <4>. QED  BY <3>1, <3>2, <4>4
    <3>3. CASE i # 1
      <4>1. i - 1 \in D /\ i \in D /\ f[i] = f[i - 1] \o seqs[i]
        BY <2>2, <2>10, <3>1, <3>3
      <4>2. Right(i - 1)
        <5>1. ~(i <= i - 1)
          BY <4>1
        <5>. HIDE DEF Right
        <5>. QED  BY <3>1, <4>1, <5>1
      <4>3. f[i] \in V /\ ToSet(f[i]) = ToSet(f[i - 1]) \cup ToSet(seqs[i])
        <5>1. f[i - 1] \in V /\ seqs[i] \in V
          BY <1>1, <4>1, <4>2
        <5>. QED  BY <4>1, <5>1, JoinedElements DEF V
      <4>4. 1 .. i = (1 .. i - 1) \cup {i}
        BY <4>1
      <4>5. Elements(i) = Elements(i - 1) \cup ToSet(seqs[i])
        BY <4>4
      <4>6. Right(i)
        <5>. HIDE DEF Elements
        <5>. QED  BY <4>2, <4>3, <4>5
      <4>. HIDE DEF Right
      <4>. QED  BY <3>1, <4>6
    <3>. QED  BY <3>2, <3>3
  <2>12. n \in D
    BY <1>1, <1>3
  <2>13. Right(n)
    <3>. HIDE DEF Right
    <3>. QED  BY <2>11, <2>12
  <2>. QED  BY <1>1, <2>9, <2>13 DEF V
<1>. QED  BY <1>2, <1>3

\* New variables for names that have none, and nothing else.
NamesCreated(names) ==
    \E list \in Seq(Names) :
        /\ ToSet(list) = names
        /\ register(new_variables(list))
        /\ UNCHANGED <<state_variable_count, state_variables, input_variables, output_variables>>

\* The names of a line of a GR(1) file.
NamesOfLine(line) ==
    IF Constant(line) THEN {} ELSE {variable_name(line, word) : word \in ToSet(line)}

Created(names) == {Creates(name) : name \in names}

\* A list that is made element by element.
LEMMA MappedList ==
    ASSUME NEW S, NEW s \in Seq(S), NEW T, NEW t, DOMAIN t = DOMAIN s, t = [i \in DOMAIN s |-> t[i]],
           \A i \in DOMAIN s : t[i] \in T
    PROVE  t \in Seq(T) /\ Len(t) = Len(s) /\ ToSet(t) = {t[i] : i \in DOMAIN s}
<1>1. Len(s) \in Nat /\ DOMAIN s = 1 .. Len(s)
  BY LenProperties
<1>2. t \in [1 .. Len(s) -> T]
  BY <1>1
<1>. QED  BY <1>1, <1>2, SeqDef DEF ToSet

\* What is read of a line that is long enough.
LEMMA EventsOfLine ==
    ASSUME NEW line \in Seq(STRING),
           Negated(line) /\ ~Constant(line) => \A word \in ToSet(line) : ~(Len(word) < 2)
    PROVE  /\ events_of_line(line) \in Seq(Created(NamesOfLine(line)))
           /\ ToSet(events_of_line(line)) = Created(NamesOfLine(line))
<1>2. CASE Constant(line)
  <2>1. events_of_line(line) = <<>> /\ NamesOfLine(line) = {}
    BY <1>2 DEF events_of_line, NamesOfLine
  <2>. QED  BY <2>1, EmptySeq DEF ToSet, Created
<1>3. CASE ~Constant(line)
  <2>. DEFINE t == [i \in DOMAIN line |-> Creates(variable_name(line, line[i]))]
  <2>1. \A i \in DOMAIN line : line[i] \in ToSet(line)
    BY DEF ToSet
  <2>2. events_of_line(line) = t
    <3>1. \A i \in DOMAIN line : ~(Negated(line) /\ Len(line[i]) < 2)
      BY <1>3, <2>1
    <3>. QED  BY <1>3, <3>1 DEF events_of_line
  <2>3. \A i \in DOMAIN line : t[i] \in Created(NamesOfLine(line))
    BY <1>3, <2>1 DEF Created, NamesOfLine
  <2>4. t = [i \in DOMAIN line |-> t[i]] /\ DOMAIN t = DOMAIN line
    OBVIOUS
  <2>5. {t[i] : i \in DOMAIN line} = Created(NamesOfLine(line))
    <3>1. {t[i] : i \in DOMAIN line} = {Creates(variable_name(line, word)) : word \in ToSet(line)}
      BY DEF ToSet
    <3>2. Created(NamesOfLine(line)) = {Creates(variable_name(line, word)) : word \in ToSet(line)}
      BY <1>3 DEF Created, NamesOfLine
    <3>. QED  BY <3>1, <3>2
  <2>. HIDE DEF t
  <2>6. t \in Seq(Created(NamesOfLine(line))) /\ ToSet(t) = {t[i] : i \in DOMAIN line}
    BY <2>3, <2>4, MappedList
  <2>. QED  BY <2>2, <2>5, <2>6
<1>. QED  BY <1>2, <1>3

LinesOf(a_file) == UNION {ToSet(block.lines) : block \in ToSet(a_file)}

NamesOfLines(lines) == UNION {NamesOfLine(line) : line \in lines}

LongEnough(lines) ==
    \A line \in lines : (Negated(line) /\ ~Constant(line)) =>
        \A word \in ToSet(line) : ~(Len(word) < 2)

Blocks == [player : STRING, lines : Seq(Seq(STRING))]

Players == {"Env", "Agn"}

events_of_file(a_file) == FlattenSeq([b \in DOMAIN a_file |-> events_of_block(a_file[b])])

\* What can come of reading a file whose negated words are long enough.
Events(names) == Created(names) \cup {Throws("runtime_error")}

\* What is read of a block for a player.
LEMMA EventsOfBlock ==
    ASSUME NEW block \in Blocks, LongEnough(ToSet(block.lines)), block.player \in Players
    PROVE  /\ events_of_block(block) \in Seq(Created(NamesOfLines(ToSet(block.lines))))
           /\ ToSet(events_of_block(block)) = Created(NamesOfLines(ToSet(block.lines)))
<1>. DEFINE lines == block.lines
            X == NamesOfLines(ToSet(lines))
            E == Created(X)
            t == [l \in DOMAIN lines |-> events_of_line(lines[l])]
            S == Seq(STRING)
<1>1. lines \in Seq(S) /\ \A l \in DOMAIN lines : lines[l] \in S /\ lines[l] \in ToSet(lines)
  <2>1. lines \in Seq(S)
    BY DEF Blocks
  <2>. HIDE DEF S, lines
  <2>. QED  BY <2>1, ListElements
<1>2. events_of_block(block) = FlattenSeq(t)
  BY DEF events_of_block, Players
<1>3. ASSUME NEW l \in DOMAIN lines
      PROVE  t[l] \in Seq(E) /\ ToSet(t[l]) = Created(NamesOfLine(lines[l]))
  <2>1. /\ events_of_line(lines[l]) \in Seq(Created(NamesOfLine(lines[l])))
        /\ ToSet(events_of_line(lines[l])) = Created(NamesOfLine(lines[l]))
    BY <1>1, EventsOfLine DEF LongEnough
  <2>2. Created(NamesOfLine(lines[l])) \subseteq E
    BY <1>1 DEF Created, NamesOfLines
  <2>3. Seq(Created(NamesOfLine(lines[l]))) \subseteq Seq(E)
    BY <2>2, SeqMonotonic
  <2>4. t[l] = events_of_line(lines[l])
    OBVIOUS
  <2>. QED  BY <2>1, <2>3, <2>4
<1>4. t \in Seq(Seq(E)) /\ DOMAIN t = DOMAIN lines
  <2>. DEFINE T == Seq(E)
  <2>1. \A l \in DOMAIN lines : t[l] \in T
    BY <1>3
  <2>2. t = [l \in DOMAIN lines |-> t[l]] /\ DOMAIN t = DOMAIN lines
    OBVIOUS
  <2>. HIDE DEF T, t, S
  <2>3. t \in Seq(T)
    BY <1>1, <2>1, <2>2, MappedList
  <2>. QED  BY <2>2, <2>3 DEF T
<1>. HIDE DEF t
<1>5. FlattenSeq(t) \in Seq(E) /\ ToSet(FlattenSeq(t)) = UNION {ToSet(t[l]) : l \in DOMAIN t}
  <2>. HIDE DEF E
  <2>. QED  BY <1>4, FlattenElements
<1>6. UNION {ToSet(t[l]) : l \in DOMAIN t} = E
  <2>1. \A l \in DOMAIN lines : ToSet(t[l]) \subseteq E
    BY <1>1, <1>3 DEF Created, NamesOfLines
  <2>2. ASSUME NEW e \in E PROVE \E l \in DOMAIN lines : e \in ToSet(t[l])
    <3>1. PICK name \in X : e = Creates(name)
      BY DEF Created
    <3>2. PICK line \in ToSet(lines) : name \in NamesOfLine(line)
      BY DEF NamesOfLines
    <3>3. PICK l \in DOMAIN lines : line = lines[l]
      BY <3>2 DEF ToSet
    <3>. QED  BY <1>3, <3>1, <3>2, <3>3 DEF Created
  <2>. QED  BY <1>4, <2>1, <2>2
<1>. QED  BY <1>2, <1>5, <1>6

\* What is read of a file, with an exception for a block of nobody.
LEMMA EventsOfFile ==
    ASSUME NEW a_file \in Seq(Blocks), LongEnough(LinesOf(a_file))
    PROVE  /\ events_of_file(a_file) \in Seq(Events(NamesOfLines(LinesOf(a_file))))
           /\ (\A block \in ToSet(a_file) : block.player \in Players) =>
                    ToSet(events_of_file(a_file)) = Created(NamesOfLines(LinesOf(a_file)))
           /\ (\E block \in ToSet(a_file) : block.player \notin Players) =>
                    Throws("runtime_error") \in ToSet(events_of_file(a_file))
<1>. DEFINE X == NamesOfLines(LinesOf(a_file))
            E == Events(X)
            t == [b \in DOMAIN a_file |-> events_of_block(a_file[b])]
            Own(b) == Created(NamesOfLines(ToSet(a_file[b].lines)))
<1>1. \A b \in DOMAIN a_file : a_file[b] \in Blocks /\ a_file[b] \in ToSet(a_file)
  <2>. HIDE DEF Blocks
  <2>. QED  BY ListElements
<1>2. \A b \in DOMAIN a_file : LongEnough(ToSet(a_file[b].lines)) /\ Own(b) \subseteq Created(X)
  BY <1>1 DEF LongEnough, LinesOf, NamesOfLines, Created
<1>3. ASSUME NEW b \in DOMAIN a_file
      PROVE  /\ t[b] \in Seq(E)
             /\ a_file[b].player \in Players => ToSet(t[b]) = Own(b)
             /\ a_file[b].player \notin Players => ToSet(t[b]) = {Throws("runtime_error")}
  <2>1. t[b] = events_of_block(a_file[b])
    OBVIOUS
  <2>2. CASE a_file[b].player \in Players
    <3>1. t[b] \in Seq(Own(b)) /\ ToSet(t[b]) = Own(b)
      BY <1>1, <1>2, <2>1, <2>2, EventsOfBlock
    <3>2. Own(b) \subseteq E
      BY <1>2 DEF Events
    <3>3. t[b] \in Seq(E)
      <4>. HIDE DEF E, Own, t
      <4>. QED  BY <3>1, <3>2, SeqMonotonic
    <3>. QED  BY <2>2, <3>1, <3>3
  <2>3. CASE a_file[b].player \notin Players
    <3>1. t[b] = <<Throws("runtime_error")>>
      BY <2>1, <2>3 DEF events_of_block, Players
    <3>2. Throws("runtime_error") \in E
      BY DEF Events
    <3>. HIDE DEF t, E
    <3>3. t[b] \in Seq(E)
      BY <3>1, <3>2
    <3>4. ToSet(t[b]) = {Throws("runtime_error")}
      <4>1. DOMAIN t[b] = {1} /\ t[b][1] = Throws("runtime_error")
        BY <3>1
      <4>. QED  BY <4>1 DEF ToSet
    <3>. QED  BY <2>3, <3>3, <3>4
  <2>. QED  BY <2>2, <2>3
<1>4. t \in Seq(Seq(E)) /\ DOMAIN t = DOMAIN a_file
  <2>. DEFINE T == Seq(E)
  <2>1. \A b \in DOMAIN a_file : t[b] \in T
    BY <1>3
  <2>2. t = [b \in DOMAIN a_file |-> t[b]] /\ DOMAIN t = DOMAIN a_file
    OBVIOUS
  <2>. HIDE DEF T, t, Blocks
  <2>3. t \in Seq(T)
    BY <2>1, <2>2, MappedList
  <2>. QED  BY <2>2, <2>3 DEF T
<1>5. events_of_file(a_file) = FlattenSeq(t)
  BY DEF events_of_file
<1>. HIDE DEF t
<1>6. FlattenSeq(t) \in Seq(E) /\ ToSet(FlattenSeq(t)) = UNION {ToSet(t[b]) : b \in DOMAIN t}
  <2>. HIDE DEF E
  <2>. QED  BY <1>4, FlattenElements
<1>7. ASSUME \A block \in ToSet(a_file) : block.player \in Players
      PROVE  UNION {ToSet(t[b]) : b \in DOMAIN t} = Created(X)
  <2>1. \A b \in DOMAIN a_file : ToSet(t[b]) = Own(b)
    BY <1>1, <1>3, <1>7
  <2>2. ASSUME NEW e \in Created(X) PROVE \E b \in DOMAIN a_file : e \in Own(b)
    <3>1. PICK name \in X : e = Creates(name)
      BY DEF Created
    <3>2. PICK line \in LinesOf(a_file) : name \in NamesOfLine(line)
      BY DEF NamesOfLines
    <3>3. PICK b \in DOMAIN a_file : line \in ToSet(a_file[b].lines)
      BY <3>2 DEF LinesOf, ToSet
    <3>. QED  BY <3>1, <3>2, <3>3 DEF Created, NamesOfLines
  <2>. QED  BY <1>2, <1>4, <2>1, <2>2
<1>8. ASSUME NEW block \in ToSet(a_file), block.player \notin Players
      PROVE  Throws("runtime_error") \in UNION {ToSet(t[b]) : b \in DOMAIN t}
  <2>1. PICK b \in DOMAIN a_file : block = a_file[b]
    BY DEF ToSet
  <2>. QED  BY <1>3, <1>4, <1>8, <2>1
<1>. QED  BY <1>5, <1>6, <1>7, <1>8

\* Events that all create give the list of their names.
LEMMA NamesOfEvents ==
    ASSUME NEW X, NEW events \in Seq(Events(X)), ToSet(events) = Created(X),
           NEW list, list = FlattenSeq([k \in DOMAIN events |-> events[k].names])
    PROVE  list \in Seq(X) /\ ToSet(list) = X
<1>. DEFINE t == [k \in DOMAIN events |-> events[k].names]
<1>1. \A k \in DOMAIN events : events[k] \in Created(X)
  BY DEF ToSet
<1>2. ASSUME NEW k \in DOMAIN events
      PROVE  \E name \in X : events[k] = Creates(name) /\ t[k] = <<name>> /\ ToSet(t[k]) = {name}
  <2>1. PICK name \in X : events[k] = Creates(name)
    BY <1>1 DEF Created
  <2>2. t[k] = <<name>>
    BY <2>1 DEF Creates
  <2>. HIDE DEF t
  <2>3. DOMAIN t[k] = {1} /\ t[k][1] = name
    BY <2>2
  <2>4. ToSet(t[k]) = {name}
    BY <2>3 DEF ToSet
  <2>. QED  BY <2>1, <2>2, <2>4
<1>3. t \in Seq(Seq(X)) /\ DOMAIN t = DOMAIN events
  <2>. DEFINE T == Seq(X)
  <2>1. \A k \in DOMAIN events : t[k] \in T
    <3>. TAKE k \in DOMAIN events
    <3>1. PICK name \in X : t[k] = <<name>>
      BY <1>2
    <3>. HIDE DEF t
    <3>. QED  BY <3>1
  <2>2. t = [k \in DOMAIN events |-> t[k]] /\ DOMAIN t = DOMAIN events
    OBVIOUS
  <2>. HIDE DEF T, t, Events
  <2>3. t \in Seq(T)
    BY <2>1, <2>2, MappedList
  <2>. QED  BY <2>2, <2>3 DEF T
<1>4. list = FlattenSeq(t)
  OBVIOUS
<1>. HIDE DEF t
<1>5. list \in Seq(X) /\ ToSet(list) = UNION {ToSet(t[k]) : k \in DOMAIN t}
  BY <1>3, <1>4, FlattenElements
<1>6. ASSUME NEW name \in X PROVE \E k \in DOMAIN events : name \in ToSet(t[k])
  <2>1. Creates(name) \in ToSet(events)
    BY DEF Created
  <2>2. PICK k \in DOMAIN events : events[k] = Creates(name)
    BY <2>1 DEF ToSet
  <2>3. PICK other \in X : events[k] = Creates(other) /\ ToSet(t[k]) = {other}
    BY <1>2
  <2>4. other = name
    <3>1. Creates(name).names[1] = name /\ Creates(other).names[1] = other
      BY DEF Creates
    <3>. QED  BY <2>2, <2>3, <3>1
  <2>. QED  BY <2>3, <2>4
<1>7. UNION {ToSet(t[k]) : k \in DOMAIN t} = X
  <2>1. \A k \in DOMAIN events : ToSet(t[k]) \subseteq X
    BY <1>2
  <2>. QED  BY <1>3, <1>6, <2>1
<1>. QED  BY <1>5, <1>7

\* A file of which all is read creates the names of its lines; of one with another header
\* an exception comes.
LEMMA GR1FileIsRead ==
    ASSUME NEW a_file \in Seq(Blocks), LongEnough(LinesOf(a_file)),
           NamesOfLines(LinesOf(a_file)) \subseteq Names, read_from_gr1_file(a_file)
    PROVE  /\ (\A block \in ToSet(a_file) : block.player \in Players) =>
                    NamesCreated(NamesOfLines(LinesOf(a_file))) /\ exception' = "none"
           /\ (\E block \in ToSet(a_file) : block.player \notin Players) => exception' # "none"
<1>. DEFINE X == NamesOfLines(LinesOf(a_file))
            events == events_of_file(a_file)
            I == {i \in 1 .. Len(events) : events[i].throws # "none"}
            throwing == SelectInSeq(events, LAMBDA event : event.throws # "none")
            read == IF throwing = 0 THEN events ELSE SubSeq(events, 1, throwing - 1)
            list == FlattenSeq([k \in DOMAIN read |-> read[k].names])
<1>1. /\ register(new_variables(list))
      /\ throwing = 0 => exception' = "none"
      /\ throwing # 0 => exception' = events[throwing].throws
      /\ UNCHANGED <<state_variable_count, state_variables, input_variables, output_variables>>
  BY DEF read_from_gr1_file, events_of_file
<1>2. throwing = IF I # {} THEN Min(I) ELSE 0
  BY DEF SelectInSeq
<1>3. events \in Seq(Events(X))
  BY EventsOfFile
<1>. HIDE DEF throwing
<1>4. Len(events) \in Nat /\ DOMAIN events = 1 .. Len(events)
  <2>. HIDE DEF X, events
  <2>. QED  BY <1>3, LenProperties
<1>5. ASSUME \A block \in ToSet(a_file) : block.player \in Players
      PROVE  NamesCreated(X) /\ exception' = "none"
  <2>1. ToSet(events) = Created(X)
    BY <1>5, EventsOfFile
  <2>2. I = {}
    <3>1. \A i \in 1 .. Len(events) : events[i] \in Created(X)
      BY <1>4, <2>1 DEF ToSet
    <3>2. \A event \in Created(X) : event.throws = "none"
      BY DEF Created, Creates
    <3>. HIDE DEF X, events
    <3>. QED  BY <3>1, <3>2
  <2>3. throwing = 0 /\ read = events
    BY <1>2, <2>2
  <2>4. list \in Seq(X) /\ ToSet(list) = X
    <3>1. list = FlattenSeq([k \in DOMAIN events |-> events[k].names])
      BY <2>3
    <3>. HIDE DEF X, events, list
    <3>. QED  BY <1>3, <2>1, <3>1, NamesOfEvents
  <2>. HIDE DEF X, list
  <2>5. list \in Seq(Names)
    <3>1. X \subseteq Names
      BY DEF X
    <3>. QED  BY <2>4, <3>1, SeqMonotonic
  <2>. QED  BY <1>1, <2>3, <2>4, <2>5 DEF NamesCreated
<1>6. ASSUME NEW block \in ToSet(a_file), block.player \notin Players
      PROVE  exception' # "none"
  <2>1. Throws("runtime_error") \in ToSet(events)
    BY <1>6, EventsOfFile
  <2>2. PICK i \in 1 .. Len(events) : events[i] = Throws("runtime_error")
    BY <1>4, <2>1 DEF ToSet
  <2>3. i \in I
    BY <2>2 DEF Throws
  <2>4. Min(I) \in I
    <3>1. I \in SUBSET Nat /\ I # {}
      BY <2>3
    <3>. HIDE DEF I
    <3>2. \E m \in I : \A k \in I : m <= k
      BY <3>1, LeastNumber
    <3>. QED  BY <3>2 DEF Min
  <2>5. throwing \in I /\ throwing # 0
    <3>1. \A k \in I : k # 0
      OBVIOUS
    <3>. HIDE DEF I
    <3>. QED  BY <1>2, <2>3, <2>4, <3>1
  <2>. QED  BY <1>1, <2>5
<1>. QED  BY <1>5, <1>6

AllStateNames == {StateName(k) : k \in Nat}

\* The names that were given to variables other than those of states.
Named == Known \ AllStateNames

\* The manager while a run goes on: no variable is null, the variables of groups have
\* the names of state variables, and the others are as many as their names.
ManagerFacts ==
    /\ DictionaryInv
    /\ NextNamesAreFree
    /\ \A name \in Known : name_to_variable[name] \in Indices
    /\ state_variables \in Seq(Seq(Nat))
    /\ \A id \in DOMAIN state_variables : \A variable \in Variables(id) :
            variable \in Indices /\ index_to_name[variable] \in AllStateNames
    /\ IsFiniteSet(Named)
    /\ bdd_size = state_variable_count + Cardinality(Named)

\* The variables of a group keep their names.
LEMMA GroupsStayNamed ==
    ASSUME ManagerFacts, DictionaryInv', EntriesStay, NEW id \in DOMAIN state_variables,
           NEW variable \in Variables(id)
    PROVE  variable \in Indices' /\ index_to_name'[variable] \in AllStateNames
<1>1. variable \in Indices /\ index_to_name[variable] \in AllStateNames
  BY DEF ManagerFacts
<1>2. PICK n \in Nat : bdd_size' = bdd_size + n
  BY DEF EntriesStay
<1>3. bdd_size \in Nat
  BY DEF ManagerFacts, DictionaryInv
<1>4. variable \in Indices'
  BY <1>1, <1>2, <1>3 DEF Indices
<1>. QED  BY <1>1, <1>4 DEF EntriesStay

\* The manager after names were created.
LEMMA AfterNames ==
    ASSUME ManagerFacts, NEW X, NamesCreated(X), X \cap AllStateNames = {}
    PROVE  ManagerFacts' /\ EntriesStay /\ Known' = Known \cup X /\ Named' = Named \cup X
<1>1. PICK list \in Seq(Names) :
            /\ ToSet(list) = X
            /\ register(new_variables(list))
            /\ UNCHANGED <<state_variable_count, state_variables>>
  BY DEF NamesCreated
<1>. DEFINE F == fresh(list)
            n == Cardinality(F)
            T == bdd_size .. bdd_size + n - 1
            v == new_variables(list)
<1>2. F \in SUBSET Names /\ F \cap Known = {} /\ IsFiniteSet(F) /\ n \in Nat /\ F = X \ Known
  BY <1>1, FreshNames DEF fresh
<1>3. bdd_size \in Nat /\ state_variable_count \in Nat
  BY DEF ManagerFacts, DictionaryInv, NextNamesAreFree
<1>4. v \in Bijection(F, T)
  BY <1>3, NewVariables
<1>5. /\ bdd_size' = bdd_size + n /\ Known' = Known \cup F
      /\ DictionaryInv' /\ EntriesStay
      /\ \A d \in F : name_to_variable'[d] = v[d]
  <2>. HIDE DEF F, v
  <2>1. register(v)
    BY <1>1 DEF v
  <2>. HIDE DEF n
  <2>2. Cardinality(F) = n
    BY DEF n
  <2>. QED  BY <1>2, <1>4, <2>1, <2>2, Registered DEF ManagerFacts
<1>6. \A d \in F : name_to_variable'[d] \in Indices'
  <2>1. T \subseteq Indices'
    <3>. HIDE DEF n
    <3>. QED  BY <1>2, <1>3, <1>5 DEF Indices
  <2>2. \A d \in F : v[d] \in T
    <3>. HIDE DEF F, T, v
    <3>. QED  BY <1>4, Fun_BijectionProperties, Fun_SurjectionProperties DEF Bijection, Surjection
  <2>. QED  BY <1>5, <2>1, <2>2
<1>7. \A name \in Known' : name_to_variable'[name] \in Indices'
  <2>1. Indices \subseteq Indices'
    BY <1>2, <1>3, <1>5 DEF Indices
  <2>. QED  BY <1>5, <1>6, <2>1 DEF EntriesStay, ManagerFacts
<1>8. NextNamesAreFree'
  <2>1. \A k \in Nat : StateName(k) \notin X
    BY DEF AllStateNames
  <2>. QED  BY <1>1, <1>2, <1>5, <2>1 DEF NextNamesAreFree, ManagerFacts
<1>9. Known' = Known \cup X /\ Named' = Named \cup F /\ Named' = Named \cup X /\ Named \cap F = {}
  BY <1>2, <1>5 DEF Named
<1>10. IsFiniteSet(Named') /\ bdd_size' = state_variable_count' + Cardinality(Named')
  <2>1. IsFiniteSet(Named) /\ bdd_size = state_variable_count + Cardinality(Named)
        /\ Cardinality(Named) \in Nat
    BY FS_CardinalityType DEF ManagerFacts
  <2>2. /\ IsFiniteSet(Named \cup F)
        /\ Cardinality(Named \cup F) =
                Cardinality(Named) + Cardinality(F) - Cardinality(Named \cap F)
    BY <1>2, <2>1, FS_Union
  <2>3. Cardinality(Named') = Cardinality(Named) + n
    <3>1. Cardinality(Named \cap F) = 0
      BY <1>9, FS_EmptySet
    <3>2. Cardinality(Named') = Cardinality(Named \cup F)
      BY <1>9
    <3>3. Cardinality(F) = n
      OBVIOUS
    <3>. HIDE DEF F, n
    <3>. QED  BY <1>2, <2>1, <2>2, <3>1, <3>2, <3>3
  <2>. QED  BY <1>1, <1>2, <1>3, <1>5, <1>9, <2>1, <2>2, <2>3
<1>11. /\ state_variables' \in Seq(Seq(Nat))
       /\ \A id \in DOMAIN state_variables' : \A variable \in Variables(id)' :
              variable \in Indices' /\ index_to_name'[variable] \in AllStateNames
  <2>1. DOMAIN state_variables' = DOMAIN state_variables
        /\ \A id \in DOMAIN state_variables : Variables(id)' = Variables(id)
    BY <1>1 DEF Variables
  <2>. QED  BY <1>1, <1>5, <2>1, GroupsStayNamed DEF ManagerFacts
<1>. QED  BY <1>5, <1>7, <1>8, <1>9, <1>10, <1>11 DEF ManagerFacts, AllStateNames

\* The manager after a group of state variables was created: no name has got a variable.
LEMMA AfterStates ==
    ASSUME StateNamesAreDistinct, ManagerFacts, NEW c \in Nat, create_state_variables(c)
    PROVE  ManagerFacts' /\ EntriesStay /\ Known \subseteq Known' /\ Named' = Named
<1>1. /\ register(state_names(c))
      /\ state_variables' = Append(state_variables, new_state_variables(c))
      /\ state_variable_count' = state_variable_count + c
  BY DEF create_state_variables
<1>2. DictionaryInv /\ NextNamesAreFree /\ bdd_size \in Nat /\ state_variable_count \in Nat
  BY DEF ManagerFacts, DictionaryInv, NextNamesAreFree
<1>3. /\ Known' = Known \cup NewStateNames(c)
      /\ bdd_size' = bdd_size + c
      /\ DictionaryInv' /\ EntriesStay
      /\ \A i \in 0 .. c - 1 :
            name_to_variable'[StateName(state_variable_count + i)] = bdd_size + i
  BY <1>1, <1>2, StateVariablesRegistered
<1>4. NextNamesAreFree'
  BY <1>1, <1>2, <1>3, NextNamesStayFree
<1>5. NewStateNames(c) \subseteq AllStateNames
  <2>1. \A i \in 0 .. c - 1 : state_variable_count + i \in Nat
    BY <1>2
  <2>. QED  BY <2>1 DEF NewStateNames, AllStateNames
<1>6. Named' = Named
  BY <1>3, <1>5 DEF Named, AllStateNames
<1>7. IsFiniteSet(Named') /\ bdd_size' = state_variable_count' + Cardinality(Named')
  <2>1. IsFiniteSet(Named) /\ bdd_size = state_variable_count + Cardinality(Named)
        /\ Cardinality(Named) \in Nat
    BY FS_CardinalityType DEF ManagerFacts
  <2>. QED  BY <1>1, <1>2, <1>3, <1>6, <2>1
<1>8. \A name \in Known' : name_to_variable'[name] \in Indices'
  <2>1. Indices \subseteq Indices' /\ \A i \in 0 .. c - 1 : bdd_size + i \in Indices'
    BY <1>2, <1>3 DEF Indices
  <2>2. \A name \in NewStateNames(c) : name_to_variable'[name] \in Indices'
    BY <1>3, <2>1 DEF NewStateNames
  <2>. QED  BY <1>3, <2>1, <2>2 DEF EntriesStay, ManagerFacts
<1>9. /\ state_variables' \in Seq(Seq(Nat))
      /\ \A id \in DOMAIN state_variables' : \A variable \in Variables(id)' :
             variable \in Indices' /\ index_to_name'[variable] \in AllStateNames
  <2>. DEFINE group == new_state_variables(c)
              S == Seq(Nat)
  <2>1. group \in [1 .. c -> Nat] /\ \A i \in 1 .. c : group[i] = bdd_size + i - 1
    BY <1>2 DEF new_state_variables
  <2>2. group \in S /\ DOMAIN group = 1 .. c
    BY <2>1, SeqDef
  <2>. HIDE DEF group
  <2>3. state_variables \in Seq(S)
    BY DEF ManagerFacts
  <2>. HIDE DEF S
  <2>4. PICK m \in Nat : m = Len(state_variables) /\ DOMAIN state_variables = 1 .. m
    BY <2>3, LenProperties
  <2>5. /\ state_variables' \in Seq(S) /\ Len(state_variables') = m + 1
        /\ \A i \in 1 .. m : state_variables'[i] = state_variables[i]
        /\ state_variables'[m + 1] = group
    BY <1>1, <2>2, <2>3, <2>4, AppendProperties DEF group
  <2>6. DOMAIN state_variables' = 1 .. m + 1
    BY <2>5, LenProperties
  <2>7. ASSUME NEW id \in 1 .. m, NEW variable \in Variables(id)'
        PROVE  variable \in Indices' /\ index_to_name'[variable] \in AllStateNames
    <3>1. variable \in Variables(id)
      BY <2>5, <2>7 DEF Variables
    <3>. QED  BY <1>3, <2>4, <3>1, GroupsStayNamed
  <2>8. ASSUME NEW variable \in Variables(m + 1)'
        PROVE  variable \in Indices' /\ index_to_name'[variable] \in AllStateNames
    <3>1. PICK i \in 1 .. c : variable = bdd_size + i - 1
      <4>1. Variables(m + 1)' = ToSet(group)
        BY <2>5 DEF Variables
      <4>2. PICK i \in 1 .. c : variable = group[i]
        BY <2>2, <2>8, <4>1 DEF ToSet
      <4>. QED  BY <2>1, <4>2
    <3>2. i - 1 \in 0 .. c - 1 /\ variable = bdd_size + (i - 1)
      BY <1>2, <3>1
    <3>. DEFINE name == StateName(state_variable_count + (i - 1))
    <3>3. name_to_variable'[name] = variable /\ name \in NewStateNames(c)
      BY <1>3, <3>2 DEF NewStateNames
    <3>4. variable \in Indices'
      BY <1>2, <1>3, <3>2 DEF Indices
    <3>5. index_to_name'[variable] = name
      BY <1>3, <3>3, <3>4 DEF DictionaryInv
    <3>. QED  BY <1>5, <3>3, <3>4, <3>5
  <2>9. \A id \in 1 .. m + 1 : id \in 1 .. m \/ id = m + 1
    BY <2>4
  <2>10. \A id \in 1 .. m + 1 : \A variable \in Variables(id)' :
             variable \in Indices' /\ index_to_name'[variable] \in AllStateNames
    <3>. TAKE id \in 1 .. m + 1
    <3>1. CASE id \in 1 .. m
      BY <2>7, <3>1
    <3>2. CASE id = m + 1
      BY <2>8, <3>2
    <3>. QED  BY <2>9, <3>1, <3>2
  <2>. QED  BY <2>5, <2>6, <2>10 DEF S
<1>. QED  BY <1>3, <1>4, <1>6, <1>7, <1>8, <1>9 DEF ManagerFacts, AllStateNames

-----------------------------------------------------------------------------
(* The names that have been read *)

\* No name of a command line is that of a state variable, and none is empty, as a list of
\* names that was not read is one empty name.
FilesNameNoStates ==
    /\ "" \notin AllStateNames
    /\ \A line \in CommandLines :
            LET names == UNION {ToSet(line.args.inputs), ToSet(line.args.outputs),
                                Atoms(line.args.formula), Atoms(line.args.agn_safety),
                                Atoms(line.args.env_safety), NamesSaid(line.args.says)}
            IN  names \subseteq Names \ (AllStateNames \cup {""})

\* The formulas whose automata have been built, or are being built, when n steps are left.
FormulasRead(n) ==
    {formulas(command, args)[i] :
        i \in 1 .. Len(formulas(command, args)) - AutomataLeft(command, n - 1)}

\* The names that have been read when n steps are left.
NamesRead(n) ==
    (IF n < Len(steps(command)) THEN Inputs ELSE {})
    \cup (IF n < Len(steps(command)) - 1 THEN Outputs ELSE {})
    \cup (UNION {Atoms(f) : f \in FormulasRead(n)})
    \cup (IF command = "gr1" /\ n < 3 THEN NamesSaid(args.says) ELSE {})

\* The names that the next step reads.
NamesOfStep ==
    CASE Head(todo) = "inputs" -> Inputs
      [] Head(todo) = "outputs" -> Outputs
      [] Head(todo) = "names" -> Atoms(Head(automata))
      [] Head(todo) = "gr1_file" -> NamesSaid(args.says)
      [] OTHER -> {}

\* The automata that are left.
LEMMA AutomataAreLeft ==
    ASSUME RunInv, todo # <<>>
    PROVE  /\ command \in Commands
           /\ Len(todo) \in Nat /\ Len(todo) >= 1 /\ Len(todo) <= Len(steps(command))
           /\ Len(steps(command)) \in Nat /\ Len(steps(command)) >= 6
           /\ AsCounted(Head(todo), command, Len(todo), Len(steps(command)))
           /\ todo \in Seq(Steps) /\ Len(Tail(todo)) = Len(todo) - 1
           /\ automata \in Seq(Formulas) /\ Len(automata) = AutomataLeft(command, Len(todo))
           /\ Len(formulas(command, args)) = IF command = "gr1" THEN 3 ELSE 1
           /\ \A i \in 1 .. Len(automata) :
                automata[i] =
                    formulas(command, args)[Len(formulas(command, args)) - Len(automata) + i]
<1>1. command \in Commands /\ formulas(command, args) = formulas(command, file)
  BY FieldsOfFiles DEF RunInv
<1>2. Rest(command, todo) /\ FormulasLeft(command, file, automata, Len(todo))
  BY DEF RunInv, StepsInv
<1>3. Len(formulas(command, args)) = IF command = "gr1" THEN 3 ELSE 1
  BY DEF formulas
<1>4. todo \in Seq(Steps)
  BY <1>2 DEF Rest
<1>5. Len(steps(command)) >= 6
  BY <1>1, StepsOfCommands
<1>. QED  BY <1>1, <1>2, <1>3, <1>4, <1>5, RestOfSteps DEF FormulasLeft

\* A step adds its names to those that were read.
LEMMA NamesReadNext ==
    ASSUME RunInv, todo # <<>>
    PROVE  NamesRead(Len(todo) - 1) = NamesRead(Len(todo)) \cup NamesOfStep
<1>. DEFINE n == Len(todo)
            all == Len(steps(command))
            step == Head(todo)
            m == Len(formulas(command, args))
            k == AutomataLeft(command, n - 1)
            next == AutomataLeft(command, n - 2)
<1>1. /\ command \in Commands /\ n \in Nat /\ n >= 1 /\ n <= all /\ all \in Nat /\ all >= 6
      /\ AsCounted(step, command, n, all)
      /\ automata \in Seq(Formulas) /\ Len(automata) = AutomataLeft(command, n)
      /\ m = IF command = "gr1" THEN 3 ELSE 1
      /\ \A i \in 1 .. Len(automata) : automata[i] = formulas(command, args)[m - Len(automata) + i]
  BY AutomataAreLeft
<1>. HIDE DEF n, all, step, m
<1>2. step # "names" => next = k
  BY <1>1 DEF AsCounted, AutomataLeft, StatesAt
<1>3. step = "names" => next = k - 1 /\ AutomataLeft(command, n) = k /\ k \in 1 .. 3
  BY <1>1 DEF AsCounted, AutomataLeft, StatesAt
<1>4. k \in Nat /\ next \in Nat /\ m \in Nat /\ k <= 3
  BY DEF AutomataLeft, m, formulas
<1>. HIDE DEF k, next
<1>5. /\ step # "names" => FormulasRead(n - 1) = FormulasRead(n)
      /\ step = "names" => FormulasRead(n - 1) = FormulasRead(n) \cup {Head(automata)}
  <2>1. /\ FormulasRead(n) = {formulas(command, args)[i] : i \in 1 .. m - k}
        /\ FormulasRead(n - 1) = {formulas(command, args)[i] : i \in 1 .. m - next}
    <3>1. (n - 1) - 1 = n - 2
      BY <1>1
    <3>. QED  BY <3>1 DEF FormulasRead, m, k, next
  <2>2. ASSUME step = "names" PROVE FormulasRead(n - 1) = FormulasRead(n) \cup {Head(automata)}
    <3>1. /\ Len(automata) = k /\ k >= 1
          /\ Head(automata) = automata[1]
      BY <1>1, <1>3, <2>2
    <3>2. Head(automata) = formulas(command, args)[m - k + 1]
      BY <1>1, <3>1
    <3>3. k <= m
      BY <1>1, <1>3, <2>2 DEF AutomataLeft, k
    <3>4. m - next = m - k + 1 /\ 1 .. m - k + 1 = (1 .. m - k) \cup {m - k + 1}
      BY <1>3, <1>4, <2>2, <3>3
    <3>. QED  BY <2>1, <3>2, <3>4
  <2>. QED  BY <1>2, <2>1, <2>2
<1>6. /\ step = "inputs" <=> n = all
      /\ step = "outputs" <=> n = all - 1
      /\ step = "gr1_file" <=> (command = "gr1" /\ n = 3)
  BY <1>1 DEF AsCounted
<1>7. /\ n - 1 < all <=> n < all \/ n = all
      /\ n - 1 < all - 1 <=> n < all - 1 \/ n = all - 1
      /\ n - 1 < 3 <=> n < 3 \/ n = 3
  BY <1>1
<1>8. ASSUME NEW name
      PROVE  name \in NamesRead(n - 1) <=> name \in NamesRead(n) \/ name \in NamesOfStep
  <2>1. ASSUME NEW j
        PROVE  name \in NamesRead(j) <=>
                    \/ j < all /\ name \in Inputs
                    \/ j < all - 1 /\ name \in Outputs
                    \/ \E f \in FormulasRead(j) : name \in Atoms(f)
                    \/ command = "gr1" /\ j < 3 /\ name \in NamesSaid(args.says)
    <3>. DEFINE A == IF j < all THEN Inputs ELSE {}
                B == IF j < all - 1 THEN Outputs ELSE {}
                C == UNION {Atoms(f) : f \in FormulasRead(j)}
                D == IF command = "gr1" /\ j < 3 THEN NamesSaid(args.says) ELSE {}
    <3>1. NamesRead(j) = A \cup B \cup C \cup D
      BY DEF NamesRead, all
    <3>2. /\ name \in A <=> j < all /\ name \in Inputs
          /\ name \in B <=> j < all - 1 /\ name \in Outputs
          /\ name \in D <=> command = "gr1" /\ j < 3 /\ name \in NamesSaid(args.says)
      OBVIOUS
    <3>3. name \in C <=> \E f \in FormulasRead(j) : name \in Atoms(f)
      OBVIOUS
    <3>. HIDE DEF A, B, C, D
    <3>. QED  BY <3>1, <3>2, <3>3
  <2>2. name \in NamesOfStep <=>
            \/ step = "inputs" /\ name \in Inputs
            \/ step = "outputs" /\ name \in Outputs
            \/ step = "names" /\ name \in Atoms(Head(automata))
            \/ step = "gr1_file" /\ name \in NamesSaid(args.says)
    BY DEF NamesOfStep, step
  <2>3. (\E f \in FormulasRead(n - 1) : name \in Atoms(f)) <=>
            \/ \E f \in FormulasRead(n) : name \in Atoms(f)
            \/ step = "names" /\ name \in Atoms(Head(automata))
    BY <1>5
  <2>. QED  BY <1>6, <1>7, <2>1, <2>2, <2>3
<1>. QED  BY <1>8 DEF n

\* Before the first step no name has been read; when the last one is left, the formulas have
\* been read, and a GR(1) file if there is one.
LEMMA NamesReadFromStartToEnd ==
    ASSUME RunInv, todo # <<>>
    PROVE  /\ NamesRead(Len(steps(command))) = {}
           /\ Len(todo) <= 2 \/ Head(todo) = "partition" =>
                    NamesRead(Len(todo)) = Inputs \cup Outputs
                        \cup (UNION {Atoms(f) : f \in ToSet(formulas(command, args))})
                        \cup IF command = "gr1" THEN NamesSaid(args.says) ELSE {}
<1>. DEFINE n == Len(todo)
            all == Len(steps(command))
            m == Len(formulas(command, args))
<1>1. /\ command \in Commands /\ n \in Nat /\ n >= 1 /\ n <= all /\ all \in Nat /\ all >= 6
      /\ AsCounted(Head(todo), command, n, all)
      /\ m = IF command = "gr1" THEN 3 ELSE 1
  BY AutomataAreLeft
<1>2. NamesRead(all) = {}
  <2>1. AutomataLeft(command, all) = m /\ StepsAsCounted(command, all)
    BY <1>1, StepsOfCommands
  <2>2. AutomataLeft(command, all - 1) = m
    <3>1. AsCounted(steps(command)[all - all + 1], command, all, all)
      BY <2>1 DEF StepsAsCounted
    <3>2. all \notin StatesAt(command)
      BY <3>1 DEF AsCounted
    <3>. HIDE DEF all, m
    <3>. QED  BY <1>1, <2>1, <3>2 DEF AutomataLeft, StatesAt
  <2>3. FormulasRead(all) = {}
    <3>1. 1 .. m - AutomataLeft(command, all - 1) = {}
      BY <1>1, <2>2
    <3>. QED  BY <3>1 DEF FormulasRead
  <2>4. ~(all < all) /\ ~(all < all - 1) /\ ~(all < 3)
    <3>. HIDE DEF all
    <3>. QED  BY <1>1
  <2>. QED  BY <2>3, <2>4 DEF NamesRead
<1>3. ASSUME n <= 2 \/ Head(todo) = "partition"
      PROVE  NamesRead(n) = Inputs \cup Outputs
                        \cup (UNION {Atoms(f) : f \in ToSet(formulas(command, args))})
                        \cup IF command = "gr1" THEN NamesSaid(args.says) ELSE {}
  <2>. HIDE DEF n, all, m
  <2>1. n <= 3 /\ (command = "gr1" => n < 3) /\ n < all - 1 /\ n < all
    BY <1>1, <1>3 DEF AsCounted
  <2>2. AutomataLeft(command, n - 1) = 0
    BY <1>1, <2>1 DEF AutomataLeft
  <2>3. FormulasRead(n) = ToSet(formulas(command, args))
    <3>. DEFINE list == formulas(command, args)
    <3>1. DOMAIN list = 1 .. m /\ m - 0 = m
      <4>1. CASE command = "gr1"
        <5>1. list = <<args.agn_safety, args.env_safety, args.formula>>
          BY <4>1 DEF formulas
        <5>. QED  BY <1>1, <4>1, <5>1
      <4>2. CASE command # "gr1"
        <5>1. list = <<args.formula>>
          BY <4>2 DEF formulas
        <5>. QED  BY <1>1, <4>2, <5>1
      <4>. QED  BY <4>1, <4>2
    <3>2. FormulasRead(n) = {list[i] : i \in 1 .. m - AutomataLeft(command, n - 1)}
      BY DEF FormulasRead, m
    <3>. HIDE DEF list
    <3>3. FormulasRead(n) = {list[i] : i \in DOMAIN list}
      BY <2>2, <3>1, <3>2
    <3>. QED  BY <3>3 DEF ToSet, list
  <2>. QED  BY <2>1, <2>3 DEF NamesRead, all
<1>. QED  BY <1>2, <1>3

-----------------------------------------------------------------------------
(* What a step does to the variables *)

\* The manager has new variables for the names it did not know.
Grown(names) ==
    /\ ManagerFacts' /\ EntriesStay
    /\ Known \subseteq Known'
    /\ Named' = Named \cup names

LettersStay == UNCHANGED <<input_variables, output_variables>>

manager_vars == <<bdd_size, name_to_variable, index_to_name, state_variable_count, state_variables>>

\* The manager when no variable is created.
LEMMA NothingGrows ==
    ASSUME ManagerFacts, UNCHANGED manager_vars
    PROVE  Grown({})
<1>1. UNCHANGED <<Known, Indices, Named>>
  BY DEF manager_vars, Known, Indices, Named, AllStateNames
<1>2. bdd_size \in Nat
  BY DEF ManagerFacts, DictionaryInv
<1>3. EntriesStay
  <2>1. bdd_size' = bdd_size + 0
    BY <1>2 DEF manager_vars
  <2>. QED  BY <1>1, <2>1 DEF EntriesStay, manager_vars
<1>4. DictionaryInv' /\ NextNamesAreFree'
  BY <1>1 DEF ManagerFacts, DictionaryInv, NextNamesAreFree, manager_vars
<1>5. \A id \in DOMAIN state_variables : Variables(id)' = Variables(id)
  BY DEF manager_vars, Variables
<1>6. ManagerFacts'
  BY <1>1, <1>4, <1>5 DEF ManagerFacts, manager_vars, AllStateNames
<1>. QED  BY <1>1, <1>3, <1>6 DEF Grown

\* What the files may say is what the theorems assume of them.
LEMMA NamesOfFiles ==
    ASSUME FilesNameNoStates, RunInv
    PROVE  /\ Inputs \subseteq Names \ AllStateNames /\ Outputs \subseteq Names \ AllStateNames
           /\ NamesSaid(args.says) \subseteq Names \ (AllStateNames \cup {""})
           /\ \A f \in ToSet(formulas(command, args)) :
                Atoms(f) \subseteq Names \ (AllStateNames \cup {""})
           /\ ToSet(file.inputs) \subseteq Names \ (AllStateNames \cup {""})
           /\ ToSet(file.outputs) \subseteq Names \ (AllStateNames \cup {""})
           /\ args.inputs \in Seq(Names) /\ args.outputs \in Seq(Names)
           /\ Used \subseteq Names \ (AllStateNames \cup {""})
<1>1. PICK line \in CommandLines : command = line.command /\ file = line.args
  BY DEF RunInv, ArgumentsInv
<1>2. /\ args.formula = file.formula /\ args.agn_safety = file.agn_safety
      /\ args.env_safety = file.env_safety /\ args.says = file.says
      /\ file.inputs \in Seq(Names) /\ file.outputs \in Seq(Names)
  BY FieldsOfFiles DEF RunInv
<1>. DEFINE Good == Names \ (AllStateNames \cup {""})
<1>3. /\ ToSet(file.inputs) \subseteq Good /\ ToSet(file.outputs) \subseteq Good
      /\ Atoms(file.formula) \subseteq Good /\ Atoms(file.agn_safety) \subseteq Good
      /\ Atoms(file.env_safety) \subseteq Good /\ NamesSaid(file.says) \subseteq Good
  BY <1>1 DEF FilesNameNoStates
<1>4. "" \in Names \ AllStateNames
  BY EmptyNameAssumption DEF FilesNameNoStates
<1>5. ASSUME NEW call \in {"inputs", "outputs"}
      PROVE  args[call] \in Seq(Names) /\ ToSet(args[call]) \subseteq Names \ AllStateNames
  <2>1. args[call] = file[call] \/ args[call] = <<"">>
    BY DEF RunInv, ArgumentsInv
  <2>2. <<"">> \in Seq(Names)
    <3>1. "" \in Names
      BY EmptyNameAssumption
    <3>2. \A name \in Names : <<name>> \in Seq(Names)
      OBVIOUS
    <3>. QED  BY ONLY <3>1, <3>2, Zenon
  <2>3. ToSet(<<"">>) = {""}
    <3>1. DOMAIN <<"">> = {1} /\ <<"">>[1] = ""
      OBVIOUS
    <3>. QED  BY <3>1 DEF ToSet
  <2>. QED  BY <1>2, <1>3, <1>4, <2>1, <2>2, <2>3
<1>6. ToSet(formulas(command, args)) \subseteq {args.agn_safety, args.env_safety, args.formula}
  <2>1. CASE command = "gr1"
    <3>1. formulas(command, args) = <<args.agn_safety, args.env_safety, args.formula>>
      BY <2>1 DEF formulas
    <3>. QED  BY <3>1 DEF ToSet
  <2>2. CASE command # "gr1"
    <3>1. formulas(command, args) = <<args.formula>>
      BY <2>2 DEF formulas
    <3>. QED  BY <3>1 DEF ToSet
  <2>. QED  BY <2>1, <2>2
<1>7. \A f \in ToSet(formulas(command, args)) : Atoms(f) \subseteq Good
  BY <1>2, <1>3, <1>6
<1>8. NamesSaid(args.says) \subseteq Good
  BY <1>2, <1>3
<1>9. Used \subseteq Good
  <2>. HIDE DEF Good
  <2>. QED  BY <1>7, <1>8 DEF Used
<1>10. /\ Inputs \subseteq Names \ AllStateNames /\ Outputs \subseteq Names \ AllStateNames
       /\ args.inputs \in Seq(Names) /\ args.outputs \in Seq(Names)
  BY <1>5 DEF Inputs, Outputs
<1>. QED  BY <1>3, <1>7, <1>8, <1>9, <1>10

\* The manager when names are created: no letter changes.
LEMMA NamesGrow ==
    ASSUME FilesNameNoStates, RunInv, ManagerFacts, NEW X, X \cap AllStateNames = {},
           NamesCreated(X)
    PROVE  Grown(X) /\ LettersStay
<1>1. LettersStay
  BY DEF NamesCreated, LettersStay
<1>2. ManagerFacts' /\ EntriesStay /\ Known' = Known \cup X /\ Named' = Named \cup X
  BY AfterNames
<1>. QED  BY <1>1, <1>2 DEF Grown

\* A list of names becomes variables.
LEMMA ListIsCreated ==
    ASSUME NEW list \in Seq(Names), create_named_variables(list)
    PROVE  NamesCreated(ToSet(list)) /\ exception' = "none"
BY DEF create_named_variables, NamesCreated

\* What the GR(1) file says is what is read of it.
LEMMA GR1FileOfRun ==
    ASSUME FilesNameNoStates, FilesAreWellWritten, RunInv, command = "gr1",
           read_from_gr1_file(args.condition)
    PROVE  /\ (\A block \in ToSet(args.condition) : block.player \in Players) =>
                    NamesCreated(NamesSaid(args.says)) /\ exception' = "none"
           /\ (\E block \in ToSet(args.condition) : block.player \notin Players) =>
                    exception' # "none"
<1>1. PICK line \in CommandLines : command = line.command /\ file = line.args
  BY DEF RunInv, ArgumentsInv
<1>2. args.condition = line.args.condition /\ args.says = line.args.says
  BY <1>1, FieldsOfFiles DEF RunInv
<1>. DEFINE text == line.args.condition
<1>3. text \in Seq(Blocks)
  <2>1. line.args.condition \in Seq([player : STRING, lines : Seq(Seq(STRING))])
    BY CommandLinesAssumption
  <2>. QED  BY <2>1 DEF Blocks
<1>4. NamesSaid(line.args.says) = NamesOfLines(LinesOf(text)) /\ LongEnough(LinesOf(text))
  <2>. DEFINE L == LinesOf(text)
  <2>1. L = UNION {ToSet(block.lines) : block \in ToSet(line.args.condition)}
    BY DEF LinesOf
  <2>2. /\ NamesSaid(line.args.says) =
              UNION {{variable_name(l, word) : word \in ToSet(l)} : l \in {l \in L : ~Constant(l)}}
        /\ \A l \in L : Negated(l) /\ ~Constant(l) => \A word \in ToSet(l) : ~(Len(word) < 2)
    <3>. HIDE DEF L
    <3>. QED  BY <1>1, <2>1 DEF FilesAreWellWritten
  <2>3. NamesOfLines(L) =
              UNION {{variable_name(l, word) : word \in ToSet(l)} : l \in {l \in L : ~Constant(l)}}
    <3>. HIDE DEF L
    <3>. QED  BY DEF NamesOfLines, NamesOfLine
  <2>. HIDE DEF L
  <2>4. LongEnough(L)
    BY <2>2 DEF LongEnough
  <2>. QED  BY <2>2, <2>3, <2>4 DEF L
<1>5. NamesSaid(args.says) \subseteq Names
  BY NamesOfFiles
<1>. HIDE DEF text
<1>6. NamesOfLines(LinesOf(text)) \subseteq Names /\ read_from_gr1_file(text)
  BY <1>2, <1>4, <1>5 DEF text
<1>7. /\ (\A block \in ToSet(text) : block.player \in Players) =>
                    NamesCreated(NamesOfLines(LinesOf(text))) /\ exception' = "none"
      /\ (\E block \in ToSet(text) : block.player \notin Players) => exception' # "none"
  BY <1>3, <1>4, <1>6, GR1FileIsRead
<1>. QED  BY <1>2, <1>4, <1>7 DEF text

-----------------------------------------------------------------------------
(* The invariant of the names *)

\* While no exception has ended the run, the names that have variables, besides those of the
\* states, are the names that have been read.
NamesInv ==
    exception = "none" =>
        /\ ManagerFacts
        /\ todo # <<>> => Named = NamesRead(Len(todo))

\* Hypotheses on the command lines.
FilesAreAsAssumed ==
    StateNamesAreDistinct /\ FilesNameNoStates /\ FilesAreWellWritten

\* The automaton that is built is of a formula of the specification.
LEMMA FormulaOfStep ==
    ASSUME RunInv, todo # <<>>, Head(todo) = "names"
    PROVE  automata # <<>> /\ Head(automata) \in Formulas
           /\ Head(automata) \in ToSet(formulas(command, args))
<1>. DEFINE n == Len(todo)
            m == Len(formulas(command, args))
            k == Len(automata)
<1>1. /\ command \in Commands /\ n \in Nat /\ AsCounted("names", command, n, Len(steps(command)))
      /\ automata \in Seq(Formulas) /\ k = AutomataLeft(command, n)
      /\ m = IF command = "gr1" THEN 3 ELSE 1
      /\ \A i \in 1 .. k : automata[i] = formulas(command, args)[m - k + i]
  BY AutomataAreLeft
<1>. HIDE DEF n, m, k
<1>2. k >= 1 /\ k <= m
  <2>1. n - 1 \in StatesAt(command)
    BY <1>1 DEF AsCounted
  <2>. QED  BY <1>1, <2>1 DEF AutomataLeft, StatesAt
<1>3. k \in Nat /\ m \in Nat
  BY <1>1 DEF k
<1>4. automata # <<>> /\ Head(automata) = automata[1] /\ Head(automata) \in Formulas
  BY <1>1, <1>2, <1>3 DEF k
<1>5. Head(automata) = formulas(command, args)[m - k + 1] /\ m - k + 1 \in 1 .. m
  BY <1>1, <1>2, <1>3, <1>4
<1>6. DOMAIN formulas(command, args) = 1 .. m
  <2>1. CASE command = "gr1"
    <3>1. formulas(command, args) = <<args.agn_safety, args.env_safety, args.formula>>
      BY <2>1 DEF formulas
    <3>. QED  BY <1>1, <2>1, <3>1
  <2>2. CASE command # "gr1"
    <3>1. formulas(command, args) = <<args.formula>>
      BY <2>2 DEF formulas
    <3>. QED  BY <1>1, <2>2, <3>1
  <2>. QED  BY <2>1, <2>2
<1>. QED  BY <1>4, <1>5, <1>6 DEF ToSet

\* A step creates the variables of its names; only the partition changes the letters.
LEMMA ManagerOfStep ==
    ASSUME FilesAreAsAssumed, RunInv, ManagerFacts, todo # <<>>, CLINext, exception' = "none"
    PROVE  Grown(NamesOfStep) /\ (Head(todo) # "partition" => LettersStay)
<1>. USE DEF FilesAreAsAssumed
<1>0. ASSUME UNCHANGED manager_vars, NamesOfStep = {}
      PROVE  Grown(NamesOfStep)
  BY <1>0, NothingGrows
<1>1. CASE Doing("inputs") /\ create_named_variables(args.inputs)
  <2>1. Head(todo) = "inputs" /\ NamesOfStep = Inputs
    BY <1>1 DEF Doing, NamesOfStep
  <2>2. NamesCreated(ToSet(args.inputs))
    BY <1>1, NamesOfFiles, ListIsCreated
  <2>3. Grown(Inputs) /\ LettersStay
    BY <2>2, NamesOfFiles, NamesGrow DEF Inputs
  <2>. QED  BY <2>1, <2>3
<1>2. CASE Doing("outputs") /\ create_named_variables(args.outputs)
  <2>1. Head(todo) = "outputs" /\ NamesOfStep = Outputs
    BY <1>2 DEF Doing, NamesOfStep
  <2>2. NamesCreated(ToSet(args.outputs))
    BY <1>2, NamesOfFiles, ListIsCreated
  <2>3. Grown(Outputs) /\ LettersStay
    BY <2>2, NamesOfFiles, NamesGrow DEF Outputs
  <2>. QED  BY <2>1, <2>3
<1>3. CASE Doing("names") /\ create_named_variables(SetToSeq(Atoms(Head(automata))))
  <2>. DEFINE X == Atoms(Head(automata))
  <2>1. Head(todo) = "names" /\ NamesOfStep = X
    BY <1>3 DEF Doing, NamesOfStep
  <2>2. Head(automata) \in Formulas /\ Head(automata) \in ToSet(formulas(command, args))
    BY <2>1, FormulaOfStep
  <2>3. X \subseteq Names /\ X \cap AllStateNames = {} /\ IsFiniteSet(X)
    BY <2>2, NamesOfFiles, AtomsAreFinite
  <2>4. create_named_variables(SetToSeq(X))
    BY <1>3
  <2>. HIDE DEF X
  <2>5. SetToSeq(X) \in Seq(Names) /\ ToSet(SetToSeq(X)) = X
    BY <2>3, ListOfSet
  <2>6. NamesCreated(X)
    BY <2>4, <2>5, ListIsCreated
  <2>7. Grown(X) /\ LettersStay
    BY <2>3, <2>6, NamesGrow
  <2>. QED  BY <2>1, <2>7
<1>4. CASE Doing("states") /\ \E bit_count \in 0 .. 1 : create_state_variables(bit_count)
  <2>1. Head(todo) = "states" /\ NamesOfStep = {}
    BY <1>4 DEF Doing, NamesOfStep
  <2>2. PICK c \in Nat : create_state_variables(c)
    BY <1>4
  <2>3. ManagerFacts' /\ EntriesStay /\ Known \subseteq Known' /\ Named' = Named
    BY <2>2, AfterStates
  <2>4. LettersStay
    BY <2>2 DEF create_state_variables, LettersStay
  <2>. QED  BY <2>1, <2>3, <2>4 DEF Grown
<1>5. CASE read_gr1_file
  <2>1. Head(todo) = "gr1_file" /\ NamesOfStep = NamesSaid(args.says)
        /\ read_from_gr1_file(args.condition)
    BY <1>5 DEF read_gr1_file, Doing, NamesOfStep
  <2>2. command = "gr1"
    BY <2>1, AutomataAreLeft DEF AsCounted
  <2>3. NamesCreated(NamesSaid(args.says))
    BY <2>1, <2>2, GR1FileOfRun
  <2>4. NamesSaid(args.says) \cap AllStateNames = {}
    BY NamesOfFiles
  <2>5. Grown(NamesSaid(args.says)) /\ LettersStay
    BY <2>3, <2>4, NamesGrow
  <2>. QED  BY <2>1, <2>5
<1>6. CASE partition
  <2>1. Head(todo) = "partition" /\ NamesOfStep = {} /\ UNCHANGED manager_vars
    BY <1>6 DEF partition, Doing, NamesOfStep, partition_variables, manager_vars
  <2>. QED  BY <1>0, <2>1
<1>7. CASE read_assumption
  <2>1. Head(todo) = "assumption" /\ NamesOfStep = {} /\ UNCHANGED manager_vars /\ LettersStay
    BY <1>7 DEF read_assumption, Doing, NamesOfStep, load_CNF, manager_vars, LettersStay
  <2>. QED  BY <1>0, <2>1
<1>8. CASE handle_synthesis_result
  <2>1. Head(todo) = "solve" /\ NamesOfStep = {} /\ UNCHANGED manager_vars /\ LettersStay
    BY <1>8 DEF handle_synthesis_result, Doing, NamesOfStep, vars, manager_vars, LettersStay
  <2>. QED  BY <1>0, <2>1
<1>9. CASE preprocessing
  <2>1. Head(todo) = "preprocessing" /\ UNCHANGED vars
    BY <1>9, Zenon DEF preprocessing
  <2>2. NamesOfStep = {} /\ UNCHANGED manager_vars /\ LettersStay
    BY <2>1 DEF NamesOfStep, vars, manager_vars, LettersStay
  <2>. QED  BY <1>0, <2>1, <2>2
<1>10. \/ Doing("inputs") /\ create_named_variables(args.inputs)
       \/ Doing("outputs") /\ create_named_variables(args.outputs)
       \/ Doing("names") /\ create_named_variables(SetToSeq(Atoms(Head(automata))))
       \/ Doing("states") /\ \E bit_count \in 0 .. 1 : create_state_variables(bit_count)
       \/ read_gr1_file \/ partition \/ read_assumption \/ handle_synthesis_result \/ preprocessing
  BY DEF CLINext, build_var_mgr, do_dfa_construction
<1>. QED  BY <1>1, <1>2, <1>3, <1>4, <1>5, <1>6, <1>7, <1>8, <1>9, <1>10

\* What is left after a step.
LEMMA LeftAfterStep ==
    ASSUME RunInv, Run
    PROVE  /\ todo # <<>> /\ exception = "none" /\ calls = <<>> /\ UNCHANGED <<calls, failed, file>>
           /\ UNCHANGED <<command, args>>
           /\ todo' = Tail(todo) \/ todo' = <<>>
           /\ todo' # <<>> => Len(todo') = Len(todo) - 1
           /\ CLINext
<1>1. /\ CLINext /\ calls = <<>> /\ UNCHANGED <<calls, failed, file>>
  BY DEF Run
<1>2. todo # <<>> /\ UNCHANGED <<command, args>> /\ (todo' = Tail(todo) \/ todo' = <<>>)
  BY <1>1, StepsOfTheRun DEF GoesOn, AnswersEarly, Answers
<1>3. exception = "none"
  <2>1. preprocessing => exception = "none"
    BY Zenon DEF preprocessing
  <2>. QED  BY <1>1, <2>1 DEF CLINext, build_var_mgr, do_dfa_construction, read_gr1_file, partition,
                read_assumption, handle_synthesis_result, Doing
<1>4. Len(Tail(todo)) = Len(todo) - 1
  BY <1>2, AutomataAreLeft
<1>. QED  BY <1>1, <1>2, <1>3, <1>4

\* No step of a run spoils the invariant of the names.
LEMMA NamesAreRead ==
    ASSUME FilesAreAsAssumed, RunInv, NamesInv, Run
    PROVE  NamesInv'
<1>. SUFFICES ASSUME exception' = "none"
              PROVE  /\ ManagerFacts'
                     /\ todo' # <<>> => Named' = NamesRead(Len(todo))'
  BY DEF NamesInv
<1>1. /\ todo # <<>> /\ exception = "none" /\ UNCHANGED <<command, args>> /\ CLINext
      /\ todo' # <<>> => Len(todo') = Len(todo) - 1
  BY LeftAfterStep
<1>2. ManagerFacts /\ Named = NamesRead(Len(todo))
  BY <1>1 DEF NamesInv
<1>3. Grown(NamesOfStep)
  BY <1>1, <1>2, ManagerOfStep
<1>4. ASSUME todo' # <<>> PROVE Named' = NamesRead(Len(todo))'
  <2>1. NamesRead(Len(todo) - 1) = NamesRead(Len(todo)) \cup NamesOfStep
    BY <1>1, NamesReadNext
  <2>2. PICK k : k = Len(todo) - 1
    OBVIOUS
  <2>3. Len(todo') = k /\ NamesRead(k)' = NamesRead(k)
    BY <1>1, <1>4, <2>2 DEF NamesRead, FormulasRead, Inputs, Outputs
  <2>4. NamesRead(Len(todo))' = NamesRead(k)
    <3>1. NamesRead(Len(todo))' = NamesRead(k)'
      BY <2>3 DEF NamesRead, FormulasRead
    <3>. QED  BY <2>3, <3>1
  <2>. QED  BY <1>2, <1>3, <2>1, <2>2, <2>4 DEF Grown
<1>. QED  BY <1>3, <1>4 DEF Grown

-----------------------------------------------------------------------------
(* The calls of syfco *)

AllCalls == {<<"formula", "inputs", "outputs", "target">>, <<"inputs", "outputs", "target">>,
             <<"outputs", "target">>, <<"target">>, <<>>}

\* What has been read when fewer than k calls are left: the list of the file, or nothing.
ReadOf(call, k) ==
    IF Len(calls) >= k THEN call \notin failed
    ELSE args[call] = IF call \in failed THEN <<"">> ELSE split(file[call])

CallsInv ==
    /\ calls \in AllCalls
    /\ ReadOf("inputs", 3) /\ ReadOf("outputs", 2)
    /\ IsFiniteSet(failed)
    /\ calls # <<>> => Init

Call ==
    \/ read_formula
    \/ ReadNames("inputs")
    \/ ReadNames("outputs")
    \/ read_target

\* The lists are read when three calls and two are left.
LEMMA OrderOfCalls ==
    ASSUME NEW left \in AllCalls, left # <<>>
    PROVE  /\ Tail(left) \in AllCalls /\ Len(left) \in Nat /\ Len(Tail(left)) = Len(left) - 1
           /\ Len(left) >= 1
           /\ Head(left) = "inputs" <=> Len(left) = 3
           /\ Head(left) = "outputs" <=> Len(left) = 2
<1>1. CASE left = <<"formula", "inputs", "outputs", "target">>
  <2>1. Tail(left) = <<"inputs", "outputs", "target">> /\ Len(left) = 4 /\ Head(left) = "formula"
        /\ Len(<<"inputs", "outputs", "target">>) = 3
    BY <1>1
  <2>. QED  BY <2>1 DEF AllCalls
<1>2. CASE left = <<"inputs", "outputs", "target">>
  <2>1. Tail(left) = <<"outputs", "target">> /\ Len(left) = 3 /\ Head(left) = "inputs"
        /\ Len(<<"outputs", "target">>) = 2
    BY <1>2
  <2>. QED  BY <2>1 DEF AllCalls
<1>3. CASE left = <<"outputs", "target">>
  <2>1. Tail(left) = <<"target">> /\ Len(left) = 2 /\ Head(left) = "outputs"
        /\ Len(<<"target">>) = 1
    BY <1>3
  <2>. QED  BY <2>1 DEF AllCalls
<1>4. CASE left = <<"target">>
  <2>1. Tail(left) = <<>> /\ Len(left) = 1 /\ Head(left) = "target" /\ Len(<<>>) = 0
    BY <1>4
  <2>. QED  BY <2>1 DEF AllCalls
<1>. QED  BY <1>1, <1>2, <1>3, <1>4 DEF AllCalls

\* A call leaves the run alone, and of the arguments what is no list and no target.
LEMMA AfterCall ==
    ASSUME RunInv, Call
    PROVE  /\ calls # <<>> /\ calls' = Tail(calls)
           /\ UNCHANGED <<vars, todo, command, file, answer>>
           /\ UNCHANGED <<condition, automata>>
           /\ formulas(command, args)' = formulas(command, args)
           /\ args'.says = args.says /\ args'.condition = args.condition
           /\ \E call : Head(calls) = call /\ (failed' = failed \/ failed' = failed \cup {call})
<1>1. /\ calls # <<>> /\ calls' = Tail(calls) /\ UNCHANGED <<other_vars, exception, file>>
      /\ \E call : Head(calls) = call /\ (failed' = failed \/ failed' = failed \cup {call})
  BY DEF Call, read_formula, ReadNames, read_target, syfco
<1>2. UNCHANGED <<vars, todo, command, answer, condition, automata>>
  BY <1>1 DEF other_vars, vars
<1>3. \/ args' = args
      \/ \E field \in {"inputs", "outputs", "sys_first"} :
            \E some : args' = [args EXCEPT ![field] = some]
  BY DEF Call, read_formula, ReadNames, read_target, syfco
<1>4. DOMAIN args = {"inputs", "outputs", "sys_first", "formula", "agn_safety",
                     "env_safety", "condition", "says"}
  BY FieldsOfFiles DEF RunInv
<1>5. /\ args'.formula = args.formula /\ args'.agn_safety = args.agn_safety
      /\ args'.env_safety = args.env_safety
      /\ args'.says = args.says /\ args'.condition = args.condition
  BY <1>3, <1>4
<1>6. formulas(command, args)' = formulas(command, args)
  BY <1>2, <1>5 DEF formulas
<1>. QED  BY <1>1, <1>2, <1>5, <1>6

\* No step spoils what is known of the calls.
LEMMA CallsAreMade ==
    ASSUME RunInv, CallsInv, [ParserNext]_parser_vars
    PROVE  CallsInv'
<1>1. CASE UNCHANGED <<calls, failed, args, file>> /\ calls = <<>>
  BY <1>1 DEF CallsInv, ReadOf
<1>2. CASE Run
  <2>1. calls = <<>> /\ UNCHANGED <<calls, failed, args, file>>
    BY <1>2, LeftAfterStep
  <2>. QED  BY <1>1, <2>1
<1>3. CASE parse_error
  BY <1>1, <1>3 DEF parse_error
<1>4. CASE UNCHANGED parser_vars
  BY <1>4 DEF parser_vars, cli_vars, vars, CallsInv, ReadOf, Init
<1>5. CASE Call
  <2>1. /\ calls # <<>> /\ calls' = Tail(calls) /\ UNCHANGED <<vars, file>>
        /\ failed' = failed \/ failed' = failed \cup {Head(calls)}
    BY <1>5, AfterCall
  <2>2. PICK n \in Nat : n = Len(calls)
    BY <2>1, OrderOfCalls DEF CallsInv
  <2>3. /\ calls' \in AllCalls /\ Len(calls') = n - 1
        /\ Head(calls) = "inputs" <=> n = 3
        /\ Head(calls) = "outputs" <=> n = 2
    BY <2>1, <2>2, OrderOfCalls DEF CallsInv
  <2>4. IsFiniteSet(failed')
    BY <2>1, FS_AddElement DEF CallsInv
  <2>5. calls' # <<>> => Init'
    BY <2>1 DEF CallsInv, Init, vars
  <2>6. {"inputs", "outputs"} \subseteq DOMAIN args
    BY FieldsOfFiles DEF RunInv
  <2>7. ASSUME NEW call \in {"inputs", "outputs"}, NEW k \in Nat, ReadOf(call, k),
               Head(calls) = call <=> n = k
        PROVE  ReadOf(call, k)'
    <3>1. CASE n = k
      <4>1. ReadNames(call)
        BY <1>5, <2>7, <3>1 DEF Call, read_formula, ReadNames, read_target, syfco
      <4>2. \/ failed' = failed /\ args' = [args EXCEPT ![call] = split(file[call])]
            \/ failed' = failed \cup {call} /\ args' = [args EXCEPT ![call] = split(<<>>)]
        BY <4>1 DEF ReadNames, syfco
      <4>3. call \notin failed /\ ~(n - 1 >= k)
        BY <2>2, <2>7, <3>1 DEF ReadOf
      <4>4. split(<<>>) = <<"">>
        BY DEF split
      <4>. QED  BY <2>1, <2>3, <2>6, <4>2, <4>3, <4>4 DEF ReadOf
    <3>2. CASE n # k
      <4>1. args'[call] = args[call]
        <5>1. \/ args' = args
              \/ \E field : field # call /\ \E some : args' = [args EXCEPT ![field] = some]
          BY <1>5, <2>7, <3>2 DEF Call, read_formula, ReadNames, read_target, syfco
        <5>. QED  BY <2>6, <5>1
      <4>2. call \in failed' <=> call \in failed
        BY <2>1, <2>7, <3>2
      <4>3. n >= k <=> n - 1 >= k
        BY <3>2
      <4>. QED  BY <2>1, <2>2, <2>3, <2>7, <4>1, <4>2, <4>3 DEF ReadOf
    <3>. QED  BY <3>1, <3>2
  <2>8. ReadOf("inputs", 3)' /\ ReadOf("outputs", 2)'
    BY <2>3, <2>7 DEF CallsInv
  <2>. QED  BY <2>3, <2>4, <2>5, <2>8 DEF CallsInv
<1>. QED  BY <1>2, <1>3, <1>4, <1>5 DEF ParserNext, Call

\* What is known of the calls holds before the first one.
LEMMA CallsStart ==
    ASSUME ParserInit
    PROVE  CallsInv
<1>1. /\ calls = <<"formula", "inputs", "outputs", "target">> /\ failed = {} /\ Init
  BY DEF ParserInit, CLIInit
<1>2. Len(calls) = 4
  BY <1>1
<1>. QED  BY <1>1, <1>2, FS_EmptySet DEF CallsInv, ReadOf, AllCalls

\* The manager before anything is created.
LEMMA NothingIsNamed ==
    ASSUME Init
    PROVE  ManagerFacts /\ Named = {}
<1>1. Known = {} /\ Named = {} /\ state_variables = <<>> /\ bdd_size = 0 /\ state_variable_count = 0
  BY DEF Init, Known, Named
<1>2. DictionaryInv /\ NextNamesAreFree
  BY InitDictionary
<1>3. IsFiniteSet(Named) /\ Cardinality(Named) = 0
  BY <1>1, FS_EmptySet
<1>4. state_variables \in Seq(Seq(Nat)) /\ DOMAIN state_variables = {}
  <2>. DEFINE S == Seq(Nat)
  <2>. HIDE DEF S
  <2>1. <<>> \in Seq(S)
    OBVIOUS
  <2>. QED  BY <1>1, <2>1 DEF S
<1>. QED  BY <1>1, <1>2, <1>3, <1>4 DEF ManagerFacts

\* Before the first step no name has been read.
LEMMA NamesInvAtStart ==
    ASSUME RunInv, Init, todo = steps(command)
    PROVE  NamesInv
<1>1. ManagerFacts /\ Named = {}
  BY NothingIsNamed
<1>2. todo # <<>> => NamesRead(Len(todo)) = {}
  BY NamesReadFromStartToEnd
<1>. QED  BY <1>1, <1>2 DEF NamesInv

\* No step spoils the invariant of the names.
LEMMA NamesStayRead ==
    ASSUME FilesAreAsAssumed, RunInv, CallsInv, NamesInv, [ParserNext]_parser_vars
    PROVE  NamesInv'
<1>1. CASE Run
  BY <1>1, NamesAreRead
<1>2. CASE Call
  <2>1. /\ calls # <<>> /\ UNCHANGED <<vars, todo, command>>
        /\ formulas(command, args)' = formulas(command, args)
    BY <1>2, AfterCall
  <2>2. Init /\ todo = steps(command) /\ exception = "none"
    BY <2>1 DEF CallsInv, RunInv, StepsInv, Init
  <2>3. todo # <<>> => NamesRead(Len(todo)) = {} /\ Named = {}
    BY <2>2, NothingIsNamed, NamesReadFromStartToEnd
  <2>4. ManagerFacts'
    <3>1. UNCHANGED manager_vars
      BY <2>1 DEF vars, manager_vars
    <3>. QED  BY <2>2, <3>1, NothingGrows DEF Grown, NamesInv
  <2>5. ASSUME todo' # <<>> PROVE Named' = NamesRead(Len(todo))'
    <3>1. todo # <<>> /\ Named' = {}
      BY <2>1, <2>3, <2>5 DEF vars, Named, Known, AllStateNames
    <3>2. FormulasRead(Len(todo)) = FormulasRead(Len(todo))'
      BY <2>1 DEF FormulasRead
    <3>3. /\ Len(todo) = Len(steps(command)) /\ Len(todo) \in Nat /\ Len(todo) >= 6
          /\ ~(Len(todo) < Len(steps(command))) /\ ~(Len(todo) < Len(steps(command)) - 1)
          /\ ~(Len(todo) < 3)
      <4>1. Len(steps(command)) \in Nat /\ Len(steps(command)) >= 6
        BY <3>1, AutomataAreLeft
      <4>. QED  BY <2>2, <4>1
    <3>4. NamesRead(Len(todo)) = UNION {Atoms(f) : f \in FormulasRead(Len(todo))}
      BY <3>3 DEF NamesRead
    <3>5. NamesRead(Len(todo))' = UNION {Atoms(f) : f \in FormulasRead(Len(todo))'}
      BY <2>1, <3>3 DEF NamesRead
    <3>. QED  BY <2>3, <3>1, <3>2, <3>4, <3>5
  <2>. QED  BY <2>4, <2>5 DEF NamesInv
<1>3. CASE parse_error
  BY <1>3 DEF parse_error, NamesInv
<1>4. CASE UNCHANGED parser_vars
  <2>1. UNCHANGED manager_vars /\ UNCHANGED <<todo, command, args, exception>>
    BY <1>4 DEF parser_vars, cli_vars, vars, manager_vars
  <2>2. ASSUME exception = "none" PROVE ManagerFacts' /\ Named' = Named
    BY <2>1, <2>2, NothingGrows DEF Grown, NamesInv
  <2>3. todo # <<>> => NamesRead(Len(todo))' = NamesRead(Len(todo))
    BY <2>1 DEF NamesRead, FormulasRead, Inputs, Outputs
  <2>. QED  BY <2>1, <2>2, <2>3 DEF NamesInv
<1>. QED  BY <1>1, <1>2, <1>3, <1>4 DEF ParserNext, Call

\* In all runs the names that have variables, besides those of the states, are the names that
\* have been read.
THEOREM NamesInvariant ==
    ASSUME FilesAreAsAssumed
    PROVE  ParserSpec => [](CallsInv /\ NamesInv)
<1>1. ParserInit => CallsInv /\ NamesInv
  <2>1. ASSUME ParserInit PROVE RunInv /\ Init /\ todo = steps(command)
    BY <2>1, RunsStart DEF RunInv, ParserInit, CLIInit
  <2>. QED  BY <2>1, CallsStart, NamesInvAtStart
<1>2. RunInv /\ CallsInv /\ NamesInv /\ [ParserNext]_parser_vars => CallsInv' /\ NamesInv'
  BY CallsAreMade, NamesStayRead
<1>. QED  BY <1>1, <1>2, RunInvariant, PTL DEF ParserSpec

-----------------------------------------------------------------------------
(* The letters *)

Partitioned ==
    Len(todo) < IF command \in {"fairness", "stability"} THEN 3 ELSE 2

\* The variables of the names of a list.
VariablesOf(names) == [i \in DOMAIN names |-> name_to_variable[names[i]]]

\* The letters are those of the two lists, which have as many names as were read; before
\* the partition there are none.  A solver of an assumption is given the names of the file.
LettersInv ==
    (exception = "none" /\ todo # <<>>) =>
        IF Partitioned
        THEN /\ input_variables = VariablesOf(args.inputs)
             /\ output_variables = VariablesOf(args.outputs)
             /\ Inputs \cup Outputs \subseteq Named
             /\ Len(args.inputs) + Len(args.outputs) = Cardinality(Named)
             /\ (command \in {"fairness", "stability"} /\ Len(todo) < 2)
                    => NamesSaid(args.says) \subseteq Named
        ELSE input_variables = <<>> /\ output_variables = <<>>

\* Names that are known are all found.
LEMMA KnownNamesAreFound ==
    ASSUME NEW names \in Seq(Names), ToSet(names) \subseteq Known
    PROVE  variables_of(names) = VariablesOf(names)
<1>. DEFINE Found(p) == /\ ToSet(p) \subseteq Known
                        /\ p # names => names[Len(p) + 1] \notin Known
            found == CHOOSE p \in Prefixes(names) : Found(p)
<1>1. found \in Prefixes(names) /\ Found(found)
  BY KnownPrefix
<1>2. variables_of(names) = VariablesOf(found)
  BY DEF variables_of, VariablesOf
<1>. HIDE DEF found
<1>3. found = names
  <2>. SUFFICES ASSUME found # names PROVE FALSE
    OBVIOUS
  <2>1. PICK l \in 0 .. Len(names) : found = SubSeq(names, 1, l)
    BY <1>1 DEF Prefixes
  <2>2. /\ Len(names) \in Nat /\ DOMAIN names = 1 .. Len(names)
        /\ \A i \in 1 .. l : names[i] \in Names
        /\ names \in Seq(Names)
    BY LenProperties, ElementOfSeq
  <2>3. Len(found) = l
    <3>. DEFINE p == SubSeq(names, 1, l)
    <3>1. Len(p) = (IF 1 <= l THEN l - 1 + 1 ELSE 0)
      BY <2>2, SubSeqProperties
    <3>. HIDE DEF p
    <3>2. Len(p) = l
      BY <3>1
    <3>. QED  BY <2>1, <3>2 DEF p
  <2>4. l # Len(names)
    <3>1. SubSeq(names, 1, Len(names)) = names
      <4>. DEFINE p == SubSeq(names, 1, Len(names))
                  m == Len(names)
      <4>1. /\ p \in Seq(Names) /\ Len(p) = (IF 1 <= m THEN m - 1 + 1 ELSE 0)
            /\ \A i \in 1 .. m - 1 + 1 : p[i] = names[1 + i - 1]
        BY <2>2, ElementOfSeq, SubSeqProperties
      <4>. HIDE DEF p, m
      <4>2. m \in Nat /\ p \in Seq(Names) /\ Len(p) = m /\ \A i \in 1 .. m : p[i] = names[i]
        BY <2>2, <4>1 DEF m
      <4>3. p = names
        BY <2>2, <4>2, SeqEqual DEF m
      <4>. QED  BY <4>3 DEF p, m
    <3>. QED  BY <2>1, <3>1
  <2>5. l + 1 \in DOMAIN names
    <3>1. PICK m \in Nat : m = Len(names)
      BY <2>2
    <3>2. l \in 0 .. m /\ l # m
      BY <2>4, <3>1
    <3>3. l + 1 \in 1 .. m
      BY <3>2
    <3>. QED  BY <2>2, <3>1, <3>3
  <2>6. names[l + 1] \in Known
    BY <2>5 DEF ToSet
  <2>. QED  BY <1>1, <2>3, <2>6
<1>. QED  BY <1>2, <1>3

\* The variables that are not of states are as many as their names.
LEMMA NamedAreCounted ==
    ASSUME ManagerFacts
    PROVE  Cardinality(DOMAIN index_to_name) - state_variable_count = Cardinality(Named)
<1>1. /\ DOMAIN index_to_name = 0 .. bdd_size - 1 /\ bdd_size \in Nat
      /\ state_variable_count \in Nat /\ IsFiniteSet(Named)
      /\ bdd_size = state_variable_count + Cardinality(Named)
  BY DEF ManagerFacts, DictionaryInv, NextNamesAreFree, Indices
<1>2. Cardinality(0 .. bdd_size - 1) = IF 0 > bdd_size - 1 THEN 0 ELSE (bdd_size - 1) - 0 + 1
  <2>1. 0 \in Int /\ bdd_size - 1 \in Int
    BY <1>1
  <2>. QED  BY <2>1, FS_Interval
<1>3. Cardinality(Named) \in Nat
  BY <1>1, FS_CardinalityType
<1>4. Cardinality(DOMAIN index_to_name) = bdd_size
  BY <1>1, <1>2
<1>. QED  BY <1>1, <1>3, <1>4

\* Before the partition none of the letters is known.
LEMMA PartitionIsMade ==
    ASSUME FilesAreAsAssumed, RunInv, NamesInv, exception = "none", partition, exception' = "none"
    PROVE  /\ input_variables' = VariablesOf(args.inputs)'
           /\ output_variables' = VariablesOf(args.outputs)'
           /\ (Inputs \cup Outputs \subseteq Named)'
           /\ Len(args'.inputs) + Len(args'.outputs) = Cardinality(Named')
<1>1. /\ todo # <<>> /\ Head(todo) = "partition" /\ UNCHANGED <<args, command>>
      /\ partition_variables(args.inputs, args.outputs)
  BY DEF partition, Doing, run_vars
<1>2. /\ ~wrong_size(args.inputs, args.outputs)
      /\ input_variables' = variables_of(args.inputs)
      /\ ToSet(args.inputs) \cup ToSet(args.outputs) \subseteq Known
      /\ output_variables' = variables_of(args.outputs)
      /\ UNCHANGED manager_vars
  BY <1>1 DEF partition_variables, manager_vars
<1>3. ManagerFacts
  BY DEF NamesInv
<1>4. UNCHANGED <<Known, Named, Inputs, Outputs>>
  BY <1>1, <1>2 DEF manager_vars, Known, Named, AllStateNames, Inputs, Outputs
<1>5. args.inputs \in Seq(Names) /\ args.outputs \in Seq(Names)
      /\ Inputs \subseteq Names \ AllStateNames /\ Outputs \subseteq Names \ AllStateNames
  BY NamesOfFiles DEF FilesAreAsAssumed
<1>6. input_variables' = VariablesOf(args.inputs) /\ output_variables' = VariablesOf(args.outputs)
  BY <1>2, <1>5, KnownNamesAreFound
<1>7. VariablesOf(args.inputs)' = VariablesOf(args.inputs)
      /\ VariablesOf(args.outputs)' = VariablesOf(args.outputs)
  BY <1>1, <1>2 DEF VariablesOf, manager_vars
<1>8. Inputs \cup Outputs \subseteq Named
  BY <1>2, <1>5 DEF Inputs, Outputs, Named
<1>9. Len(args.inputs) + Len(args.outputs) = Cardinality(Named)
  <2>1. Len(args.inputs) + Len(args.outputs) =
            Cardinality(DOMAIN index_to_name) - state_variable_count
    BY <1>2 DEF wrong_size
  <2>2. Cardinality(DOMAIN index_to_name) - state_variable_count = Cardinality(Named)
    BY <1>3, NamedAreCounted
  <2>. QED  BY <2>1, <2>2
<1>. QED  BY <1>1, <1>4, <1>6, <1>7, <1>8, <1>9

\* The names of the words of an assumption file are what it says.
LEMMA WordsOfAssumption ==
    ASSUME FilesAreAsAssumed, RunInv, command \in {"fairness", "stability"}
    PROVE  NamesSaid(args.says) =
                UNION {{cnf_name(word) : word \in ToSet(l)} : l \in ToSet(args.condition[1].lines)}
<1>1. PICK line \in CommandLines : command = line.command /\ file = line.args
  BY DEF RunInv, ArgumentsInv
<1>2. args.condition = line.args.condition /\ args.says = line.args.says
  BY <1>1, FieldsOfFiles DEF RunInv
<1>. DEFINE text == line.args.condition
            all == UNION {ToSet(block.lines) : block \in ToSet(text)}
<1>3. /\ Len(text) = 1
      /\ NamesSaid(args.says) = UNION {{cnf_name(word) : word \in ToSet(l)} : l \in all}
  BY <1>1, <1>2 DEF FilesAreAsAssumed, FilesAreWellWritten
<1>4. DOMAIN text = {1}
  <2>1. text \in Seq([player : STRING, lines : Seq(Seq(STRING))])
    BY CommandLinesAssumption
  <2>. QED  BY <1>3, <2>1, LenProperties
<1>5. all = ToSet(text[1].lines)
  <2>1. ToSet(text) = {text[1]}
    BY <1>4 DEF ToSet
  <2>. QED  BY <2>1
<1>. QED  BY <1>2, <1>3, <1>5

\* The assumption file is only read to its end when its names are known.
LEMMA AssumptionIsRead ==
    ASSUME FilesAreAsAssumed, RunInv, read_assumption
    PROVE  exception' = "none" <=> NamesSaid(args.says) \subseteq Known
<1>1. /\ todo # <<>> /\ Head(todo) = "assumption" /\ load_CNF(args.condition)
  BY DEF read_assumption, Doing
<1>2. command \in {"fairness", "stability"}
  BY <1>1, AutomataAreLeft DEF AsCounted
<1>. DEFINE L == ToSet(args.condition[1].lines)
<1>3. exception' = "none" <=> \A l \in L : \A word \in ToSet(l) : cnf_name(word) \in Known
  BY <1>1 DEF load_CNF
<1>4. NamesSaid(args.says) = UNION {{cnf_name(word) : word \in ToSet(l)} : l \in L}
  BY <1>2, WordsOfAssumption
<1>. HIDE DEF L
<1>. QED  BY <1>3, <1>4

\* What is in one list after another.
LEMMA BothLists ==
    ASSUME NEW S, NEW s \in Seq(S), NEW t \in Seq(S)
    PROVE  /\ ToSet(s \o t) = ToSet(s) \cup ToSet(t)
           /\ IsInjective(s \o t) => /\ IsInjective(s) /\ IsInjective(t)
                                     /\ ToSet(s) \cap ToSet(t) = {}
<1>. DEFINE both == s \o t
            m == Len(s)
            n == Len(t)
<1>1. /\ m \in Nat /\ DOMAIN s = 1 .. m /\ n \in Nat /\ DOMAIN t = 1 .. n
      /\ both \in Seq(S) /\ Len(both) = m + n
      /\ \A i \in 1 .. m : both[i] = s[i]
      /\ \A i \in 1 .. n : both[m + i] = t[i]
  <2>1. m \in Nat /\ DOMAIN s = 1 .. m /\ n \in Nat /\ DOMAIN t = 1 .. n
    BY LenProperties
  <2>2. /\ both \in Seq(S) /\ Len(both) = m + n
        /\ \A i \in 1 .. m + n : both[i] = IF i <= m THEN s[i] ELSE t[i - m]
    BY ConcatProperties
  <2>. HIDE DEF both, m, n
  <2>3. \A i \in 1 .. m : both[i] = s[i]
    BY <2>1, <2>2
  <2>4. \A i \in 1 .. n : both[m + i] = t[i]
    <3>. TAKE i \in 1 .. n
    <3>1. m + i \in 1 .. m + n /\ ~(m + i <= m) /\ (m + i) - m = i
      BY <2>1
    <3>. QED  BY <2>2, <3>1
  <2>. QED  BY <2>1, <2>2, <2>3, <2>4
<1>. HIDE DEF both, m, n
<1>2. DOMAIN both = 1 .. m + n
  BY <1>1, LenProperties
<1>3. /\ \A i \in 1 .. m : i \in DOMAIN both
      /\ \A i \in 1 .. n : m + i \in DOMAIN both
      /\ \A i \in DOMAIN both : i \in 1 .. m \/ \E j \in 1 .. n : i = m + j
  <2>1. \A i \in 1 .. m + n : i \in 1 .. m \/ (i - m \in 1 .. n /\ i = m + (i - m))
    BY <1>1
  <2>2. \A i \in 1 .. m : i \in 1 .. m + n
    BY <1>1
  <2>3. \A i \in 1 .. n : m + i \in 1 .. m + n
    BY <1>1
  <2>. QED  BY <1>2, <2>1, <2>2, <2>3
<1>4. ToSet(both) = ToSet(s) \cup ToSet(t)
  <2>1. /\ \A i \in DOMAIN s : s[i] \in ToSet(both)
        /\ \A i \in DOMAIN t : t[i] \in ToSet(both)
    BY <1>1, <1>3 DEF ToSet
  <2>2. \A i \in DOMAIN both : both[i] \in ToSet(s) \cup ToSet(t)
    BY <1>1, <1>3 DEF ToSet
  <2>. QED  BY <2>1, <2>2 DEF ToSet
<1>5. ASSUME IsInjective(both)
      PROVE  IsInjective(s) /\ IsInjective(t) /\ ToSet(s) \cap ToSet(t) = {}
  <2>1. \A i, j \in DOMAIN both : both[i] = both[j] => i = j
    BY <1>5 DEF IsInjective
  <2>2. IsInjective(s)
    BY <1>1, <1>3, <2>1 DEF IsInjective
  <2>3. \A i, j \in 1 .. n : t[i] = t[j] => i = j
    <3>1. \A i, j \in 1 .. n : m + i = m + j => i = j
      BY <1>1
    <3>. QED  BY <1>1, <1>3, <2>1, <3>1
  <2>4. \A i \in 1 .. m : \A j \in 1 .. n : s[i] # t[j]
    <3>1. \A i \in 1 .. m : \A j \in 1 .. n : i # m + j
      BY <1>1
    <3>. QED  BY <1>1, <1>3, <2>1, <3>1
  <2>. QED  BY <1>1, <2>2, <2>3, <2>4 DEF IsInjective, ToSet
<1>. QED  BY <1>4, <1>5 DEF both

\* The other way round: lists without a name twice, and without one in common.
LEMMA ApartLists ==
    ASSUME NEW S, NEW s \in Seq(S), NEW t \in Seq(S), IsInjective(s), IsInjective(t),
           ToSet(s) \cap ToSet(t) = {}
    PROVE  IsInjective(s \o t)
<1>. DEFINE both == s \o t
            m == Len(s)
            n == Len(t)
<1>1. /\ m \in Nat /\ DOMAIN s = 1 .. m /\ n \in Nat /\ DOMAIN t = 1 .. n
  BY LenProperties
<1>2. /\ both \in Seq(S) /\ Len(both) = m + n
      /\ \A i \in 1 .. m + n : both[i] = IF i <= m THEN s[i] ELSE t[i - m]
  BY ConcatProperties
<1>. HIDE DEF both, m, n
<1>3. DOMAIN both = 1 .. m + n
  BY <1>1, <1>2, LenProperties
<1>4. \A i \in 1 .. m : \A j \in 1 .. n : s[i] # t[j]
  BY <1>1 DEF ToSet
<1>5. \A i, j \in 1 .. m : s[i] = s[j] => i = j
  BY <1>1 DEF IsInjective
<1>6. \A i, j \in 1 .. n : t[i] = t[j] => i = j
  BY <1>1 DEF IsInjective
<1>7. ASSUME NEW i \in 1 .. m + n
      PROVE  \/ i \in 1 .. m /\ both[i] = s[i]
             \/ i - m \in 1 .. n /\ i = m + (i - m) /\ both[i] = t[i - m]
  <2>1. CASE i <= m
    <3>1. both[i] = s[i]
      BY <1>2, <2>1
    <3>2. i \in 1 .. m
      BY <1>1, <2>1
    <3>. QED  BY <3>1, <3>2
  <2>2. CASE ~(i <= m)
    <3>1. both[i] = t[i - m]
      BY <1>2, <2>2
    <3>2. i - m \in 1 .. n /\ i = m + (i - m)
      BY <1>1, <2>2
    <3>. QED  BY <3>1, <3>2
  <2>. QED  BY <2>1, <2>2
<1>8. ASSUME NEW i \in 1 .. m + n, NEW j \in 1 .. m + n, both[i] = both[j]
      PROVE  i = j
  <2>1. CASE i \in 1 .. m /\ both[i] = s[i]
    <3>1. ~(j - m \in 1 .. n /\ j = m + (j - m) /\ both[j] = t[j - m])
      BY <1>4, <1>8, <2>1
    <3>. QED  BY <1>5, <1>7, <1>8, <2>1, <3>1
  <2>2. CASE i - m \in 1 .. n /\ i = m + (i - m) /\ both[i] = t[i - m]
    <3>1. ~(j \in 1 .. m /\ both[j] = s[j])
      BY <1>4, <1>8, <2>2
    <3>2. j - m \in 1 .. n /\ j = m + (j - m) /\ both[j] = t[j - m]
      BY <1>7, <3>1
    <3>3. i - m = j - m
      BY <1>6, <1>8, <2>2, <3>2
    <3>. QED  BY <2>2, <3>2, <3>3
  <2>. QED  BY <1>7, <2>1, <2>2
<1>9. IsInjective(both)
  BY <1>3, <1>8 DEF IsInjective
<1>. QED  BY <1>9 DEF both

\* No step spoils the letters.
LEMMA LettersAreKept ==
    ASSUME FilesAreAsAssumed, RunInv, CallsInv, NamesInv, LettersInv, [ParserNext]_parser_vars
    PROVE  LettersInv'
<1>1. CASE Run
  <2>. SUFFICES ASSUME exception' = "none", todo' # <<>>
                PROVE  LettersInv'
    BY DEF LettersInv
  <2>1. /\ todo # <<>> /\ exception = "none" /\ UNCHANGED <<command, args>> /\ CLINext
        /\ Len(todo') = Len(todo) - 1
    BY <1>1, LeftAfterStep
  <2>2. /\ command \in Commands /\ Len(todo) \in Nat /\ Len(todo) >= 1
        /\ AsCounted(Head(todo), command, Len(todo), Len(steps(command)))
    BY <2>1, AutomataAreLeft
  <2>. DEFINE fair == command \in {"fairness", "stability"}
              k == IF fair THEN 3 ELSE 2
  <2>3. Head(todo) = "partition" <=> Len(todo) = k
    BY <2>2 DEF AsCounted
  <2>4. Partitioned <=> Len(todo) < k
    BY DEF Partitioned
  <2>5. Partitioned' <=> Len(todo) - 1 < k
    BY <2>1 DEF Partitioned
  <2>6. CASE Head(todo) = "partition"
    <3>1. Partitioned' /\ ~(fair /\ Len(todo') < 2)
      BY <2>1, <2>2, <2>3, <2>5, <2>6
    <3>2. partition
      <4>1. preprocessing => Head(todo) = "preprocessing"
        BY Zenon DEF preprocessing
      <4>. QED  BY <2>1, <2>6, <4>1 DEF CLINext, build_var_mgr, do_dfa_construction, read_gr1_file,
                read_assumption, handle_synthesis_result, Doing
    <3>3. /\ input_variables' = VariablesOf(args.inputs)'
          /\ output_variables' = VariablesOf(args.outputs)'
          /\ (Inputs \cup Outputs \subseteq Named)'
          /\ Len(args'.inputs) + Len(args'.outputs) = Cardinality(Named')
      BY <2>1, <3>2, PartitionIsMade
    <3>. QED  BY <2>1, <3>1, <3>3 DEF LettersInv
  <2>7. CASE Head(todo) # "partition"
    <3>1. Grown(NamesOfStep) /\ LettersStay
      BY <2>1, <2>7, ManagerOfStep DEF NamesInv
    <3>2. Partitioned' <=> Partitioned
      <4>1. k \in Nat /\ Len(todo) # k
        BY <2>3, <2>7
      <4>. HIDE DEF k
      <4>. QED  BY <2>2, <2>4, <2>5, <4>1
    <3>3. CASE ~Partitioned
      BY <2>1, <3>1, <3>2, <3>3 DEF LettersInv, LettersStay
    <3>4. CASE Partitioned
      <4>1. Len(todo) = 2 /\ fair /\ Len(todo') = 1
        <5>1. Len(todo) < k /\ Len(todo) # 1
          <6>1. Len(todo) = 1 => todo' = <<>>
            <7>1. Len(todo) = 1 => Len(todo') = 0 /\ todo' = Tail(todo) /\ todo \in Seq(Steps)
              BY <1>1, <2>1, LeftAfterStep, AutomataAreLeft
            <7>. QED  BY <7>1
          <6>. QED  BY <2>4, <3>4, <6>1
        <5>. QED  BY <2>1, <2>2, <5>1
      <4>2. Head(todo) = "assumption"
        BY <2>2, <4>1 DEF AsCounted
      <4>3. read_assumption
        <5>1. preprocessing => Head(todo) = "preprocessing"
          BY Zenon DEF preprocessing
        <5>. QED  BY <2>1, <4>2, <5>1 DEF CLINext, build_var_mgr, do_dfa_construction, read_gr1_file,
                  partition, handle_synthesis_result, Doing
      <4>4. UNCHANGED manager_vars
        BY <4>3 DEF read_assumption, load_CNF, manager_vars
      <4>5. UNCHANGED <<Known, Named, Inputs, Outputs>>
        BY <2>1, <4>4 DEF manager_vars, Known, Named, AllStateNames, Inputs, Outputs
      <4>6. /\ VariablesOf(args.inputs)' = VariablesOf(args.inputs)
            /\ VariablesOf(args.outputs)' = VariablesOf(args.outputs)
        BY <2>1, <4>4 DEF VariablesOf, manager_vars
      <4>7. NamesSaid(args.says) \subseteq Named
        <5>1. NamesSaid(args.says) \subseteq Known
          BY <4>3, AssumptionIsRead
        <5>2. NamesSaid(args.says) \cap AllStateNames = {}
          BY NamesOfFiles DEF FilesAreAsAssumed
        <5>. QED  BY <5>1, <5>2 DEF Named
      <4>. QED  BY <2>1, <3>1, <3>2, <3>4, <4>5, <4>6, <4>7 DEF LettersInv, LettersStay
    <3>. QED  BY <3>3, <3>4
  <2>. QED  BY <2>6, <2>7
<1>2. CASE Call
  <2>1. calls # <<>> /\ UNCHANGED <<vars, todo, command>>
    BY <1>2, AfterCall
  <2>2. Init /\ todo = steps(command)
    BY <2>1 DEF CallsInv, RunInv, StepsInv
  <2>3. input_variables' = <<>> /\ output_variables' = <<>>
    BY <2>1, <2>2 DEF Init, vars
  <2>4. todo # <<>> => ~Partitioned
    BY <2>2, AutomataAreLeft DEF Partitioned
  <2>5. todo' # <<>> => ~Partitioned'
    BY <2>1, <2>4 DEF Partitioned
  <2>. QED  BY <2>3, <2>5 DEF LettersInv
<1>3. CASE parse_error
  BY <1>3 DEF parse_error, LettersInv
<1>4. CASE UNCHANGED parser_vars
  BY <1>4 DEF parser_vars, cli_vars, vars, LettersInv, Partitioned, VariablesOf, Inputs, Outputs,
              Named, Known, AllStateNames
<1>. QED  BY <1>1, <1>2, <1>3, <1>4 DEF ParserNext, Call

\* All that is known of the names, the letters and what was read of the file.
LettersInvariant == RunInv /\ CallsInv /\ NamesInv /\ LettersInv

\* From the partition on, the letters are the variables of the two lists, which have as many
\* names as were read: the invariant on which the theorems about the solvers rest.
THEOREM LettersOfRuns ==
    ASSUME FilesAreAsAssumed
    PROVE  ParserSpec => []LettersInvariant
<1>1. ParserInit => LettersInv
  <2>1. ASSUME ParserInit PROVE input_variables = <<>> /\ output_variables = <<>>
    BY <2>1 DEF ParserInit, CLIInit, Init
  <2>2. ASSUME ParserInit, todo # <<>> PROVE ~Partitioned
    <3>1. RunInv /\ todo = steps(command)
      BY <2>2, RunsStart DEF RunInv, ParserInit, CLIInit
    <3>. QED  BY <2>2, <3>1, AutomataAreLeft DEF Partitioned
  <2>. QED  BY <2>1, <2>2 DEF LettersInv
<1>2. RunInv /\ CallsInv /\ NamesInv /\ LettersInv /\ [ParserNext]_parser_vars => LettersInv'
  BY LettersAreKept
<1>. QED  BY <1>1, <1>2, RunInvariant, NamesInvariant, PTL DEF ParserSpec, LettersInvariant

\* At the solver all names have been read; if each is declared once, they are the letters.
LEMMA NamesAtSolver ==
    ASSUME FilesAreAsAssumed, LettersInvariant, AtSolver
    PROVE  /\ exception = "none" /\ todo # <<>> /\ calls = <<>> /\ ManagerFacts
           /\ Used \subseteq Named
           /\ Inputs \cup Outputs \subseteq Named
           /\ input_variables = VariablesOf(args.inputs)
           /\ output_variables = VariablesOf(args.outputs)
           /\ DeclaredOnce => Named = Inputs \cup Outputs
<1>1. exception = "none" /\ todo # <<>> /\ Head(todo) = "solve"
  <2>1. todo \in Seq(Steps)
    BY DEF LettersInvariant, RunInv, StepsInv, Rest
  <2>2. todo = <<>> => todo \o <<"end">> = <<"end">>
    OBVIOUS
  <2>3. todo # <<>> => Head(todo \o <<"end">>) = Head(todo)
    BY <2>1
  <2>. QED  BY <2>2, <2>3 DEF AtSolver
<1>2. /\ Len(todo) = 1 /\ command \in Commands /\ Len(steps(command)) >= 6
      /\ Len(steps(command)) \in Nat
  BY <1>1, AutomataAreLeft DEF LettersInvariant, AsCounted
<1>3. calls = <<>>
  <2>1. calls # <<>> => todo = steps(command)
    BY DEF LettersInvariant, RunInv, StepsInv
  <2>2. todo # steps(command)
    <3>1. PICK m \in Nat : m = Len(steps(command)) /\ m >= 6
      BY <1>2
    <3>2. m # 1
      BY ONLY <3>1, m \in Nat
    <3>3. Len(todo) # m
      BY <1>2, <3>2, Zenon
    <3>. QED  BY <3>1, <3>3, Zenon
  <2>. QED  BY <2>1, <2>2
<1>4. ManagerFacts /\ Named = NamesRead(1)
  BY <1>1, <1>2 DEF LettersInvariant, NamesInv
<1>5. Named = Inputs \cup Outputs
                \cup (UNION {Atoms(f) : f \in ToSet(formulas(command, args))})
                \cup IF command = "gr1" THEN NamesSaid(args.says) ELSE {}
  BY <1>1, <1>2, <1>4, NamesReadFromStartToEnd DEF LettersInvariant
<1>6. Partitioned
  BY <1>2 DEF Partitioned
<1>7. /\ input_variables = VariablesOf(args.inputs)
      /\ output_variables = VariablesOf(args.outputs)
      /\ Inputs \cup Outputs \subseteq Named
      /\ Len(args.inputs) + Len(args.outputs) = Cardinality(Named)
      /\ command \in {"fairness", "stability"} => NamesSaid(args.says) \subseteq Named
  <2>1. Len(todo) < 2
    BY <1>2
  <2>2. /\ input_variables = VariablesOf(args.inputs)
        /\ output_variables = VariablesOf(args.outputs)
        /\ Inputs \cup Outputs \subseteq Named
        /\ Len(args.inputs) + Len(args.outputs) = Cardinality(Named)
        /\ (command \in {"fairness", "stability"} /\ Len(todo) < 2)
                => NamesSaid(args.says) \subseteq Named
    BY <1>1, <1>6 DEF LettersInvariant, LettersInv
  <2>. QED  BY <2>1, <2>2
<1>8. Used \subseteq Named
  <2>1. command \in {"synthesis", "maxset"} \/ NamesSaid(args.says) \subseteq Named
    BY <1>2, <1>5, <1>7 DEF Commands
  <2>2. \A f \in ToSet(formulas(command, args)) : Atoms(f) \subseteq Named
    BY <1>5
  <2>. QED  BY <2>1, <2>2 DEF Used
<1>9. ASSUME DeclaredOnce PROVE Named = Inputs \cup Outputs
  <2>. DEFINE both == args.inputs \o args.outputs
  <2>1. args.inputs \in Seq(Names) /\ args.outputs \in Seq(Names)
    BY NamesOfFiles DEF FilesAreAsAssumed, LettersInvariant
  <2>2. both \in Seq(Names) /\ Len(both) = Len(args.inputs) + Len(args.outputs)
    BY <2>1, ConcatProperties
  <2>3. ToSet(both) = Inputs \cup Outputs
    BY <2>1, BothLists DEF Inputs, Outputs
  <2>4. IsInjective(both)
    BY <1>9 DEF DeclaredOnce
  <2>. HIDE DEF both
  <2>5. Cardinality(Inputs \cup Outputs) = Cardinality(Named)
    BY <1>7, <2>2, <2>3, <2>4, ListElements
  <2>6. IsFiniteSet(Named)
    BY <1>4 DEF ManagerFacts
  <2>. QED  BY <1>7, <2>5, <2>6, FS_Subset
<1>. QED  BY <1>1, <1>3, <1>4, <1>7, <1>8, <1>9

-----------------------------------------------------------------------------
(* What the solvers see *)

\* Different names have different variables.
LEMMA NamesAreApart ==
    ASSUME ManagerFacts
    PROVE  /\ \A name \in Known : /\ name_to_variable[name] \in Indices
                                  /\ index_to_name[name_to_variable[name]] = name
           /\ \A name, other \in Known :
                    name_to_variable[name] = name_to_variable[other] => name = other
           /\ \A name \in Named : \A id \in DOMAIN state_variables :
                    name_to_variable[name] \notin Variables(id)
<1>1. \A name \in Known : /\ name_to_variable[name] \in Indices
                          /\ index_to_name[name_to_variable[name]] = name
  BY DEF ManagerFacts, DictionaryInv
<1>2. ASSUME NEW name \in Named, NEW id \in DOMAIN state_variables,
             name_to_variable[name] \in Variables(id)
      PROVE  FALSE
  <2>1. index_to_name[name_to_variable[name]] \in AllStateNames
    BY <1>2 DEF ManagerFacts
  <2>. QED  BY <1>1, <2>1 DEF Named
<1>. QED  BY <1>1, <1>2

\* The variables of a list of known names: the elements are those of its names, and
\* its labels are the list.
LEMMA VariablesOfList ==
    ASSUME ManagerFacts, NEW names \in Seq(Names), ToSet(names) \subseteq Known
    PROVE  /\ VariablesOf(names) \in Seq(Indices) /\ Len(VariablesOf(names)) = Len(names)
           /\ \A i \in DOMAIN names : VariablesOf(names)[i] = name_to_variable[names[i]]
           /\ \A name \in Known :
                name_to_variable[name] \in ToSet(VariablesOf(names)) <=> name \in ToSet(names)
           /\ \A variable \in ToSet(VariablesOf(names)) :
                \E name \in ToSet(names) : variable = name_to_variable[name]
           /\ labels(VariablesOf(names)) = names
<1>. DEFINE v == VariablesOf(names)
<1>1. DOMAIN v = DOMAIN names /\ v = [i \in DOMAIN names |-> v[i]]
      /\ \A i \in DOMAIN names : v[i] = name_to_variable[names[i]]
  BY DEF VariablesOf
<1>2. \A i \in DOMAIN names : names[i] \in ToSet(names) /\ names[i] \in Known
  BY DEF ToSet
<1>. HIDE DEF v
<1>3. \A i \in DOMAIN names : v[i] \in Indices
  BY <1>1, <1>2, NamesAreApart
<1>4. v \in Seq(Indices) /\ Len(v) = Len(names)
  BY <1>1, <1>3, MappedList
<1>5. ToSet(v) = {name_to_variable[names[i]] : i \in DOMAIN names}
  BY <1>1 DEF ToSet
<1>6. ASSUME NEW name \in Known
      PROVE  name_to_variable[name] \in ToSet(v) <=> name \in ToSet(names)
  <2>1. \A i \in DOMAIN names : name_to_variable[name] = name_to_variable[names[i]] => name = names[i]
    BY <1>2, NamesAreApart
  <2>. QED  BY <1>2, <1>5, <2>1 DEF ToSet
<1>7. labels(v) = names
  <2>1. labels(v) = [i \in DOMAIN names |-> index_to_name[v[i]]]
    BY <1>1 DEF labels
  <2>2. \A i \in DOMAIN names : index_to_name[v[i]] = names[i]
    BY <1>1, <1>2, NamesAreApart
  <2>3. names = [i \in DOMAIN names |-> names[i]]
    <3>1. DOMAIN names = 1 .. Len(names) /\ names \in [1 .. Len(names) -> Names]
      BY LenProperties
    <3>. QED  BY <3>1
  <2>. QED  BY <2>1, <2>2, <2>3
<1>8. \A variable \in ToSet(v) : \E name \in ToSet(names) : variable = name_to_variable[name]
  BY <1>2, <1>5
<1>. QED  BY <1>1, <1>4, <1>6, <1>7, <1>8 DEF v

\* Two lists without a name in common, and without a name twice, have no variable twice.
LEMMA LettersAreApart ==
    ASSUME ManagerFacts, NEW s \in Seq(Names), NEW t \in Seq(Names), ToSet(s \o t) \subseteq Known,
           IsInjective(s \o t)
    PROVE  IsInjective(VariablesOf(s) \o VariablesOf(t))
<1>. DEFINE both == s \o t
            v == VariablesOf(s)
            w == VariablesOf(t)
            letters == v \o w
            m == Len(s)
            n == Len(t)
<1>1. /\ m \in Nat /\ DOMAIN s = 1 .. m /\ n \in Nat /\ DOMAIN t = 1 .. n
  BY LenProperties
<1>2. /\ both \in Seq(Names) /\ Len(both) = m + n
      /\ \A i \in 1 .. m + n : both[i] = IF i <= m THEN s[i] ELSE t[i - m]
  BY ConcatProperties
<1>3. ToSet(s) \subseteq Known /\ ToSet(t) \subseteq Known
  BY BothLists
<1>4. /\ v \in Seq(Indices) /\ Len(v) = m /\ \A i \in 1 .. m : v[i] = name_to_variable[s[i]]
      /\ w \in Seq(Indices) /\ Len(w) = n /\ \A i \in 1 .. n : w[i] = name_to_variable[t[i]]
  BY <1>1, <1>3, VariablesOfList
<1>. HIDE DEF v, w, m, n
<1>5. /\ letters \in Seq(Indices) /\ Len(letters) = m + n
      /\ \A i \in 1 .. m + n : letters[i] = IF i <= m THEN v[i] ELSE w[i - m]
  <2>1. /\ letters \in Seq(Indices) /\ Len(letters) = Len(v) + Len(w)
        /\ \A i \in 1 .. Len(v) + Len(w) : letters[i] = IF i <= Len(v) THEN v[i] ELSE w[i - Len(v)]
    BY <1>4, ConcatProperties
  <2>. QED  BY <1>4, <2>1
<1>. HIDE DEF both, letters
<1>6. \A i \in 1 .. m + n : letters[i] = name_to_variable[both[i]]
  <2>. TAKE i \in 1 .. m + n
  <2>1. CASE i <= m
    <3>1. i \in 1 .. m
      BY <1>1, <2>1
    <3>2. letters[i] = v[i] /\ both[i] = s[i]
      BY <1>2, <1>5, <2>1
    <3>. QED  BY <1>4, <3>1, <3>2
  <2>2. CASE ~(i <= m)
    <3>1. i - m \in 1 .. n
      BY <1>1, <2>2
    <3>2. letters[i] = w[i - m] /\ both[i] = t[i - m]
      BY <1>2, <1>5, <2>2
    <3>. QED  BY <1>4, <3>1, <3>2
  <2>. QED  BY <2>1, <2>2
<1>7. DOMAIN letters = 1 .. m + n /\ DOMAIN both = 1 .. m + n
  BY <1>1, <1>2, <1>5, LenProperties
<1>8. \A i \in 1 .. m + n : both[i] \in Known
  <2>1. ToSet(both) \subseteq Known
    BY DEF both
  <2>. QED  BY <1>7, <2>1 DEF ToSet
<1>9. \A i, j \in 1 .. m + n : both[i] = both[j] => i = j
  <2>1. IsInjective(both)
    BY DEF both
  <2>. QED  BY <1>7, <2>1 DEF IsInjective
<1>10. \A i, j \in 1 .. m + n : letters[i] = letters[j] => i = j
  BY <1>6, <1>8, <1>9, NamesAreApart
<1>11. IsInjective(letters)
  BY <1>7, <1>10 DEF IsInjective
<1>. QED  BY <1>11 DEF letters, v, w

\* Every name of the formulas is a letter of exactly one player when a solver is called.
THEOREM SolversSeeAllLettersTheorem ==
    ASSUME FilesAreAsAssumed
    PROVE  ParserSpec => []SolversSeeAllLetters
<1>1. ASSUME LettersInvariant PROVE SolversSeeAllLetters
  <2>. SUFFICES ASSUME DeclaredOnce, AtSolver
                PROVE  LET letters == input_variables \o output_variables
                       IN  /\ IsInjective(letters)
                           /\ \A name \in Used : name_to_variable[name] \in ToSet(letters)
                           /\ input_variable_labels = args.inputs
                           /\ output_variable_labels = args.outputs
                           /\ \A id \in DOMAIN state_variables :
                                    ToSet(letters) \cap Variables(id) = {}
    BY DEF SolversSeeAllLetters
  <2>1. /\ ManagerFacts /\ Used \subseteq Named /\ Named = Inputs \cup Outputs
        /\ input_variables = VariablesOf(args.inputs)
        /\ output_variables = VariablesOf(args.outputs)
    BY <1>1, NamesAtSolver
  <2>2. args.inputs \in Seq(Names) /\ args.outputs \in Seq(Names)
    BY <1>1, NamesOfFiles DEF FilesAreAsAssumed, LettersInvariant
  <2>3. Inputs \subseteq Known /\ Outputs \subseteq Known /\ Named \subseteq Known
    BY <2>1 DEF Named
  <2>. DEFINE v == VariablesOf(args.inputs)
              w == VariablesOf(args.outputs)
              letters == v \o w
  <2>4. IsInjective(letters)
    <3>1. ToSet(args.inputs \o args.outputs) \subseteq Known
      BY <2>2, <2>3, BothLists DEF Inputs, Outputs
    <3>. QED  BY <2>1, <2>2, <3>1, LettersAreApart DEF DeclaredOnce
  <2>5. /\ v \in Seq(Indices) /\ labels(v) = args.inputs
        /\ \A name \in Known : name_to_variable[name] \in ToSet(v) <=> name \in Inputs
        /\ \A variable \in ToSet(v) : \E name \in Inputs : variable = name_to_variable[name]
    BY <2>1, <2>2, <2>3, VariablesOfList DEF Inputs
  <2>6. /\ w \in Seq(Indices) /\ labels(w) = args.outputs
        /\ \A name \in Known : name_to_variable[name] \in ToSet(w) <=> name \in Outputs
        /\ \A variable \in ToSet(w) : \E name \in Outputs : variable = name_to_variable[name]
    BY <2>1, <2>2, <2>3, VariablesOfList DEF Outputs
  <2>. HIDE DEF v, w
  <2>7. ToSet(letters) = ToSet(v) \cup ToSet(w)
    BY <2>5, <2>6, BothLists
  <2>. HIDE DEF letters
  <2>8. \A name \in Used : name_to_variable[name] \in ToSet(letters)
    BY <2>1, <2>3, <2>5, <2>6, <2>7
  <2>9. \A id \in DOMAIN state_variables : ToSet(letters) \cap Variables(id) = {}
    <3>1. \A variable \in ToSet(letters) : \E name \in Named : variable = name_to_variable[name]
      BY <2>1, <2>5, <2>6, <2>7
    <3>. QED  BY <2>1, <3>1, NamesAreApart
  <2>10. input_variable_labels = args.inputs /\ output_variable_labels = args.outputs
    BY <2>1, <2>5, <2>6 DEF input_variable_labels, output_variable_labels, v, w
  <2>11. letters = input_variables \o output_variables
    BY <2>1 DEF letters, v, w
  <2>. QED  BY <2>4, <2>8, <2>9, <2>10, <2>11
<1>. QED  BY <1>1, LettersOfRuns, PTL

-----------------------------------------------------------------------------
(* What ends a run, and whose the letters are *)

\* What a specification that is answered is.
Declared ==
    /\ DeclaredOnce
    /\ Used \subseteq Inputs \cup Outputs
    /\ \A block \in ToSet(args.condition) : block.player \in {"Env", "Agn"}

\* No step of a run of such a specification throws.
LEMMA DeclaredStepsDoNotThrow ==
    ASSUME FilesAreAsAssumed, LettersInvariant, Declared, Run
    PROVE  exception' = "none"
<1>1. /\ todo # <<>> /\ exception = "none" /\ CLINext /\ ManagerFacts /\ RunInv /\ NamesInv
  BY LeftAfterStep DEF LettersInvariant, NamesInv
<1>2. Named = NamesRead(Len(todo))
  BY <1>1 DEF NamesInv
<1>3. CASE build_var_mgr
  BY <1>3 DEF build_var_mgr, create_named_variables
<1>4. CASE preprocessing
  <2>1. UNCHANGED vars
    BY <1>4, Zenon DEF preprocessing
  <2>. QED  BY <1>1, <2>1 DEF vars
<1>5. CASE do_dfa_construction
  BY <1>5 DEF do_dfa_construction, create_named_variables, create_state_variables
<1>6. CASE read_gr1_file
  <2>1. read_from_gr1_file(args.condition) /\ Head(todo) = "gr1_file"
    BY <1>6 DEF read_gr1_file, Doing
  <2>2. command = "gr1"
    BY <1>1, <2>1, AutomataAreLeft DEF AsCounted
  <2>. QED  BY <1>1, <2>1, <2>2, GR1FileOfRun DEF FilesAreAsAssumed, Declared, Players
<1>7. CASE partition
  <2>1. Head(todo) = "partition" /\ partition_variables(args.inputs, args.outputs)
    BY <1>7 DEF partition, Doing
  <2>2. Named = Inputs \cup Outputs
    <3>1. Named = Inputs \cup Outputs
                    \cup (UNION {Atoms(f) : f \in ToSet(formulas(command, args))})
                    \cup IF command = "gr1" THEN NamesSaid(args.says) ELSE {}
      BY <1>1, <1>2, <2>1, NamesReadFromStartToEnd
    <3>2. \A f \in ToSet(formulas(command, args)) : Atoms(f) \subseteq Inputs \cup Outputs
      BY DEF Declared, Used
    <3>3. command = "gr1" => NamesSaid(args.says) \subseteq Inputs \cup Outputs
      BY DEF Declared, Used
    <3>. QED  BY <3>1, <3>2, <3>3
  <2>3. input_variables = <<>> /\ output_variables = <<>>
    <3>1. ~Partitioned
      BY <1>1, <2>1, AutomataAreLeft DEF Partitioned, AsCounted
    <3>. QED  BY <1>1, <3>1 DEF LettersInvariant, LettersInv
  <2>4. Len(args.inputs) + Len(args.outputs) = Cardinality(Named)
    <3>. DEFINE both == args.inputs \o args.outputs
    <3>1. args.inputs \in Seq(Names) /\ args.outputs \in Seq(Names)
      BY <1>1, NamesOfFiles DEF FilesAreAsAssumed
    <3>2. both \in Seq(Names) /\ Len(both) = Len(args.inputs) + Len(args.outputs)
      BY <3>1, ConcatProperties
    <3>3. ToSet(both) = Named
      BY <2>2, <3>1, BothLists DEF Inputs, Outputs
    <3>4. IsInjective(both)
      BY DEF Declared, DeclaredOnce
    <3>. HIDE DEF both
    <3>. QED  BY <3>2, <3>3, <3>4, ListElements
  <2>5. ~wrong_size(args.inputs, args.outputs)
    <3>1. Cardinality(DOMAIN index_to_name) - state_variable_count = Cardinality(Named)
      BY <1>1, NamedAreCounted
    <3>. QED  BY <2>4, <3>1 DEF wrong_size
  <2>6. ToSet(args.inputs) \cup ToSet(args.outputs) \subseteq Known
    BY <2>2 DEF Named, Inputs, Outputs
  <2>. QED  BY <2>1, <2>3, <2>5, <2>6 DEF partition_variables
<1>8. CASE read_assumption
  <2>1. Head(todo) = "assumption"
    BY <1>8 DEF read_assumption, Doing
  <2>2. command \in {"fairness", "stability"} /\ Len(todo) = 2
    BY <1>1, <2>1, AutomataAreLeft DEF AsCounted
  <2>3. NamesSaid(args.says) \subseteq Inputs \cup Outputs
    BY <2>2 DEF Declared, Used
  <2>4. Inputs \cup Outputs \subseteq Named
    <3>1. Partitioned
      BY <2>2 DEF Partitioned
    <3>. QED  BY <1>1, <3>1 DEF LettersInvariant, LettersInv
  <2>. QED  BY <1>1, <1>8, <2>3, <2>4, AssumptionIsRead DEF Named
<1>9. CASE handle_synthesis_result
  BY <1>1, <1>9 DEF handle_synthesis_result, vars
<1>. QED  BY <1>1, <1>3, <1>4, <1>5, <1>6, <1>7, <1>8, <1>9 DEF CLINext

\* A specification that declares its names once is not ended by an exception.
THEOREM DeclaredSpecificationsAreAnsweredTheorem ==
    ASSUME FilesAreAsAssumed
    PROVE  ParserSpec => []DeclaredSpecificationsAreAnswered
<1>1. ParserInit => DeclaredSpecificationsAreAnswered
  BY DEF ParserInit, CLIInit, Init, DeclaredSpecificationsAreAnswered
<1>2. LettersInvariant /\ DeclaredSpecificationsAreAnswered /\ [ParserNext]_parser_vars
            => DeclaredSpecificationsAreAnswered'
  <2>. SUFFICES ASSUME LettersInvariant, DeclaredSpecificationsAreAnswered,
                       [ParserNext]_parser_vars, Declared'
                PROVE  exception' \in {"none", "parse error"}
    BY DEF DeclaredSpecificationsAreAnswered, Declared
  <2>1. CASE Run
    <3>1. UNCHANGED <<command, args>>
      BY <2>1, LeftAfterStep DEF LettersInvariant
    <3>2. Declared
      BY <3>1 DEF Declared, DeclaredOnce, Used, Inputs, Outputs
    <3>. QED  BY <2>1, <3>2, DeclaredStepsDoNotThrow
  <2>2. CASE Call
    <3>1. Init /\ UNCHANGED vars
      BY <2>2, AfterCall DEF LettersInvariant, CallsInv
    <3>. QED  BY <3>1 DEF Init, vars
  <2>3. CASE parse_error
    BY <2>3 DEF parse_error
  <2>4. CASE UNCHANGED parser_vars
    <3>1. UNCHANGED <<command, args, exception>>
      BY <2>4 DEF parser_vars, cli_vars, vars
    <3>2. Declared
      BY <3>1 DEF Declared, DeclaredOnce, Used, Inputs, Outputs
    <3>. QED  BY <3>1, <3>2 DEF DeclaredSpecificationsAreAnswered, Declared
  <2>. QED  BY <2>1, <2>2, <2>3, <2>4 DEF ParserNext, Call
<1>. QED  BY <1>1, <1>2, LettersOfRuns, PTL DEF ParserSpec

\* The lists that were read: of a file that declares both lists and every name it uses, no
\* more than one is lost.
LEMMA ListsOfTheFile ==
    ASSUME FilesAreAsAssumed, LettersInvariant, calls = <<>>,
           Cardinality(failed \ {"target"}) <= 1, file.inputs # <<>>, file.outputs # <<>>
    PROVE  \/ args.inputs = file.inputs /\ args.outputs = file.outputs
           \/ args.inputs = <<"">> /\ args.outputs = file.outputs
           \/ args.inputs = file.inputs /\ args.outputs = <<"">>
<1>1. /\ args.inputs = IF "inputs" \in failed THEN <<"">> ELSE split(file.inputs)
      /\ args.outputs = IF "outputs" \in failed THEN <<"">> ELSE split(file.outputs)
  <2>1. ~(Len(calls) >= 3) /\ ~(Len(calls) >= 2)
    <3>1. Len(<<>>) = 0
      OBVIOUS
    <3>2. Len(calls) = 0
      BY <3>1, Zenon
    <3>. QED  BY <3>2
  <2>2. ReadOf("inputs", 3) /\ ReadOf("outputs", 2)
    BY Zenon DEF LettersInvariant, CallsInv
  <2>3. args["inputs"] = IF "inputs" \in failed THEN <<"">> ELSE split(file["inputs"])
    BY <2>1, <2>2, Zenon DEF ReadOf
  <2>4. args["outputs"] = IF "outputs" \in failed THEN <<"">> ELSE split(file["outputs"])
    BY <2>1, <2>2, Zenon DEF ReadOf
  <2>. QED  BY <2>3, <2>4, Zenon
<1>2. split(file.inputs) = file.inputs /\ split(file.outputs) = file.outputs
  BY DEF split
<1>3. "inputs" \notin failed \/ "outputs" \notin failed
  <2>. SUFFICES ASSUME "inputs" \in failed, "outputs" \in failed PROVE FALSE
    OBVIOUS
  <2>. DEFINE both == {"inputs", "outputs"}
              lost == failed \ {"target"}
  <2>1. IsFiniteSet(lost) /\ both \subseteq lost
    <3>1. IsFiniteSet(failed) /\ lost \subseteq failed
      BY DEF LettersInvariant, CallsInv
    <3>. QED  BY <3>1, FS_Subset
  <2>2. IsFiniteSet({"inputs"}) /\ Cardinality({"inputs"}) = 1
    BY FS_Singleton
  <2>3. Cardinality(both) = 2
    <3>1. both = {"inputs"} \cup {"outputs"} /\ "outputs" \notin {"inputs"}
      OBVIOUS
    <3>2. Cardinality({"inputs"} \cup {"outputs"}) = Cardinality({"inputs"}) + 1
      BY <2>2, <3>1, FS_AddElement
    <3>. QED  BY <2>2, <3>1, <3>2
  <2>. HIDE DEF both, lost
  <2>4. Cardinality(both) <= Cardinality(lost) /\ Cardinality(lost) \in Nat
    BY <2>1, FS_Subset, FS_CardinalityType
  <2>5. Cardinality(lost) <= 1
    BY DEF lost
  <2>. QED  BY <2>3, <2>4, <2>5
<1>. QED  BY <1>1, <1>2, <1>3

\* The letters that a solver is called on are of the players that the file gives them to.
THEOREM LettersAreThoseOfTheFileTheorem ==
    ASSUME FilesAreAsAssumed
    PROVE  ParserSpec => []LettersAreThoseOfTheFile
<1>1. ASSUME LettersInvariant PROVE LettersAreThoseOfTheFile
  <2>. SUFFICES ASSUME AtSolver, Cardinality(failed \ {"target"}) <= 1,
                       file.inputs # <<>>, file.outputs # <<>>,
                       IsInjective(file.inputs \o file.outputs),
                       \A name \in Used : Listed(file.inputs, name) \/ Listed(file.outputs, name),
                       NEW name \in Used
                PROVE  /\ name_to_variable[name] \in ToSet(input_variables)
                                <=> Listed(file.inputs, name)
                       /\ name_to_variable[name] \in ToSet(output_variables)
                                <=> Listed(file.outputs, name)
    BY DEF LettersAreThoseOfTheFile
  <2>1. /\ ManagerFacts /\ calls = <<>> /\ Used \subseteq Named /\ Inputs \cup Outputs \subseteq Named
        /\ input_variables = VariablesOf(args.inputs)
        /\ output_variables = VariablesOf(args.outputs)
        /\ DeclaredOnce => Named = Inputs \cup Outputs
    BY <1>1, NamesAtSolver
  <2>. DEFINE In == ToSet(file.inputs)
              Out == ToSet(file.outputs)
  <2>2. /\ file.inputs \in Seq(Names) /\ file.outputs \in Seq(Names)
        /\ args.inputs \in Seq(Names) /\ args.outputs \in Seq(Names)
        /\ "" \notin In /\ "" \notin Out /\ "" \notin Used
    BY <1>1, NamesOfFiles, FieldsOfFiles DEF FilesAreAsAssumed, LettersInvariant, RunInv
  <2>3. In \cap Out = {} /\ IsInjective(file.inputs) /\ IsInjective(file.outputs)
    BY <2>2, BothLists
  <2>4. /\ name_to_variable[name] \in ToSet(input_variables) <=> name \in Inputs
        /\ name_to_variable[name] \in ToSet(output_variables) <=> name \in Outputs
    <3>1. Inputs \subseteq Known /\ Outputs \subseteq Known /\ name \in Known
      BY <2>1 DEF Named
    <3>. QED  BY <2>1, <2>2, <3>1, VariablesOfList DEF Inputs, Outputs
  <2>5. ToSet(<<"">>) = {""} /\ IsInjective(<<"">>)
    <3>1. DOMAIN <<"">> = {1} /\ <<"">>[1] = ""
      OBVIOUS
    <3>. QED  BY <3>1 DEF ToSet, IsInjective
  <2>6. CASE args.inputs = file.inputs /\ args.outputs = file.outputs
    BY <2>4, <2>6 DEF Inputs, Outputs, Listed
  <2>7. CASE args.inputs = <<"">> /\ args.outputs = file.outputs
    <3>1. Inputs = {""} /\ Outputs = Out
      BY <2>5, <2>7 DEF Inputs, Outputs
    <3>2. DeclaredOnce
      <4>1. ToSet(args.inputs) \cap ToSet(args.outputs) = {}
            /\ IsInjective(args.inputs) /\ IsInjective(args.outputs)
        BY <2>2, <2>3, <2>5, <2>7
      <4>. QED  BY <2>2, <4>1, ApartLists DEF DeclaredOnce
    <3>3. name \in Out
      BY <2>1, <2>2, <3>1, <3>2
    <3>. QED  BY <2>2, <2>3, <2>4, <3>1, <3>3 DEF Listed
  <2>8. CASE args.inputs = file.inputs /\ args.outputs = <<"">>
    <3>1. Inputs = In /\ Outputs = {""}
      BY <2>5, <2>8 DEF Inputs, Outputs
    <3>2. DeclaredOnce
      <4>1. ToSet(args.inputs) \cap ToSet(args.outputs) = {}
            /\ IsInjective(args.inputs) /\ IsInjective(args.outputs)
        BY <2>2, <2>3, <2>5, <2>8
      <4>. QED  BY <2>2, <4>1, ApartLists DEF DeclaredOnce
    <3>3. name \in In
      BY <2>1, <2>2, <3>1, <3>2
    <3>. QED  BY <2>2, <2>3, <2>4, <3>1, <3>3 DEF Listed
  <2>. QED  BY <1>1, <2>1, <2>6, <2>7, <2>8, ListsOfTheFile
<1>. QED  BY <1>1, LettersOfRuns, PTL

-----------------------------------------------------------------------------
(* What conditions mean *)

\* The file with the conditions has been read.
ConditionRead ==
    \/ command = "gr1" /\ Len(todo) < 3
    \/ command \in {"fairness", "stability"} /\ Len(todo) < 2

\* The conditions of a player over the variables of the manager.
OverVariables(player) ==
    [k \in DOMAIN Written(command, args.condition, player) |->
        over(Written(command, args.condition, player)[k], name_to_variable)]

\* What a solver is given is what was written, over the variables of the names.
ConditionInv ==
    (exception = "none" /\ todo # <<>>) =>
        IF ConditionRead
        THEN \A player \in Players : condition[player] = OverVariables(player)
        ELSE condition = NoConditions

\* A GR(1) file that is read to its end.
LEMMA GR1FileIsReadToItsEnd ==
    ASSUME NEW a_file, read_from_gr1_file(a_file), exception' = "none"
    PROVE  condition' = [Env |-> justices(a_file, "Env", name_to_variable'),
                         Agn |-> justices(a_file, "Agn", name_to_variable')]
<1>. DEFINE events == events_of_file(a_file)
            I == {i \in 1 .. Len(events) : events[i].throws # "none"}
            throwing == SelectInSeq(events, LAMBDA event : event.throws # "none")
<1>1. /\ throwing = 0 =>
            condition' = [Env |-> justices(a_file, "Env", name_to_variable'),
                          Agn |-> justices(a_file, "Agn", name_to_variable')]
      /\ throwing # 0 => exception' = events[throwing].throws
  BY DEF read_from_gr1_file, events_of_file
<1>2. throwing = IF I # {} THEN Min(I) ELSE 0
  BY DEF SelectInSeq
<1>3. I # {} => Min(I) \in I
  <2>. SUFFICES ASSUME I # {} PROVE Min(I) \in I
    OBVIOUS
  <2>1. I \in SUBSET Nat
    OBVIOUS
  <2>. HIDE DEF I
  <2>2. \E m \in I : \A k \in I : m <= k
    BY <2>1, LeastNumber
  <2>. QED  BY <2>2 DEF Min
<1>4. \A i \in I : i # 0 /\ events[i].throws # "none"
  OBVIOUS
<1>. HIDE DEF throwing, I, events
<1>. QED  BY <1>1, <1>2, <1>3, <1>4

\* Reading either file makes a condition of what is written in it.
LEMMA ConditionIsMade ==
    ASSUME RunInv, todo # <<>>, exception' = "none", condition = NoConditions,
           read_gr1_file \/ read_assumption
    PROVE  \A player \in Players : condition'[player] = OverVariables(player)'
<1>1. CASE read_gr1_file
  <2>1. Head(todo) = "gr1_file" /\ read_from_gr1_file(args.condition) /\ UNCHANGED <<command, args>>
    BY <1>1 DEF read_gr1_file, Doing, run_vars
  <2>2. command = "gr1"
    BY <2>1, AutomataAreLeft DEF AsCounted
  <2>3. PICK map : map = name_to_variable'
    OBVIOUS
  <2>4. condition' = [Env |-> justices(args.condition, "Env", map),
                      Agn |-> justices(args.condition, "Agn", map)]
    BY <2>1, <2>3, GR1FileIsReadToItsEnd
  <2>5. ASSUME NEW player \in Players
        PROVE  OverVariables(player)' = justices(args.condition, player, map)
    <3>. DEFINE blocks == blocks_of(args.condition, player)
    <3>1. Written(command, args.condition, player) =
            [b \in DOMAIN blocks |-> justice(blocks[b].lines)]
      BY <2>2 DEF Written
    <3>2. Written(command, args.condition, player)' = Written(command, args.condition, player)
      BY <2>1
    <3>3. OverVariables(player)' =
            [k \in DOMAIN Written(command, args.condition, player) |->
                over(Written(command, args.condition, player)[k], map)]
      BY <2>3, <3>2 DEF OverVariables
    <3>4. justices(args.condition, player, map) =
            [b \in DOMAIN blocks |-> over(justice(blocks[b].lines), map)]
      BY DEF justices
    <3>. HIDE DEF blocks
    <3>. QED  BY <3>1, <3>3, <3>4
  <2>. QED  BY <2>4, <2>5 DEF Players
<1>2. CASE read_assumption
  <2>1. Head(todo) = "assumption" /\ load_CNF(args.condition) /\ UNCHANGED <<command, args>>
    BY <1>2 DEF read_assumption, Doing, run_vars
  <2>2. command # "gr1"
    BY <2>1, AutomataAreLeft DEF AsCounted
  <2>3. PICK map : map = name_to_variable /\ name_to_variable' = map
    BY <2>1 DEF load_CNF
  <2>. DEFINE clauses == CNF(args.condition[1].lines)
  <2>4. condition' = [Env |-> <<over(clauses, map)>>, Agn |-> <<>>]
    <3>1. condition' = [condition EXCEPT !.Env = <<over(clauses, name_to_variable)>>]
      BY <2>1 DEF load_CNF
    <3>. HIDE DEF clauses
    <3>. QED  BY <2>3, <3>1 DEF NoConditions
  <2>5. ASSUME NEW player \in Players
        PROVE  OverVariables(player)' = IF player = "Env" THEN <<over(clauses, map)>> ELSE <<>>
    <3>1. Written(command, args.condition, player) = IF player = "Env" THEN <<clauses>> ELSE <<>>
      BY <2>2 DEF Written
    <3>2. Written(command, args.condition, player)' = Written(command, args.condition, player)
      BY <2>1
    <3>3. OverVariables(player)' =
            [k \in DOMAIN Written(command, args.condition, player) |->
                over(Written(command, args.condition, player)[k], map)]
      BY <2>3, <3>2 DEF OverVariables
    <3>. HIDE DEF clauses
    <3>. QED  BY <3>1, <3>3
  <2>. HIDE DEF clauses
  <2>. QED  BY <2>4, <2>5 DEF Players
<1>. QED  BY <1>1, <1>2

\* Steps that read no file leave the condition alone.
LEMMA ConditionStays ==
    ASSUME CLINext, ~read_gr1_file, ~read_assumption
    PROVE  UNCHANGED condition
<1>1. preprocessing => UNCHANGED condition
  BY Zenon DEF preprocessing
<1>. QED  BY <1>1 DEF CLINext, build_var_mgr, do_dfa_construction, partition,
                handle_synthesis_result

\* No step spoils what was read.
LEMMA ConditionIsKept ==
    ASSUME RunInv, CallsInv, ConditionInv, [ParserNext]_parser_vars
    PROVE  ConditionInv'
<1>1. CASE Run
  <2>. SUFFICES ASSUME exception' = "none", todo' # <<>>
                PROVE  ConditionInv'
    BY DEF ConditionInv
  <2>1. /\ todo # <<>> /\ exception = "none" /\ UNCHANGED <<command, args>> /\ CLINext
        /\ Len(todo') = Len(todo) - 1
    BY <1>1, LeftAfterStep
  <2>2. /\ command \in Commands /\ Len(todo) \in Nat /\ Len(todo) >= 1
        /\ AsCounted(Head(todo), command, Len(todo), Len(steps(command)))
    BY <2>1, AutomataAreLeft
  <2>3. PICK n \in Nat : n = Len(todo)
    BY <2>2
  <2>. DEFINE fair == command \in {"fairness", "stability"}
  <2>4. /\ ConditionRead <=> (command = "gr1" /\ n < 3) \/ (fair /\ n < 2)
        /\ ConditionRead' <=> (command = "gr1" /\ n - 1 < 3) \/ (fair /\ n - 1 < 2)
    BY <2>1, <2>3 DEF ConditionRead
  <2>5. /\ Head(todo) = "gr1_file" <=> command = "gr1" /\ n = 3
        /\ Head(todo) = "assumption" <=> fair /\ n = 2
    BY <2>2, <2>3 DEF AsCounted
  <2>6. CASE read_gr1_file \/ read_assumption
    <3>1. Head(todo) = "gr1_file" \/ Head(todo) = "assumption"
      BY <2>6 DEF read_gr1_file, read_assumption, Doing
    <3>2. ~ConditionRead /\ ConditionRead'
      BY <2>4, <2>5, <3>1
    <3>3. condition = NoConditions
      BY <2>1, <3>2 DEF ConditionInv
    <3>. QED  BY <2>1, <2>6, <3>2, <3>3, ConditionIsMade DEF ConditionInv
  <2>7. CASE ~read_gr1_file /\ ~read_assumption
    <3>1. UNCHANGED condition
      BY <2>1, <2>7, ConditionStays
    <3>2. ConditionRead' <=> ConditionRead
      <4>1. Head(todo) # "gr1_file" /\ Head(todo) # "assumption"
        <5>1. preprocessing => Head(todo) = "preprocessing"
          BY Zenon DEF preprocessing
        <5>. QED  BY <2>1, <2>7, <5>1 DEF CLINext, build_var_mgr, do_dfa_construction, partition,
                handle_synthesis_result, Doing
      <4>. HIDE DEF fair
      <4>. QED  BY <2>4, <2>5, <4>1
    <3>3. CASE ~ConditionRead
      BY <2>1, <3>1, <3>2, <3>3 DEF ConditionInv
    <3>4. CASE ConditionRead
      <4>1. UNCHANGED name_to_variable
        <5>1. Head(todo) \in {"partition", "solve"}
          BY <2>2, <2>3, <2>4, <3>4 DEF AsCounted, Commands
        <5>2. partition \/ handle_synthesis_result
          <6>1. preprocessing => Head(todo) = "preprocessing"
            BY Zenon DEF preprocessing
          <6>. QED  BY <2>1, <2>7, <5>1, <6>1 DEF CLINext, build_var_mgr, do_dfa_construction, Doing
        <5>. QED  BY <5>2 DEF partition, partition_variables, handle_synthesis_result, vars
      <4>2. \A player \in Players : OverVariables(player)' = OverVariables(player)
        BY <2>1, <4>1 DEF OverVariables
      <4>. QED  BY <2>1, <3>1, <3>2, <3>4, <4>2 DEF ConditionInv
    <3>. QED  BY <3>3, <3>4
  <2>. QED  BY <2>6, <2>7
<1>2. CASE Call
  <2>1. calls # <<>> /\ UNCHANGED <<vars, todo, command, condition>> /\ exception' = exception
    BY <1>2, AfterCall DEF vars
  <2>2. todo = steps(command)
    BY <2>1 DEF RunInv, StepsInv
  <2>3. todo # <<>> => ~ConditionRead
    BY <2>2, AutomataAreLeft DEF ConditionRead
  <2>4. todo' # <<>> => ~ConditionRead'
    BY <2>1, <2>3 DEF ConditionRead
  <2>. QED  BY <2>1, <2>3, <2>4 DEF ConditionInv
<1>3. CASE parse_error
  BY <1>3 DEF parse_error, ConditionInv
<1>4. CASE UNCHANGED parser_vars
  <2>1. UNCHANGED <<exception, todo, command, args, condition, name_to_variable>>
    BY <1>4 DEF parser_vars, cli_vars, vars
  <2>2. ConditionRead' <=> ConditionRead
    BY <2>1 DEF ConditionRead
  <2>3. \A player \in Players : OverVariables(player)' = OverVariables(player)
    BY <2>1 DEF OverVariables
  <2>. QED  BY <2>1, <2>2, <2>3 DEF ConditionInv
<1>. QED  BY <1>1, <1>2, <1>3, <1>4 DEF ParserNext, Call

\* A condition that is read is what the file says, until the solver is called.
THEOREM ConditionInvariant == ParserSpec => []ConditionInv
<1>1. ParserInit => ConditionInv
  <2>. SUFFICES ASSUME ParserInit, todo # <<>> PROVE condition = NoConditions /\ ~ConditionRead
    BY DEF ConditionInv
  <2>1. RunInv /\ todo = steps(command) /\ condition = NoConditions
    BY RunsStart DEF RunInv, ParserInit, CLIInit
  <2>. QED  BY <2>1, AutomataAreLeft DEF ConditionRead
<1>2. ParserInit => CallsInv
  BY CallsStart
<1>3. RunInv /\ CallsInv /\ [ParserNext]_parser_vars => CallsInv'
  BY CallsAreMade
<1>4. RunInv /\ CallsInv /\ ConditionInv /\ [ParserNext]_parser_vars => ConditionInv'
  BY ConditionIsKept
<1>. QED  BY <1>1, <1>2, <1>3, <1>4, RunInvariant, PTL DEF ParserSpec

\* A clause over variables is true of the letters of which it is true over names.
LEMMA ClausesOverVariables ==
    ASSUME ManagerFacts, NEW clauses, NEW letter,
           \A a_clause \in clauses : \A literal \in a_clause : literal.name \in Known
    PROVE  (\A a_clause \in over(clauses, name_to_variable) : \E literal \in a_clause :
                literal.positive <=> index_to_name[literal.variable] \in letter)
           <=> (\A a_clause \in clauses : \E literal \in a_clause :
                literal.positive <=> literal.name \in letter)
<1>. DEFINE Image(a_clause) ==
                {Literal(name_to_variable[literal.name], literal.positive) : literal \in a_clause}
            True_(literal) == literal.positive <=> index_to_name[literal.variable] \in letter
<1>1. ASSUME NEW a_clause \in clauses
      PROVE  (\E literal \in Image(a_clause) : True_(literal))
             <=> (\E literal \in a_clause : literal.positive <=> literal.name \in letter)
  <2>1. ASSUME NEW literal \in a_clause
        PROVE  True_(Literal(name_to_variable[literal.name], literal.positive))
                    <=> (literal.positive <=> literal.name \in letter)
    <3>1. index_to_name[name_to_variable[literal.name]] = literal.name
      BY NamesAreApart
    <3>2. PICK l : l = Literal(name_to_variable[literal.name], literal.positive)
      OBVIOUS
    <3>3. l.variable = name_to_variable[literal.name] /\ l.positive = literal.positive
      BY <3>2 DEF Literal
    <3>. QED  BY <3>1, <3>2, <3>3, Zenon
  <2>. HIDE DEF True_
  <2>. QED  BY <2>1
<1>2. over(clauses, name_to_variable) = {Image(a_clause) : a_clause \in clauses}
  BY DEF over
<1>. HIDE DEF Image
<1>. QED  BY <1>1, <1>2

\* When a solver is called, the conditions are true of the letters that the file says.
THEOREM ConditionsMeanWhatFilesSayTheorem ==
    ASSUME FilesAreAsAssumed, FilesSayWhatIsMeant
    PROVE  ParserSpec => []ConditionsMeanWhatFilesSay
<1>1. LettersInvariant /\ ConditionInv => ConditionsMeanWhatFilesSay
  <2>. SUFFICES ASSUME LettersInvariant, ConditionInv, AtSolver,
                       command \in {"fairness", "stability", "gr1"}, NEW player \in Players
                PROVE
            /\ DOMAIN condition[player] = DOMAIN Meant(player)
            /\ \A k \in DOMAIN condition[player] : \A letter \in SUBSET Used :
                (\A a_clause \in condition[player][k] : \E literal \in a_clause :
                    literal.positive <=> index_to_name[literal.variable] \in letter)
                <=> (\A a_clause \in ToSet(Meant(player)[k].clauses) : \E literal \in a_clause :
                    literal.positive <=> literal.name \in letter)
    BY DEF ConditionsMeanWhatFilesSay, Players
  <2>1. exception = "none" /\ todo # <<>> /\ ManagerFacts /\ Used \subseteq Named
    BY NamesAtSolver
  <2>2. ConditionRead
    <3>1. Head(todo) = "solve"
      <4>1. todo \in Seq(Steps)
        BY DEF LettersInvariant, RunInv, StepsInv, Rest
      <4>2. Head(todo \o <<"end">>) = Head(todo)
        BY <2>1, <4>1
      <4>. QED  BY <4>2 DEF AtSolver
    <3>2. Len(todo) = 1
      BY <2>1, <3>1, AutomataAreLeft DEF LettersInvariant, AsCounted
    <3>. QED  BY <3>2 DEF ConditionRead
  <2>3. condition[player] = OverVariables(player)
    BY <2>1, <2>2 DEF ConditionInv
  <2>. DEFINE written == Written(command, args.condition, player)
  <2>4. /\ DOMAIN written = DOMAIN Meant(player)
        /\ \A k \in DOMAIN written :
              /\ written[k] = ToSet(Meant(player)[k].clauses)
              /\ \A a_clause \in written[k] : \A literal \in a_clause :
                    literal.name \in NamesSaid(args.says)
    <3>1. PICK line \in CommandLines : command = line.command /\ file = line.args
      BY DEF LettersInvariant, RunInv, ArgumentsInv
    <3>2. args.condition = line.args.condition /\ args.says = line.args.says
      BY <3>1, FieldsOfFiles DEF LettersInvariant, RunInv
    <3>. QED  BY <3>1, <3>2 DEF FilesSayWhatIsMeant, Meant, Players
  <2>5. NamesSaid(args.says) \subseteq Known
    <3>1. NamesSaid(args.says) \subseteq Used
      BY DEF Used
    <3>. QED  BY <2>1, <3>1 DEF Named
  <2>6. condition[player] = [k \in DOMAIN written |-> over(written[k], name_to_variable)]
    BY <2>3 DEF OverVariables
  <2>. HIDE DEF written
  <2>7. ASSUME NEW k \in DOMAIN written, NEW letter
        PROVE
            (\A a_clause \in condition[player][k] : \E literal \in a_clause :
                literal.positive <=> index_to_name[literal.variable] \in letter)
            <=> (\A a_clause \in ToSet(Meant(player)[k].clauses) : \E literal \in a_clause :
                literal.positive <=> literal.name \in letter)
    <3>. DEFINE clauses == written[k]
    <3>1. \A a_clause \in clauses : \A literal \in a_clause : literal.name \in Known
      BY <2>4, <2>5
    <3>2. condition[player][k] = over(clauses, name_to_variable)
      BY <2>6
    <3>3. ToSet(Meant(player)[k].clauses) = clauses
      BY <2>4
    <3>. HIDE DEF clauses
    <3>4. (\A a_clause \in over(clauses, name_to_variable) : \E literal \in a_clause :
                literal.positive <=> index_to_name[literal.variable] \in letter)
           <=> (\A a_clause \in clauses : \E literal \in a_clause :
                literal.positive <=> literal.name \in letter)
      BY <2>1, <3>1, ClausesOverVariables
    <3>. QED  BY <3>2, <3>3, <3>4, Zenon
  <2>. QED  BY <2>4, <2>6, <2>7
<1>. QED  BY <1>1, LettersOfRuns, ConditionInvariant, PTL
=============================================================================
