------------------------------- MODULE Tally -------------------------------
(***************************************************************************)
(* Totals of natural numbers over a finite set, without recursion.  A      *)
(* total is the number of units: f[x] units for each x \in S, unit i of x  *)
(* being the pair <<x, i>>.  The code's `.map(..).sum()` over the running  *)
(* requests and its free-block counter are stated with it, and proofs      *)
(* reason about it with the cardinality theorems of finite sets.  They     *)
(* reason about InOrder likewise, and could not about SortSeq, which is    *)
(* built into the tools.                                                   *)
(***************************************************************************)
EXTENDS Naturals, FiniteSets

\* The units that f gives to the members of S.
Units(S, f) == UNION {{x} \X (1 .. f[x]) : x \in S}

\* The sum of f[x] over S.
Total(S, f) == Cardinality(Units(S, f))

\* Division rounded up: u32::div_ceil.
CeilDiv(n, d) == (n + d - 1) \div d

\* u32::saturating_sub.
SatSub(a, b) == IF a >= b THEN a - b ELSE 0

Least(a, b) == IF a <= b THEN a ELSE b
Greatest(a, b) == IF a >= b THEN a ELSE b

\* Removes x from the domain of the partial function f (HashMap::remove).
Without(f, x) == [y \in DOMAIN f \ {x} |-> f[y]]

\* Binds x to v in the partial function f (HashMap::insert).
With(f, x, v) == [y \in DOMAIN f \cup {x} |-> IF y = x THEN v ELSE f[y]]

\* The members of the finite set S from the first to the last, for a strict total
\* order given as the set of pairs that are in order: member number i has i - 1
\* members before it.
InOrder(S, order) ==
  [i \in 1 .. Cardinality(S) |->
     CHOOSE x \in S : Cardinality({y \in S : <<y, x>> \in order}) = i - 1]

\* The positions of a list by keys[i], those of one key in the order of the list:
\* slice::sort_by and sort_by_key, which are stable.
ByKey(S, keys) == {p \in S \X S : \/ keys[p[1]] < keys[p[2]]
                                  \/ keys[p[1]] = keys[p[2]] /\ p[1] < p[2]}
SortedByKey(keys) == InOrder(DOMAIN keys, ByKey(DOMAIN keys, keys))

\* The partial function with no binding.
Empty == [x \in {} |-> 0]
=============================================================================
