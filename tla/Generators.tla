----------------------------- MODULE Generators -----------------------------
(***************************************************************************)
(* The number generators of pkg/generator: of each, the numbers that its   *)
(* Next may return.  How likely each number is, which is what the formulas *)
(* of the generators compute, is left out.                                 *)
(***************************************************************************)
EXTENDS Integers

\* Uniform.Next, and Sequential.Next over a whole turn: its first number is
\* lb + 1, and lb comes last.
Uniform(lb, ub) == lb .. ub
Sequential(lb, ub) == {lb + (i % (ub - lb + 1)) : i \in 1 .. ub - lb + 1}

\* Zipfian.next, asked for one of itemCount numbers: base and base + 1 whatever
\* the count is, and otherwise itemCount scaled by a power of eta * u - eta + 1.
\* Rounding may reach base + itemCount.  Zipfian.eta is computed from the items
\* that there were at creation, so that with fewer than three of them it is not
\* positive, or not a number, and what comes out is itemCount or more.
Zipfian(base, items, itemCount) ==
  {base, base + 1} \cup (IF items > 2 THEN base .. base + itemCount
                         ELSE base + itemCount .. base + 2 * itemCount)

\* ScrambledZipfian.Next: a hash of the Zipfian number, modulo the range.
ScrambledZipfian(min, max) == {min + (h % (max - min + 1)) : h \in 0 .. max - min}

\* SkewedLatest.Next, from the newest number backwards, below 0 when Zipfian
\* returns more than that.
SkewedLatest(items, last) == {last - z : z \in Zipfian(0, items, last)}

\* Hotspot.Next: the hot set, or the rest of the range.
Hotspot(lb, ub, hot) == (lb .. lb + hot - 1) \cup (lb + hot .. ub)

\* Exponential.Next may be any natural number; core.nextKeyNum subtracts it
\* from the newest key and draws again until the result is not negative.
ExponentialKey(last) == 0 .. last

\* Discrete.Next: the values that Add gave a weight.
Discrete(weight) == {v \in DOMAIN weight : weight[v] > 0}
=============================================================================
