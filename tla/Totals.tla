------------------------------- MODULE Totals -------------------------------
(***************************************************************************)
(* The sum of the values of a function, written without recursion so that  *)
(* it can be reasoned about: every value f[x] contributes f[x] distinct    *)
(* units, and the total is the number of units.                            *)
(*                                                                         *)
(* The server sums Stroops with a loop over a Map (Pipeline.spendable,     *)
(* Pipeline.spentToday, PayoutStore...); the order of that loop does not   *)
(* matter, which is what this definition says.                             *)
(***************************************************************************)
EXTENDS Naturals, FiniteSets

\* The units of f: one pair <<x, k>> for every k in 1..f[x].
Units(f) == UNION { {x} \X (1 .. f[x]) : x \in DOMAIN f }

\* \sum_{x \in DOMAIN f} f[x], for f with a finite domain and values in Nat.
Total(f) == Cardinality(Units(f))
=============================================================================
