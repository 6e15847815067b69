-------------------------------- MODULE Sums --------------------------------
(***************************************************************************)
(* The sum of the values of a function with a finite domain.               *)
(***************************************************************************)
EXTENDS Integers, Folds

SumOver(f) == MapThenFoldSet(+, 0, LAMBDA x : f[x], LAMBDA s : CHOOSE x \in s : TRUE, DOMAIN f)

==============================================================================
