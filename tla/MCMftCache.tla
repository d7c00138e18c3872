----------------------------- MODULE MCMftCache ------------------------------
(***************************************************************************)
(* A small instance of MftCache: two record numbers, three visible         *)
(* spellings of two paths (p and P differ in case only) and one '$' name;  *)
(* two threads, so that two saves, or a save and a load, can cross.        *)
(***************************************************************************)
EXTENDS MftCacheProps

CONSTANTS r1, r2, p, P, q, sys, kp, kq, ksys, t1, t2

MCRef == {r1, r2}
MCPath == {p, P, q, sys}
MCThread == {t1, t2}
MCKey == {kp, kq, ksys}
MCHidden == {sys}
MCLower == [x \in MCPath |-> CASE x \in {p, P} -> kp [] x = q -> kq [] x = sys -> ksys]

E(r, x) == [ref |-> r, path |-> x]

\* One volume: the records of a feed have distinct numbers and paths.  Few
\* feeds, so that the abstract Replace cannot pass for another step.
OneVolume ==
  {<<>>,
   <<E(r1, p), E(r2, q)>>,
   <<E(r2, P), E(r1, sys)>>,
   <<E(r1, NoPath), E(r2, q)>>}

=============================================================================
