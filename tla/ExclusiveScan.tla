---------------------------- MODULE ExclusiveScan ----------------------------
(***************************************************************************)
(* internal::exclusive_scan: where the columns of each of several members  *)
(* begin.  Parameters and rows are taken apart by the same sums.           *)
(***************************************************************************)
EXTENDS Naturals, Sequences

\* How many columns the first j members have together
Sums(ns) ==
  LET sum[j \in 0 .. Len(ns)] == IF j = 0 THEN 0 ELSE sum[j - 1] + ns[j]
  IN  sum

Total(ns) == Sums(ns)[Len(ns)]

\* internal::exclusive_scan
Scan(ns) == [j \in DOMAIN ns |-> Sums(ns)[j - 1]]
=============================================================================
