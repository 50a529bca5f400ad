---------------------------- MODULE MCInstaller ----------------------------
EXTENDS Installer

CONSTANTS s1, s2, a, g1, g2, l1, l2, l3, l4

(* Skills come before agents, agents before instruction files.             *)
RankByKind ==
  [i \in Items |-> CASE i = s1 -> 1 [] i = s2 -> 2 [] i = a -> 3
                     [] i = g1 -> 4 [] OTHER -> 5]

(* g1 and g2 are one instruction file in two target directories.           *)
BaseName ==
  [i \in Items |-> CASE i = s1 -> l1 [] i = s2 -> l2 [] i = a -> l3 [] OTHER -> l4]
==============================================================================
