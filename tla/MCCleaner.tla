------------------------------ MODULE MCCleaner ------------------------------
(* Instances of Cleaner for TLC.                                           *)
EXTENDS Cleaner, TLC

CONSTANTS
  p, q,             \* Pod names
  w1, w2,           \* event handler threads
  d4, d6,           \* addresses of DANM's CIDRs
  c4, c6            \* addresses managed by Calico

DualStack == {{4, 6}}
V4Only == {{4}}
Mixed == {{4}, {4, 6}}

(* Pods, and threads of the same kind, are interchangeable.                *)
Interchangeable == Permutations(Names) \union Permutations(Workers)
=============================================================================
