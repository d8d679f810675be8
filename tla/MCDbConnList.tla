---------------------------- MODULE MCDbConnList ----------------------------
(* Instances of DbConnList for TLC: connections and threads are alike.      *)
EXTENDS DbConnList, TLC

Alike == Permutations(Handles) \cup Permutations(Users)
=============================================================================
