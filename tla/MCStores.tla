------------------------------ MODULE MCStores ------------------------------
(***************************************************************************)
(* What is kept of traffic, on small instances: one bucket of domain-keyed  *)
(* state with room for several entries, the file cache, and the learned     *)
(* baselines with their rows.  They share no variable: a behaviour is one   *)
(* of one of them while the others stay as they started, and threads and    *)
(* tasks are the same.                                                      *)
(***************************************************************************)
EXTENDS ScopedStore, FileCache, Baselines, TLC

CONSTANTS s1, s2, i1, i2, i3, t1, t2, k1

VARIABLE part

StoresInit ==
    /\ part \in {"scoped", "files", "baselines"}
    /\ Init /\ CacheInit /\ BaselineInit
    /\ part # "files" => files = [k \in CacheKeys |-> NoObject]
    /\ part # "baselines" => enabled /\ rows = Empty /\ limit = CHOOSE n \in Limits : TRUE

StoresNext ==
    \/ part = "scoped" /\ Next /\ UNCHANGED <<part, cacheVars, baselineVars>>
    \/ part = "files" /\ CacheNext /\ UNCHANGED <<part, vars, baselineVars>>
    \/ part = "baselines" /\ BaselineNext /\ UNCHANGED <<part, vars, cacheVars>>

StoresSpec == StoresInit /\ [][StoresNext]_<<part, vars, cacheVars, baselineVars>>

Symmetric == Permutations(Threads) \cup Permutations(Identities) \cup Permutations(Slots)
=============================================================================
