----------------------------- MODULE MCCatalog -----------------------------
(* Catalog for TLC: what nobody looks at any more is left out of the       *)
(* state: of a transaction that has ended, and, if users are Careful, of   *)
(* a heap whose drop has ended.                                            *)
EXTENDS Catalog, TLC

Symmetry == Permutations(Tx) \cup Permutations(Name)

Open == {t \in Tx : pc[t] # "ended"}
Linked == IF ~Careful THEN gone
          ELSE {Line(n) : n \in {m \in DOMAIN tables : Deleting(m)}}
OpenTxs == <<pages, names, call, pinned, pc, locks, left, Linked,
             [t \in Open |-> state[t]], [t \in Open |-> log[t]]>>
=============================================================================
