-------------------------- MODULE MCEntryLifecycle ---------------------------
(* EntryLifecycle for TLC: entries are interchangeable.                      *)
EXTENDS EntryLifecycle, TLC

Symmetry == Permutations(Entries)
=============================================================================
