-------------------------- MODULE MCJetstreamIndex --------------------------
(***************************************************************************)
(* Small instances of JetstreamIndex for TLC: odd commits mention ann,     *)
(* even ones ann and bob.                                                  *)
(***************************************************************************)
EXTENDS JetstreamIndex, TLC

MCMention == [n \in Commits |-> IF n % 2 = 1 THEN {"ann"} ELSE {"ann", "bob"}]

MCKey == Op \X Rec \X (0..MaxLog)

\* Handlers in flight have no order and hosts differ only in where they stand.
SlotSymmetry == Permutations(Slot) \cup Permutations(Host)
=============================================================================
