----------------------------- MODULE MCAccounts -----------------------------
(***************************************************************************)
(* Small instances of Accounts.  Both tabs are in one browser and share    *)
(* its cookie; rows and slots are interchangeable, and so are the tabs.    *)
(***************************************************************************)
EXTENDS Accounts, TLC

OneBrowser == [t \in Tab |-> CHOOSE b \in Browser : TRUE]

Symmetry == Permutations(Row) \union Permutations(Slot) \union Permutations(Tab)
=============================================================================
