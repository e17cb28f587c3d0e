-------------------------------- MODULE Purse --------------------------------
(***************************************************************************)
(* What the ledger of a worker promises, with its rows, records, locks and *)
(* handlers left out: three amounts of money.  What is spent or held must  *)
(* be there, but for what was taken back since; what is paid out was held, *)
(* and leaves the rest as it was.                                          *)
(***************************************************************************)
EXTENDS Integers

VARIABLES
  balance,  \* what was earned, less what was spent, paid out or taken back
  held,     \* redemptions that are not paid out yet
  taken     \* what was taken back of the earnings

vars == <<balance, held, taken>>

\* What could still be spent, had nothing been taken back.
Free == balance - held + taken

Init == balance = 0 /\ held = 0 /\ taken = 0

Earn ==
  /\ balance' >= balance
  /\ UNCHANGED <<held, taken>>

\* Nothing is asked of the balance: it may be spent already.
TakeBack ==
  /\ taken' >= taken
  /\ balance' + taken' = balance + taken
  /\ UNCHANGED held

Spend ==
  /\ balance' <= balance
  /\ Free' >= 0
  /\ UNCHANGED <<held, taken>>

Hold ==
  /\ held' >= held
  /\ Free' >= 0
  /\ UNCHANGED <<balance, taken>>

PayOut ==
  /\ held' <= held /\ held' >= 0
  /\ balance' - held' = balance - held
  /\ UNCHANGED taken

Next == Earn \/ TakeBack \/ Spend \/ Hold \/ PayOut

Spec == Init /\ [][Next]_vars
==============================================================================
