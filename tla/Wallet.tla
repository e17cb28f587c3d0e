-------------------------------- MODULE Wallet --------------------------------
(***************************************************************************)
(* The ledger of one worker: the CreditTransaction rows, the payments of   *)
(* the worker's completed and invoiced bookings, the settlement records,   *)
(* and every handler that writes them.  No code relates two ledgers: the   *)
(* row lock, the balance and a dividend's share are per worker.            *)
(*                                                                         *)
(* A handler that decides on what it read earlier is in flight in between: *)
(*                                                                         *)
(*   redeem, debit  hold the worker's row lock, FOR UPDATE, and have found *)
(*                  the balance sufficient                                 *)
(*   review         has read the booking with its payment, if any          *)
(*   settle         has found the redemption PROCESSING                    *)
(*   refund         has found the payment PAID and the payout, if any      *)
(*   dividends      has read the payouts newer than the last dividend      *)
(*                                                                         *)
(* The transaction that follows runs at READ COMMITTED and only writes: it *)
(* is one step, at its commit, and a unique key it would break undoes it.  *)
(* A refusal changes nothing and is not a step.  Amounts are whole units;  *)
(* an operator marked "Variant" is not part of the specification.          *)
(***************************************************************************)
EXTENDS Integers, FiniteSets, Functions

CONSTANTS
  Row,           \* ids of CreditTransaction rows: the bound on the ledger
  Booking,       \* the worker's completed, invoiced bookings
  Request,       \* handler slots: the bound on handlers in flight at once
  Null,
  Amount,        \* the amounts a redemption or an adjustment may name
  Fare,          \* what a booking pays the worker: total less platform fee
  Credit,        \* the feedback credit of a review of 4.5 stars or more
  SharePercent   \* Cooperative.dividendSharePercent

ASSUME AmountAssumption ==
  /\ Amount \subseteq Nat \ {0}
  /\ Fare \in Nat /\ Credit \in Nat /\ SharePercent \in Nat

ASSUME NullAssumption == Null \notin Row \union Booking

VARIABLES
  ledger,      \* the CreditTransaction rows
  settlement,  \* SettlementRecord.status of the row (creditTransactionId unique)
  payment,     \* PaymentTransaction.paymentStatus of the booking (unique)
  reviewed,    \* the bookings that have a Review row (bookingId unique)
  recent,      \* the JOB_PAYOUT rows whose createdAt is past the last dividend
  call,        \* the handlers in flight
  overlapped   \* history: two dividend distributions were once in flight

vars == <<ledger, settlement, payment, reviewed, recent, call, overlapped>>

TransactionType == {"JOB_PAYOUT", "FEEDBACK_CREDIT", "REDEMPTION", "ADJUSTMENT",
                    "REFUND", "REVERSAL", "DIVIDEND_PAYOUT"}

\* booking is the row's referenceBookingId.
Transaction == [type    : TransactionType,
                amount  : Int,
                status  : {"PROCESSING", "COMPLETED"},
                booking : Booking \union {Null}]
NoRow == [type |-> "none", amount |-> 0, status |-> "none", booking |-> Null]

Written == {t \in Row : ledger[t] # NoRow}

-------------------------------------------------------------------------------
(* The balance is derived from the rows, never stored.                     *)

\* Only a REDEMPTION is stored positive and counted negative.
EffectiveContribution(t) ==
  IF ledger[t].type = "REDEMPTION" THEN -ledger[t].amount ELSE ledger[t].amount

Contributions == [t \in Row |-> EffectiveContribution(t)]

Sum(rows) == SumFunctionOnSet(Contributions, rows)

OfType(type) == {t \in Written : ledger[t].type = type}

Available == Sum({t \in Written : ledger[t].status = "COMPLETED"})

Pending ==
  -Sum({t \in OfType("REDEMPTION") : ledger[t].status = "PROCESSING"})

Redeemable == Available - Pending

-------------------------------------------------------------------------------
(* Handlers in flight and new rows.                                        *)

Calls ==
  [op : {"redeem", "debit"}, amount : Amount]
    \union [op : {"review"}, booking : Booking, paid : BOOLEAN]
    \union [op : {"settle"}, row : Row]
    \union [op : {"refund"}, booking : Booking, payout : Row \union {Null}]
    \union [op : {"dividends"}, eligible : SUBSET Row]
Idle == [op |-> "idle"]

Enter(q, handler) ==
  /\ call[q] = Idle
  /\ call' = [call EXCEPT ![q] = handler]

Leave(q) == call' = [call EXCEPT ![q] = Idle]

\* The FOR UPDATE lock on the worker's row is free.
RowLockFree == \A q \in Request : call[q].op \notin {"redeem", "debit"}

Transact(type, amount, status, b) ==
  [type |-> type, amount |-> amount, status |-> status, booking |-> b]

Insert(t, transaction) ==
  /\ ledger[t] = NoRow
  /\ ledger' = [ledger EXCEPT ![t] = transaction]

Init ==
  /\ ledger = [t \in Row |-> NoRow]
  /\ settlement = [t \in Row |-> "none"]
  /\ payment = [b \in Booking |-> "none"]
  /\ reviewed = {}
  /\ recent = {}
  /\ call = [q \in Request |-> Idle]
  /\ overlapped = FALSE

TypeOK ==
  /\ ledger \in [Row -> Transaction \union {NoRow}]
  /\ settlement \in [Row -> {"none", "PENDING", "RECONCILED"}]
  /\ payment \in [Booking -> {"none", "PAID", "REFUNDED"}]
  /\ reviewed \in SUBSET Booking
  /\ recent \in SUBSET Row
  /\ call \in [Request -> Calls \union {Idle}]
  /\ overlapped \in BOOLEAN

-------------------------------------------------------------------------------
(* Redemptions and adjustments.                                            *)

\* Variant: the row lock is not taken.
BeginSpendUnlocked(q, op, amount) ==
  /\ amount <= Redeemable
  /\ Enter(q, [op |-> op, amount |-> amount])
  /\ UNCHANGED <<ledger, settlement, payment, reviewed, recent, overlapped>>

\* redeemWallet, and createWalletAdjustment with direction DEBIT: take the lock,
\* then read the balance.
BeginSpend(q, op, amount) ==
  /\ RowLockFree
  /\ amount <= Redeemable
  /\ Enter(q, [op |-> op, amount |-> amount])
  /\ UNCHANGED <<ledger, settlement, payment, reviewed, recent, overlapped>>

CommitRedeem(q, t) ==
  /\ call[q].op = "redeem"
  /\ Insert(t, Transact("REDEMPTION", call[q].amount, "PROCESSING", Null))
  /\ Leave(q)
  /\ UNCHANGED <<settlement, payment, reviewed, recent, overlapped>>

CommitDebit(q, t) ==
  /\ call[q].op = "debit"
  /\ Insert(t, Transact("ADJUSTMENT", -call[q].amount, "COMPLETED", Null))
  /\ Leave(q)
  /\ UNCHANGED <<settlement, payment, reviewed, recent, overlapped>>

\* createWalletAdjustment with direction CREDIT: no lock, no check.
CreditAdjustment(t, amount) ==
  /\ Insert(t, Transact("ADJUSTMENT", amount, "COMPLETED", Null))
  /\ UNCHANGED <<settlement, payment, reviewed, recent, call, overlapped>>

\* reverseCreditTransaction: only the type of the original is tested, and the
\* row's type and amount never change, so reading it is part of this step.
Reverse(original, t) ==
  /\ original \in Written
  /\ ledger[original].type # "REVERSAL"
  /\ Insert(t, Transact("REVERSAL", -EffectiveContribution(original),
                        "COMPLETED", Null))
  /\ UNCHANGED <<settlement, payment, reviewed, recent, call, overlapped>>

-------------------------------------------------------------------------------
(* Settlements of redemptions.                                             *)

BeginSettle(q, t) ==
  /\ ledger[t].type = "REDEMPTION"
  /\ ledger[t].status = "PROCESSING"
  /\ Enter(q, [op |-> "settle", row |-> t])
  /\ UNCHANGED <<ledger, settlement, payment, reviewed, recent, overlapped>>

\* Variant: the record is written without its unique key.
CommitSettleAgain(q) ==
  /\ call[q].op = "settle"
  /\ settlement' = [settlement EXCEPT ![call[q].row] = "PENDING"]
  /\ ledger' = [ledger EXCEPT ![call[q].row].status = "COMPLETED"]
  /\ Leave(q)
  /\ UNCHANGED <<payment, reviewed, recent, overlapped>>

\* Variant: the record is written, the redemption is left PROCESSING.
CommitSettleRecordOnly(q) ==
  /\ call[q].op = "settle"
  /\ settlement[call[q].row] = "none"
  /\ settlement' = [settlement EXCEPT ![call[q].row] = "PENDING"]
  /\ Leave(q)
  /\ UNCHANGED <<ledger, payment, reviewed, recent, overlapped>>

\* Variant: the status of the record is written to the row.
CommitSettleMixed(q) ==
  /\ call[q].op = "settle"
  /\ settlement[call[q].row] = "none"
  /\ settlement' = [settlement EXCEPT ![call[q].row] = "PENDING"]
  /\ ledger' = [ledger EXCEPT ![call[q].row].status = "PENDING"]
  /\ Leave(q)
  /\ UNCHANGED <<payment, reviewed, recent, overlapped>>

\* The unique key of SettlementRecord lets one of two settlements commit.
CommitSettle(q) ==
  /\ call[q].op = "settle"
  /\ settlement[call[q].row] = "none"
  /\ settlement' = [settlement EXCEPT ![call[q].row] = "PENDING"]
  /\ ledger' = [ledger EXCEPT ![call[q].row].status = "COMPLETED"]
  /\ Leave(q)
  /\ UNCHANGED <<payment, reviewed, recent, overlapped>>

\* reconcileSettlement: its update writes what it would write again.
Reconcile(t) ==
  /\ settlement[t] = "PENDING"
  /\ settlement' = [settlement EXCEPT ![t] = "RECONCILED"]
  /\ UNCHANGED <<ledger, payment, reviewed, recent, call, overlapped>>

-------------------------------------------------------------------------------
(* Payments, payouts and refunds of bookings.                              *)

\* recordPaymentMethod: the pre-read and the unique key ask the same thing.
RecordPayment(b) ==
  /\ payment[b] = "none"
  /\ payment' = [payment EXCEPT ![b] = "PAID"]
  /\ UNCHANGED <<ledger, settlement, reviewed, recent, call, overlapped>>

BeginReview(q, b) ==
  /\ b \notin reviewed
  /\ Enter(q, [op |-> "review", booking |-> b, paid |-> payment[b] # "none"])
  /\ UNCHANGED <<ledger, settlement, payment, reviewed, recent, overlapped>>

\* The worker's earnings and, if the score is high enough, the feedback credit.
MintPayout(b, t, u, bonus) ==
  /\ ledger[t] = NoRow
  /\ recent' = recent \union {t}
  /\ IF bonus
       THEN /\ ledger[u] = NoRow /\ u # t
            /\ ledger' = [ledger EXCEPT
                 ![t] = Transact("JOB_PAYOUT", Fare, "COMPLETED", b),
                 ![u] = Transact("FEEDBACK_CREDIT", Credit, "COMPLETED", b)]
       ELSE /\ u = t
            /\ Insert(t, Transact("JOB_PAYOUT", Fare, "COMPLETED", b))

\* submitReview's transaction.  Review.bookingId and PaymentTransaction.invoiceId
\* are unique: a second review, or a payment recorded since the booking was
\* read, undoes it as a whole.
CommitReview(q, t, u, bonus) ==
  LET b == call[q].booking IN
  /\ call[q].op = "review"
  /\ b \notin reviewed
  /\ call[q].paid \/ payment[b] = "none"
  /\ reviewed' = reviewed \union {b}
  /\ payment' = IF call[q].paid THEN payment ELSE [payment EXCEPT ![b] = "PAID"]
  /\ MintPayout(b, t, u, bonus)
  /\ Leave(q)
  /\ UNCHANGED <<settlement, overlapped>>

PayoutRow(b) == {t \in OfType("JOB_PAYOUT") : ledger[t].booking = b}

\* refundBooking's two reads.
BeginRefund(q, b) ==
  /\ payment[b] = "PAID"
  /\ \E payout \in Row \union {Null} :
       /\ payout \in PayoutRow(b) \/ (payout = Null /\ PayoutRow(b) = {})
       /\ Enter(q, [op |-> "refund", booking |-> b, payout |-> payout])
  /\ UNCHANGED <<ledger, settlement, payment, reviewed, recent, overlapped>>

\* The REFUND row carries the payout's amount with its sign unchanged.
CommitRefund(q, t) ==
  /\ call[q].op = "refund"
  /\ payment' = [payment EXCEPT ![call[q].booking] = "REFUNDED"]
  /\ IF call[q].payout = Null
       THEN ledger' = ledger
       ELSE Insert(t, Transact("REFUND", ledger[call[q].payout].amount,
                               "COMPLETED", call[q].booking))
  /\ Leave(q)
  /\ UNCHANGED <<settlement, reviewed, recent, overlapped>>

-------------------------------------------------------------------------------
(* Dividends.                                                              *)

\* Rounded to the nearest unit.
Share(rows) == (Sum(rows) * SharePercent + 50) \div 100

\* distributeDividends' reads: no transaction and no lock around what follows.
BeginDividends(q) ==
  /\ Share(recent) > 0
  /\ Enter(q, [op |-> "dividends", eligible |-> recent])
  /\ overlapped' = (overlapped \/ \E p \in Request : call[p].op = "dividends")
  /\ UNCHANGED <<ledger, settlement, payment, reviewed, recent>>

\* Variant: earlier dividends are not looked at.
CommitDividendsNoCutoff(q, t) ==
  /\ call[q].op = "dividends"
  /\ Insert(t, Transact("DIVIDEND_PAYOUT", Share(call[q].eligible), "COMPLETED", Null))
  /\ Leave(q)
  /\ UNCHANGED <<settlement, payment, reviewed, recent, overlapped>>

\* Every payout written so far is now older than the last dividend.
CommitDividends(q, t) ==
  /\ call[q].op = "dividends"
  /\ Insert(t, Transact("DIVIDEND_PAYOUT", Share(call[q].eligible), "COMPLETED", Null))
  /\ recent' = {}
  /\ Leave(q)
  /\ UNCHANGED <<settlement, payment, reviewed, overlapped>>

-------------------------------------------------------------------------------
\* The transaction is rolled back: a unique key, an error, a timeout, a crash.
Abort(q) ==
  /\ call[q] # Idle
  /\ Leave(q)
  /\ UNCHANGED <<ledger, settlement, payment, reviewed, recent, overlapped>>

Spend ==
  \E q \in Request :
    \/ \E op \in {"redeem", "debit"}, amount \in Amount : BeginSpend(q, op, amount)
    \/ \E t \in Row : CommitRedeem(q, t) \/ CommitDebit(q, t)

Adjust ==
  \E t \in Row :
    \/ \E amount \in Amount : CreditAdjustment(t, amount)
    \/ \E original \in Row : Reverse(original, t)

Settle ==
  \/ \E q \in Request : CommitSettle(q) \/ \E t \in Row : BeginSettle(q, t)
  \/ \E t \in Row : Reconcile(t)

Book ==
  \/ \E b \in Booking : RecordPayment(b)
  \/ \E q \in Request, b \in Booking : BeginReview(q, b) \/ BeginRefund(q, b)
  \/ \E q \in Request, t, u \in Row, bonus \in BOOLEAN : CommitReview(q, t, u, bonus)
  \/ \E q \in Request, t \in Row : CommitRefund(q, t)

Distribute ==
  \E q \in Request : BeginDividends(q) \/ \E t \in Row : CommitDividends(q, t)

Next == Spend \/ Adjust \/ Settle \/ Book \/ Distribute \/ \E q \in Request : Abort(q)

Spec == Init /\ [][Next]_vars

-------------------------------------------------------------------------------
(* Properties.                                                             *)

\* What reversals took back from the worker.
ReversedOut == {t \in OfType("REVERSAL") : ledger[t].amount < 0}

\* redeemWallet and the DEBIT adjustment never spend what is not there, whatever
\* runs beside them: the redeemable balance is below zero by no more than what
\* reversals took back after it was spent.  PurseContract implies it.
OverdraftIsReversal == Redeemable >= Sum(ReversedOut)

\* settleRedemption: a redemption is COMPLETED exactly when a settlement was
\* recorded for it, and no other row is ever settled.
SettledIsRecorded ==
  \A t \in Row :
    settlement[t] # "none" <=>
      ledger[t].type = "REDEMPTION" /\ ledger[t].status = "COMPLETED"

\* distributeDividends: unless two distributions overlapped, the worker has been
\* paid no more than the share of the payouts so far, half a unit of rounding
\* for each dividend apart.
DividendsAreShares ==
  ~overlapped =>
    100 * Sum(OfType("DIVIDEND_PAYOUT")) <=
      SharePercent * Sum(OfType("JOB_PAYOUT"))
        + 50 * Cardinality(OfType("DIVIDEND_PAYOUT"))

\* The contract of Purse.tla: every step of every handler moves money in one of
\* its ways.  A redemption is held out of what is there and paid out as it was
\* held, a debit spends what is there, a reversal takes back what it reverses,
\* and all else is earned (redeemWallet, settleRedemption, createWalletAdjustment,
\* reverseCreditTransaction, submitReview, refundBooking, distributeDividends).
Contract == INSTANCE Purse WITH
              balance <- Available, held <- Pending, taken <- -Sum(ReversedOut)

PurseContract == Contract!Spec

\* One-way changes of a record: what is written is never undone or repeated.
Advances(old, new) ==
  old = new \/ <<old, new>> \in
    {<<"none", "PENDING">>, <<"PENDING", "RECONCILED">>,
     <<"none", "PAID">>, <<"PAID", "REFUNDED">>,
     <<"PROCESSING", "COMPLETED">>}

\* Ledger rows are append-only but for PROCESSING -> COMPLETED, a settlement goes
\* on to RECONCILED and a payment to REFUNDED, and neither ever comes back,
\* whichever handlers meet (settle, reconcile, review, refund, payment-method).
RecordsOnlyAdvance ==
  [][/\ \A t \in Row :
          /\ Advances(settlement[t], settlement'[t])
          /\ t \in Written =>
               /\ Advances(ledger[t].status, ledger'[t].status)
               /\ ledger'[t] = [ledger[t] EXCEPT !.status = ledger'[t].status]
     /\ \A b \in Booking : Advances(payment[b], payment'[b])]_vars
=============================================================================
