----------------------------- MODULE WalletProofs -----------------------------
(***************************************************************************)
(* Wallet, for every number of rows, bookings and handlers, and every      *)
(* amount, fare, credit and percentage.                                    *)
(*                                                                         *)
(*   WalletInv    the shape of the rows, and what a handler in flight may  *)
(*                rely on: a settlement names a redemption, and a payment  *)
(*                found PAID is still PAID, or REFUNDED by another refund  *)
(*   LedgerInv    adds the amounts: a payout pays the fare, and the        *)
(*                payouts a refund or a dividend has read stay             *)
(*   SpendInv     whoever holds the row lock is alone, and what it found   *)
(*                sufficient still is, reversals apart                     *)
(*   DividendInv  what was paid is the share of the payouts before the     *)
(*                last dividend, and a distribution in flight has read     *)
(*                newer ones                                               *)
(*   RedeemedInv  no redemption is of a negative amount                    *)
(*                                                                         *)
(* Balances and shares are sums over the ledger.  The facts about sums     *)
(* come first: each is proved from a minimal set that would refute it.     *)
(***************************************************************************)
EXTENDS Wallet, FiniteSetTheorems, WellFoundedInduction, TLAPS

\* Every row is as Transact or NoRow make it, whatever its amount.
LedgerShape ==
  /\ ledger = [t \in Row |-> Transact(ledger[t].type, ledger[t].amount,
                                      ledger[t].status, ledger[t].booking)]
  /\ \A t \in Row :
       ledger[t] # NoRow => /\ ledger[t].type \in TransactionType
                            /\ ledger[t].status \in {"PROCESSING", "COMPLETED"}

\* What a call in flight relies on.
CallShape ==
  /\ call \in [Request -> Calls \union {Idle}]
  /\ \A q \in Request :
       /\ call[q].op = "settle" => ledger[call[q].row].type = "REDEMPTION"
       /\ call[q].op = "refund" => payment[call[q].booking] # "none"

RecordShape ==
  /\ settlement \in [Row -> {"none", "PENDING", "RECONCILED"}]
  /\ payment \in [Booking -> {"none", "PAID", "REFUNDED"}]
  /\ recent \in SUBSET Row

WalletInv == LedgerShape /\ CallShape /\ RecordShape /\ SettledIsRecorded

-------------------------------------------------------------------------------
\* What a new row changes: itself only, which no settlement and no call names.
LEMMA InsertKeeps ==
  ASSUME WalletInv, NEW t \in Row, NEW type \in TransactionType, NEW amount,
         NEW status \in {"PROCESSING", "COMPLETED"}, NEW b,
         type = "REDEMPTION" => status = "PROCESSING",
         Insert(t, Transact(type, amount, status, b))
  PROVE  /\ LedgerShape'
         /\ \A s \in Row : ledger[s] # NoRow => ledger'[s] = ledger[s]
         /\ settlement' = settlement => SettledIsRecorded'
         /\ \A s \in Row : ledger[s].type = "REDEMPTION" => ledger'[s].type = "REDEMPTION"
<1>1. /\ ledger[t] = NoRow
      /\ ledger' = [ledger EXCEPT ![t] = Transact(type, amount, status, b)]
  BY DEF Insert
<1>2. /\ ledger'[t] = Transact(type, amount, status, b)
      /\ \A s \in Row \ {t} : ledger'[s] = ledger[s]
  BY <1>1 DEF WalletInv, LedgerShape
<1>3. LedgerShape'
  BY <1>1, <1>2 DEF WalletInv, LedgerShape, Transact, NoRow
<1>4. \A s \in Row : ledger[s] # NoRow => ledger'[s] = ledger[s]
  BY <1>1, <1>2
<1>5. settlement' = settlement => SettledIsRecorded'
  BY <1>1, <1>2 DEF WalletInv, SettledIsRecorded, Transact, NoRow
<1>6. \A s \in Row : ledger[s].type = "REDEMPTION" => ledger'[s].type = "REDEMPTION"
  BY <1>1, <1>2 DEF NoRow
<1> QED BY <1>3, <1>4, <1>5, <1>6

\* A call that leaves disturbs nothing of the others.
LEMMA LeaveKeeps ==
  ASSUME CallShape, NEW q \in Request, Leave(q),
         \A t \in Row : ledger[t].type = "REDEMPTION" => ledger'[t].type = "REDEMPTION",
         \A b \in Booking : payment[b] # "none" => payment'[b] # "none"
  PROVE  CallShape'
<1>1. call' \in [Request -> Calls \union {Idle}]
  BY DEF CallShape, Leave
<1>2. \A p \in Request : call'[p] = call[p] \/ call'[p] = Idle
  BY DEF CallShape, Leave
<1>3. ASSUME NEW p \in Request
      PROVE  /\ call[p].op = "settle" => call[p].row \in Row
             /\ call[p].op = "refund" => call[p].booking \in Booking
  BY DEF CallShape, Calls, Idle
<1> QED BY <1>1, <1>2, <1>3 DEF CallShape, Idle

\* Calls that enter, with what they have just read.
LEMMA EnterKeeps ==
  ASSUME WalletInv, NEW q \in Request, NEW handler \in Calls, Enter(q, handler),
         handler.op = "settle" => ledger[handler.row].type = "REDEMPTION",
         handler.op = "refund" => payment[handler.booking] # "none",
         UNCHANGED <<ledger, settlement, payment, recent>>
  PROVE  WalletInv'
<1>1. CallShape'
  <2>1. call' \in [Request -> Calls \union {Idle}]
    BY DEF WalletInv, CallShape, Enter
  <2>2. call'[q] = handler /\ \A p \in Request \ {q} : call'[p] = call[p]
    BY DEF WalletInv, CallShape, Enter
  <2> QED BY <2>1, <2>2 DEF WalletInv, CallShape
<1> QED BY <1>1 DEF WalletInv, LedgerShape, RecordShape, SettledIsRecorded

\* A step that only writes new rows, and at most records a payment.
LEMMA RowsAndPayments ==
  ASSUME WalletInv, LedgerShape', settlement' = settlement, SettledIsRecorded',
         CallShape',
         payment' \in [Booking -> {"none", "PAID", "REFUNDED"}],
         recent' \in SUBSET Row
  PROVE  WalletInv'
BY DEF WalletInv, RecordShape

LEMMA SpendKeeps == WalletInv /\ Spend => WalletInv'
<1> SUFFICES ASSUME WalletInv, NEW q \in Request,
                    \/ \E op \in {"redeem", "debit"}, amount \in Amount :
                         BeginSpend(q, op, amount)
                    \/ \E t \in Row : CommitRedeem(q, t) \/ CommitDebit(q, t)
             PROVE  WalletInv'
  BY DEF Spend
<1>1. ASSUME NEW op \in {"redeem", "debit"}, NEW amount \in Amount,
             BeginSpend(q, op, amount)
      PROVE  WalletInv'
  <2>1. [op |-> op, amount |-> amount] \in Calls
    BY DEF Calls
  <2> QED BY <1>1, <2>1, EnterKeeps DEF BeginSpend
<1>2. ASSUME NEW t \in Row, CommitRedeem(q, t) \/ CommitDebit(q, t)
      PROVE  WalletInv'
  <2>1. Leave(q)
    BY <1>2 DEF CommitRedeem, CommitDebit
  <2>2. UNCHANGED <<settlement, payment, recent>>
    BY <1>2 DEF CommitRedeem, CommitDebit
  <2>3. /\ LedgerShape'
        /\ SettledIsRecorded'
        /\ \A s \in Row : ledger[s].type = "REDEMPTION" => ledger'[s].type = "REDEMPTION"
    <3>1. CASE CommitRedeem(q, t)
      <4>1. Insert(t, Transact("REDEMPTION", call[q].amount, "PROCESSING", Null))
        BY <3>1 DEF CommitRedeem
      <4>2. "REDEMPTION" \in TransactionType
        BY DEF TransactionType
      <4> QED BY <2>2, <4>1, <4>2, InsertKeeps
    <3>2. CASE CommitDebit(q, t)
      <4>1. Insert(t, Transact("ADJUSTMENT", -call[q].amount, "COMPLETED", Null))
        BY <3>2 DEF CommitDebit
      <4>2. "ADJUSTMENT" \in TransactionType
        BY DEF TransactionType
      <4> QED BY <2>2, <4>1, <4>2, InsertKeeps
    <3> QED BY <1>2, <3>1, <3>2
  <2>4. CallShape'
    BY <2>1, <2>2, <2>3, LeaveKeeps DEF WalletInv
  <2> QED BY <2>2, <2>3, <2>4, RowsAndPayments DEF WalletInv, RecordShape
<1> QED BY <1>1, <1>2

LEMMA AdjustKeeps == WalletInv /\ Adjust => WalletInv'
<1> SUFFICES ASSUME WalletInv, NEW t \in Row,
                    \/ \E amount \in Amount : CreditAdjustment(t, amount)
                    \/ \E original \in Row : Reverse(original, t)
             PROVE  WalletInv'
  BY DEF Adjust
<1>0. PICK amount : \E type \in {"ADJUSTMENT", "REVERSAL"} :
        Insert(t, Transact(type, amount, "COMPLETED", Null))
  BY DEF CreditAdjustment, Reverse
<1>1. PICK type \in {"ADJUSTMENT", "REVERSAL"} :
        Insert(t, Transact(type, amount, "COMPLETED", Null))
  BY <1>0
<1>2. UNCHANGED <<settlement, payment, recent, call>>
  BY DEF CreditAdjustment, Reverse
<1>3. type \in TransactionType /\ type # "REDEMPTION"
  BY DEF TransactionType
<1>4. /\ LedgerShape'
      /\ SettledIsRecorded'
      /\ \A s \in Row : ledger[s].type = "REDEMPTION" => ledger'[s].type = "REDEMPTION"
  BY <1>1, <1>2, <1>3, InsertKeeps
<1>5. CallShape'
  BY <1>2, <1>4 DEF WalletInv, CallShape, Calls, Idle
<1> QED BY <1>2, <1>4, <1>5, RowsAndPayments DEF WalletInv, RecordShape

LEMMA SettleKeeps == WalletInv /\ Settle => WalletInv'
<1> SUFFICES ASSUME WalletInv, Settle
             PROVE  WalletInv'
  OBVIOUS
<1>1. ASSUME NEW q \in Request, NEW t \in Row, BeginSettle(q, t)
      PROVE  WalletInv'
  <2>1. [op |-> "settle", row |-> t] \in Calls
    BY DEF Calls
  <2> QED BY <1>1, <2>1, EnterKeeps DEF BeginSettle
<1>2. ASSUME NEW q \in Request, CommitSettle(q)
      PROVE  WalletInv'
  <2>1. call[q].row \in Row /\ ledger[call[q].row].type = "REDEMPTION"
    BY <1>2 DEF CommitSettle, WalletInv, CallShape, Calls, Idle
  <2> DEFINE t == call[q].row
  <2>2. /\ \A s \in Row \ {t} : ledger'[s] = ledger[s]
        /\ ledger'[t] = Transact("REDEMPTION", ledger[t].amount, "COMPLETED",
                                 ledger[t].booking)
        /\ ledger' = [s \in Row |-> ledger'[s]]
    <3> HIDE DEF t
    <3>1. DOMAIN ledger = Row /\ t \in Row
      BY <2>1 DEF WalletInv, LedgerShape, t
    <3>2. ledger[t] = Transact("REDEMPTION", ledger[t].amount, ledger[t].status,
                               ledger[t].booking)
      BY <2>1, <3>1 DEF WalletInv, LedgerShape, t
    <3>3. ledger' = [ledger EXCEPT ![t].status = "COMPLETED"]
      BY <1>2 DEF CommitSettle, t
    <3>4. ledger'[t] = [ledger[t] EXCEPT !.status = "COMPLETED"]
      BY <3>1, <3>3
    <3>5. ledger'[t] = Transact("REDEMPTION", ledger[t].amount, "COMPLETED",
                                ledger[t].booking)
      BY <3>2, <3>4 DEF Transact
    <3> QED BY <3>1, <3>3, <3>5
  <2> HIDE DEF t
  <2>3. LedgerShape'
    BY <2>2 DEF WalletInv, LedgerShape, Transact, NoRow, TransactionType
  <2>4. /\ settlement' \in [Row -> {"none", "PENDING", "RECONCILED"}]
        /\ settlement'[t] = "PENDING"
        /\ \A s \in Row \ {t} : settlement'[s] = settlement[s]
    BY <1>2, <2>1 DEF CommitSettle, WalletInv, RecordShape, t
  <2>5. SettledIsRecorded'
    BY <2>2, <2>4 DEF WalletInv, SettledIsRecorded, Transact
  <2>6. CallShape'
    <3>1. \A s \in Row : ledger[s].type = "REDEMPTION" => ledger'[s].type = "REDEMPTION"
      BY <2>2 DEF Transact
    <3> QED BY <1>2, <3>1, LeaveKeeps DEF CommitSettle, WalletInv
  <2> QED BY <1>2, <2>3, <2>4, <2>5, <2>6 DEF CommitSettle, WalletInv, RecordShape
<1>3. ASSUME NEW t \in Row, Reconcile(t)
      PROVE  WalletInv'
  BY <1>3 DEF Reconcile, WalletInv, LedgerShape, CallShape, RecordShape, SettledIsRecorded
<1> QED BY <1>1, <1>2, <1>3 DEF Settle

LEMMA BookKeeps == WalletInv /\ Book => WalletInv'
<1> SUFFICES ASSUME WalletInv, Book
             PROVE  WalletInv'
  OBVIOUS
<1>1. ASSUME NEW b \in Booking, RecordPayment(b)
      PROVE  WalletInv'
  BY <1>1 DEF RecordPayment, WalletInv, LedgerShape, CallShape, RecordShape,
              SettledIsRecorded, Calls, Idle
<1>2. ASSUME NEW q \in Request, NEW b \in Booking, BeginReview(q, b)
      PROVE  WalletInv'
  <2> DEFINE handler == [op |-> "review", booking |-> b, paid |-> payment[b] # "none"]
  <2>1. handler \in Calls /\ handler.op = "review"
    BY DEF Calls
  <2>2. Enter(q, handler) /\ UNCHANGED <<ledger, settlement, payment, recent>>
    BY <1>2 DEF BeginReview
  <2> HIDE DEF handler
  <2> QED BY <2>1, <2>2, EnterKeeps
<1>3. ASSUME NEW q \in Request, NEW b \in Booking, BeginRefund(q, b)
      PROVE  WalletInv'
  <2>1. PICK payout \in Row \union {Null} :
          Enter(q, [op |-> "refund", booking |-> b, payout |-> payout])
    BY <1>3 DEF BeginRefund
  <2>2. [op |-> "refund", booking |-> b, payout |-> payout] \in Calls
    BY DEF Calls
  <2> QED BY <1>3, <2>1, <2>2, EnterKeeps DEF BeginRefund
<1>4. ASSUME NEW q \in Request, NEW t \in Row, NEW u \in Row, NEW bonus \in BOOLEAN,
             CommitReview(q, t, u, bonus)
      PROVE  WalletInv'
  <2> DEFINE b == call[q].booking
  <2>1. b \in Booking
    BY <1>4 DEF CommitReview, WalletInv, CallShape, Calls, Idle
  <2>2. /\ LedgerShape'
        /\ SettledIsRecorded'
        /\ \A s \in Row : ledger[s].type = "REDEMPTION" => ledger'[s].type = "REDEMPTION"
    <3>1. CASE bonus
      <4>1. /\ ledger[t] = NoRow /\ ledger[u] = NoRow /\ u # t
            /\ ledger' = [ledger EXCEPT
                 ![t] = Transact("JOB_PAYOUT", Fare, "COMPLETED", b),
                 ![u] = Transact("FEEDBACK_CREDIT", Credit, "COMPLETED", b)]
            /\ settlement' = settlement
        BY <1>4, <3>1 DEF CommitReview, MintPayout
      <4>2. /\ ledger'[t] = Transact("JOB_PAYOUT", Fare, "COMPLETED", b)
            /\ ledger'[u] = Transact("FEEDBACK_CREDIT", Credit, "COMPLETED", b)
            /\ \A s \in Row \ {t, u} : ledger'[s] = ledger[s]
            /\ ledger' = [s \in Row |-> ledger'[s]]
        BY <4>1 DEF WalletInv, LedgerShape
      <4> HIDE DEF b
      <4>3. \A s \in Row : ledger'[s] = Transact(ledger'[s].type, ledger'[s].amount,
                                                 ledger'[s].status, ledger'[s].booking)
        BY <4>2 DEF WalletInv, LedgerShape, Transact
      <4>4. \A s \in Row :
              ledger'[s] # NoRow => /\ ledger'[s].type \in TransactionType
                                    /\ ledger'[s].status \in {"PROCESSING", "COMPLETED"}
        BY <4>2 DEF WalletInv, LedgerShape, Transact, TransactionType
      <4>5. LedgerShape'
        <5>1. [s \in Row |-> ledger'[s]]
                = [s \in Row |-> Transact(ledger'[s].type, ledger'[s].amount,
                                          ledger'[s].status, ledger'[s].booking)]
          BY <4>3
        <5> QED BY <4>2, <4>4, <5>1 DEF LedgerShape
      <4>6. SettledIsRecorded'
        <5>1. \A s \in {t, u} : settlement[s] = "none"
          BY <4>1 DEF WalletInv, SettledIsRecorded, NoRow
        <5>2. \A s \in {t, u} : ledger'[s].type # "REDEMPTION"
          BY <4>2 DEF Transact
        <5>3. \A s \in Row \ {t, u} : ledger'[s] = ledger[s]
          BY <4>2
        <5> QED BY <4>1, <5>1, <5>2, <5>3 DEF WalletInv, SettledIsRecorded
      <4>7. \A s \in Row : ledger[s].type = "REDEMPTION" => ledger'[s].type = "REDEMPTION"
        <5>1. \A s \in {t, u} : ledger[s].type # "REDEMPTION"
          BY <4>1 DEF NoRow
        <5>2. \A s \in Row \ {t, u} : ledger'[s] = ledger[s]
          BY <4>2
        <5> QED BY <5>1, <5>2
      <4> QED BY <4>5, <4>6, <4>7
    <3>2. CASE ~bonus
      <4>1. /\ Insert(t, Transact("JOB_PAYOUT", Fare, "COMPLETED", b))
            /\ settlement' = settlement
        BY <1>4, <3>2 DEF CommitReview, MintPayout
      <4>2. "JOB_PAYOUT" \in TransactionType
        BY DEF TransactionType
      <4> QED BY <4>1, <4>2, InsertKeeps
    <3> QED BY <3>1, <3>2
  <2>3. /\ payment' \in [Booking -> {"none", "PAID", "REFUNDED"}]
        /\ \A c \in Booking : payment[c] # "none" => payment'[c] # "none"
        /\ recent' \in SUBSET Row
    BY <1>4, <2>1 DEF CommitReview, MintPayout, WalletInv, RecordShape
  <2>4. CallShape'
    BY <1>4, <2>2, <2>3, LeaveKeeps DEF CommitReview, WalletInv
  <2> QED BY <1>4, <2>2, <2>3, <2>4, RowsAndPayments DEF CommitReview
<1>5. ASSUME NEW q \in Request, NEW t \in Row, CommitRefund(q, t)
      PROVE  WalletInv'
  <2>1. /\ LedgerShape'
        /\ SettledIsRecorded'
        /\ \A s \in Row : ledger[s].type = "REDEMPTION" => ledger'[s].type = "REDEMPTION"
    <3>1. CASE call[q].payout = Null
      BY <1>5, <3>1 DEF CommitRefund, WalletInv, LedgerShape, SettledIsRecorded
    <3>2. CASE call[q].payout # Null
      <4>1. Insert(t, Transact("REFUND", ledger[call[q].payout].amount,
                               "COMPLETED", call[q].booking))
        BY <1>5, <3>2 DEF CommitRefund
      <4>2. "REFUND" \in TransactionType /\ settlement' = settlement
        BY <1>5 DEF TransactionType, CommitRefund
      <4> QED BY <4>1, <4>2, InsertKeeps
    <3> QED BY <3>1, <3>2
  <2>2. /\ payment' \in [Booking -> {"none", "PAID", "REFUNDED"}]
        /\ \A c \in Booking : payment[c] # "none" => payment'[c] # "none"
        /\ recent' \in SUBSET Row
    BY <1>5 DEF CommitRefund, WalletInv, RecordShape
  <2>3. CallShape'
    BY <1>5, <2>1, <2>2, LeaveKeeps DEF CommitRefund, WalletInv
  <2> QED BY <1>5, <2>1, <2>2, <2>3, RowsAndPayments DEF CommitRefund
<1> QED BY <1>1, <1>2, <1>3, <1>4, <1>5 DEF Book

LEMMA DistributeKeeps == WalletInv /\ Distribute => WalletInv'
<1> SUFFICES ASSUME WalletInv, NEW q \in Request,
                    BeginDividends(q) \/ \E t \in Row : CommitDividends(q, t)
             PROVE  WalletInv'
  BY DEF Distribute
<1>1. CASE BeginDividends(q)
  <2>1. [op |-> "dividends", eligible |-> recent] \in Calls
    BY DEF Calls, WalletInv, RecordShape
  <2> QED BY <1>1, <2>1, EnterKeeps DEF BeginDividends
<1>2. ASSUME NEW t \in Row, CommitDividends(q, t)
      PROVE  WalletInv'
  <2>1. "DIVIDEND_PAYOUT" \in TransactionType
    BY DEF TransactionType
  <2>2. /\ Insert(t, Transact("DIVIDEND_PAYOUT", Share(call[q].eligible),
                              "COMPLETED", Null))
        /\ Leave(q)
        /\ UNCHANGED <<settlement, payment>>
        /\ recent' \in SUBSET Row
    BY <1>2 DEF CommitDividends
  <2>3. /\ LedgerShape'
        /\ SettledIsRecorded'
        /\ \A s \in Row : ledger[s].type = "REDEMPTION" => ledger'[s].type = "REDEMPTION"
    BY <2>1, <2>2, InsertKeeps
  <2>4. CallShape'
    BY <2>2, <2>3, LeaveKeeps DEF WalletInv
  <2> QED BY <2>2, <2>3, <2>4, RowsAndPayments DEF WalletInv, RecordShape
<1> QED BY <1>1, <1>2

LEMMA NextWalletInv == WalletInv /\ [Next]_vars => WalletInv'
<1> SUFFICES ASSUME WalletInv, [Next]_vars
             PROVE  WalletInv'
  OBVIOUS
<1>1. ASSUME NEW q \in Request, Abort(q)
      PROVE  WalletInv'
  <2>1. UNCHANGED <<ledger, settlement, payment, recent>> /\ Leave(q)
    BY <1>1 DEF Abort
  <2>2. CallShape'
    BY <2>1, LeaveKeeps DEF WalletInv
  <2> QED BY <2>1, <2>2 DEF WalletInv, LedgerShape, RecordShape, SettledIsRecorded
<1>2. CASE UNCHANGED vars
  BY <1>2 DEF vars, WalletInv, LedgerShape, CallShape, RecordShape, SettledIsRecorded
<1> QED BY <1>1, <1>2, SpendKeeps, AdjustKeeps, SettleKeeps, BookKeeps, DistributeKeeps
        DEF Next

LEMMA InitWalletInv == Init => WalletInv
<1> SUFFICES ASSUME Init
             PROVE  WalletInv
  OBVIOUS
<1>1. LedgerShape
  BY DEF Init, LedgerShape, Transact, NoRow
<1>2. CallShape
  BY DEF Init, CallShape, Idle
<1>3. RecordShape /\ SettledIsRecorded
  BY DEF Init, RecordShape, SettledIsRecorded, NoRow
<1> QED BY <1>1, <1>2, <1>3 DEF WalletInv

\* settleRedemption and the unique key of its record: in every reachable state a
\* redemption is COMPLETED exactly when its settlement is recorded.
THEOREM SettledIsRecordedAlways == Spec => []SettledIsRecorded
<1>1. WalletInv => SettledIsRecorded
  BY DEF WalletInv
<1> QED BY InitWalletInv, NextWalletInv, <1>1, PTL DEF Spec

-------------------------------------------------------------------------------
(* No record goes back.                                                    *)

RowsAdvance ==
  \A t \in Row :
    /\ Advances(settlement[t], settlement'[t])
    /\ t \in Written =>
         /\ Advances(ledger[t].status, ledger'[t].status)
         /\ ledger'[t] = [ledger[t] EXCEPT !.status = ledger'[t].status]

PaymentsAdvance == \A b \in Booking : Advances(payment[b], payment'[b])

\* A row that is left alone has advanced.
LEMMA SameRow ==
  ASSUME WalletInv, NEW t \in Row, ledger'[t] = ledger[t]
  PROVE  /\ Advances(ledger[t].status, ledger'[t].status)
         /\ ledger'[t] = [ledger[t] EXCEPT !.status = ledger'[t].status]
<1>1. ledger[t] = Transact(ledger[t].type, ledger[t].amount,
                           ledger[t].status, ledger[t].booking)
  BY DEF WalletInv, LedgerShape
<1> QED BY <1>1 DEF Advances, Transact

LEMMA NewRowsAdvance ==
  ASSUME WalletInv, settlement' = settlement,
         \A t \in Row : ledger[t] # NoRow => ledger'[t] = ledger[t]
  PROVE  RowsAdvance
<1>1. \A t \in Row : Advances(settlement[t], settlement'[t])
  BY DEF Advances
<1> QED BY <1>1, SameRow DEF RowsAdvance, Written

\* A row is inserted where there was none.
LEMMA InsertsOnly ==
  ASSUME WalletInv,
         \/ Spend \/ Adjust \/ Distribute
         \/ \E q \in Request, t \in Row : CommitRefund(q, t)
         \/ \E q \in Request, t, u \in Row, bonus \in BOOLEAN : CommitReview(q, t, u, bonus)
  PROVE  \A t \in Row : ledger[t] # NoRow => ledger'[t] = ledger[t]
<1>1. \A transaction : \A t, s \in Row :
        Insert(t, transaction) /\ ledger[s] # NoRow => ledger'[s] = ledger[s]
  BY DEF WalletInv, LedgerShape, Insert
<1>2. CASE Spend
  BY <1>1, <1>2 DEF Spend, BeginSpend, CommitRedeem, CommitDebit
<1>3. CASE Adjust
  BY <1>1, <1>3 DEF Adjust, CreditAdjustment, Reverse
<1>4. CASE Distribute
  BY <1>1, <1>4 DEF Distribute, BeginDividends, CommitDividends
<1>5. CASE \E q \in Request, t \in Row : CommitRefund(q, t)
  BY <1>1, <1>5 DEF CommitRefund
<1>6. ASSUME NEW q \in Request, NEW t \in Row, NEW u \in Row, NEW bonus \in BOOLEAN,
             CommitReview(q, t, u, bonus), NEW s \in Row, ledger[s] # NoRow
      PROVE  ledger'[s] = ledger[s]
  <2>1. MintPayout(call[q].booking, t, u, bonus)
    BY <1>6 DEF CommitReview
  <2>2. CASE bonus
    BY <1>6, <2>1, <2>2 DEF MintPayout, WalletInv, LedgerShape
  <2>3. CASE ~bonus
    BY <1>1, <1>6, <2>1, <2>3 DEF MintPayout
  <2> QED BY <2>2, <2>3
<1> QED BY <1>2, <1>3, <1>4, <1>5, <1>6

LEMMA StepAdvances == WalletInv /\ [Next]_vars => RowsAdvance /\ PaymentsAdvance
<1> SUFFICES ASSUME WalletInv, Next \/ UNCHANGED vars
             PROVE  RowsAdvance /\ PaymentsAdvance
  OBVIOUS
<1>1. ASSUME UNCHANGED payment
      PROVE  PaymentsAdvance
  BY <1>1 DEF PaymentsAdvance, Advances
<1>2. CASE Spend \/ Adjust \/ Distribute
  <2>1. UNCHANGED <<settlement, payment>>
    BY <1>2 DEF Spend, BeginSpend, CommitRedeem, CommitDebit, Adjust, CreditAdjustment,
                Reverse, Distribute, BeginDividends, CommitDividends
  <2> QED BY <1>1, <1>2, <2>1, InsertsOnly, NewRowsAdvance
<1>3. ASSUME NEW q \in Request, CommitSettle(q)
      PROVE  RowsAdvance /\ PaymentsAdvance
  <2> DEFINE t == call[q].row
  <2>1. /\ t \in Row /\ ledger[t].type = "REDEMPTION"
        /\ settlement[t] = "none" /\ settlement'[t] = "PENDING"
        /\ \A s \in Row \ {t} : settlement'[s] = settlement[s] /\ ledger'[s] = ledger[s]
        /\ ledger'[t] = [ledger[t] EXCEPT !.status = "COMPLETED"]
    BY <1>3, SMTT(30) DEF CommitSettle, WalletInv, CallShape, RecordShape, LedgerShape, Calls, Idle
  <2> HIDE DEF t
  <2>2. ledger[t].status \in {"PROCESSING", "COMPLETED"}
    BY <2>1 DEF WalletInv, LedgerShape, NoRow
  <2>3. ledger[t] = Transact(ledger[t].type, ledger[t].amount,
                             ledger[t].status, ledger[t].booking)
    BY <2>1 DEF WalletInv, LedgerShape
  <2>4. /\ Advances(settlement[t], settlement'[t])
        /\ Advances(ledger[t].status, ledger'[t].status)
        /\ ledger'[t] = [ledger[t] EXCEPT !.status = ledger'[t].status]
    BY <2>1, <2>2, <2>3 DEF Advances, Transact
  <2>5. \A s \in Row \ {t} : Advances(settlement[s], settlement'[s])
    BY <2>1 DEF Advances
  <2>6. RowsAdvance
    BY <2>1, <2>4, <2>5, SameRow DEF RowsAdvance
  <2> QED BY <1>1, <1>3, <2>6 DEF CommitSettle
<1>4. ASSUME NEW t \in Row, Reconcile(t)
      PROVE  RowsAdvance /\ PaymentsAdvance
  <2>1. \A s \in Row : Advances(settlement[s], settlement'[s])
    BY <1>4 DEF Reconcile, WalletInv, RecordShape, Advances
  <2>2. RowsAdvance
    BY <1>4, <2>1, SameRow DEF Reconcile, RowsAdvance
  <2> QED BY <1>1, <1>4, <2>2 DEF Reconcile
<1>5. ASSUME NEW b \in Booking, RecordPayment(b)
      PROVE  RowsAdvance /\ PaymentsAdvance
  <2>1. PaymentsAdvance
    BY <1>5 DEF RecordPayment, WalletInv, RecordShape, PaymentsAdvance, Advances
  <2> QED BY <1>5, <2>1, NewRowsAdvance DEF RecordPayment
<1>6. ASSUME NEW q \in Request, NEW t \in Row, NEW u \in Row, NEW bonus \in BOOLEAN,
             CommitReview(q, t, u, bonus)
      PROVE  RowsAdvance /\ PaymentsAdvance
  <2>1. PaymentsAdvance
    BY <1>6 DEF CommitReview, WalletInv, RecordShape, PaymentsAdvance, Advances
  <2> QED BY <1>6, <2>1, InsertsOnly, NewRowsAdvance DEF CommitReview
<1>7. ASSUME NEW q \in Request, NEW t \in Row, CommitRefund(q, t)
      PROVE  RowsAdvance /\ PaymentsAdvance
  <2>1. call[q].booking \in Booking /\ payment[call[q].booking] # "none"
    BY <1>7 DEF CommitRefund, WalletInv, CallShape, Calls, Idle
  <2>2. PaymentsAdvance
    BY <1>7, <2>1 DEF CommitRefund, WalletInv, RecordShape, PaymentsAdvance, Advances
  <2> QED BY <1>7, <2>2, InsertsOnly, NewRowsAdvance DEF CommitRefund
<1>8. CASE \/ \E q \in Request, b \in Booking : BeginReview(q, b) \/ BeginRefund(q, b)
           \/ \E q \in Request, t \in Row : BeginSettle(q, t)
           \/ \E q \in Request : Abort(q)
           \/ UNCHANGED vars
  <2>1. UNCHANGED <<ledger, settlement, payment>>
    BY <1>8 DEF BeginReview, BeginRefund, BeginSettle, Abort, vars
  <2> QED BY <1>1, <2>1, NewRowsAdvance
<1> QED BY <1>2, <1>3, <1>4, <1>5, <1>6, <1>7, <1>8 DEF Next, Book, Settle

\* Ledger rows, settlement records and payments only ever advance, whichever
\* handlers of wallet, admin-payment, payment and review controllers meet.
THEOREM RecordsOnlyAdvanceAlways == Spec => RecordsOnlyAdvance
<1>1. WalletInv /\ [Next]_vars => [RowsAdvance /\ PaymentsAdvance]_vars
  BY StepAdvances
<1>2. [RowsAdvance /\ PaymentsAdvance]_vars =>
        [/\ \A t \in Row :
              /\ Advances(settlement[t], settlement'[t])
              /\ t \in Written =>
                   /\ Advances(ledger[t].status, ledger'[t].status)
                   /\ ledger'[t] = [ledger[t] EXCEPT !.status = ledger'[t].status]
         /\ \A b \in Booking : Advances(payment[b], payment'[b])]_vars
  BY DEF RowsAdvance, PaymentsAdvance
<1> QED BY InitWalletInv, NextWalletInv, <1>1, <1>2, PTL DEF Spec, RecordsOnlyAdvance

-------------------------------------------------------------------------------
(* Sums over finite sets.  The library's fold is a recursive function; its *)
(* equations, and that the order of the fold does not matter, follow from  *)
(* a minimal set that would be a counterexample.                           *)

\* A family of subsets of a finite set has a minimal one: a property that
\* holds of a set as soon as it holds of its smaller subsets holds of it.
LEMMA MinimalSet ==
  ASSUME NEW S, IsFiniteSet(S), NEW F \in SUBSET SUBSET S, F # {}
  PROVE  \E m \in F : \A u \in F : u \subseteq m => u = m
<1>1. IsWellFoundedOn(StrictSubsetOrdering(S), SUBSET S)
  BY FS_StrictSubsetOrderingWellFounded, FS_FiniteSubsetsOfFinite
<1>2. PICK m \in F : \A u \in F : <<u, m>> \notin StrictSubsetOrdering(S)
  BY <1>1, WFMin
<1> QED BY <1>2 DEF StrictSubsetOrdering

\* The same of the numbers.
LEMMA MinimalNumber ==
  ASSUME NEW F \in SUBSET Nat, F # {}
  PROVE  \E m \in F : \A n \in F : m <= n
<1>1. PICK m \in F : \A n \in F : <<n, m>> \notin OpToRel(<, Nat)
  BY NatLessThanWellFounded, WFMin
<1>2. \A n \in F : ~ (n < m) BY <1>1 DEF OpToRel
<1> QED BY <1>2

\* The member the fold takes first.
First(s) == CHOOSE x \in s : TRUE

\* g sums f over the subsets of S that D holds.
Sums(f, D, g) ==
  g = [s \in D |-> IF s = {} THEN 0 ELSE f[First(s)] + g[s \ {First(s)}]]

LEMMA FirstIn == ASSUME NEW s, s # {} PROVE First(s) \in s
BY DEF First

LEMMA SumsExist ==
  ASSUME NEW f, NEW S, IsFiniteSet(S)
  PROVE  \E g : Sums(f, SUBSET S, g)
<1> DEFINE Upto(n) == {s \in SUBSET S : Cardinality(s) <= n}
           Bad == {n \in Nat : ~ \E g : Sums(f, Upto(n), g)}
<1>0. \A s \in SUBSET S : IsFiniteSet(s) /\ Cardinality(s) \in Nat
  BY FS_Subset, FS_CardinalityType
<1>1. \E g : Sums(f, Upto(0), g)
  <2> DEFINE g == [s \in Upto(0) |-> 0]
  <2>1. \A s \in Upto(0) : s = {} BY <1>0, FS_EmptySet
  <2>2. Sums(f, Upto(0), g) BY <2>1 DEF Sums
  <2> QED BY <2>2
<1>2. ASSUME NEW n \in Nat, \E g : Sums(f, Upto(n), g)
      PROVE  \E g : Sums(f, Upto(n + 1), g)
  <2>1. PICK g : Sums(f, Upto(n), g) BY <1>2
  <2> DEFINE h == [s \in Upto(n + 1) |->
                     IF s = {} THEN 0 ELSE f[First(s)] + g[s \ {First(s)}]]
  <2>2. \A s \in Upto(n + 1) : s # {} => s \ {First(s)} \in Upto(n)
    <3> SUFFICES ASSUME NEW s \in Upto(n + 1), s # {} PROVE s \ {First(s)} \in Upto(n)
      OBVIOUS
    <3>1. Cardinality(s \ {First(s)}) = Cardinality(s) - 1
      BY <1>0, FirstIn, FS_RemoveElement
    <3> QED BY <1>0, <3>1
  <2>3. \A s \in Upto(n) : s \in Upto(n + 1) BY <1>0
  <2>4. \A s \in Upto(n) : h[s] = g[s] BY <2>1, <2>3 DEF Sums
  <2>5. \A s \in Upto(n + 1) : s # {} => h[s \ {First(s)}] = g[s \ {First(s)}]
    BY <2>2, <2>4
  <2>6. Sums(f, Upto(n + 1), h) BY <2>5 DEF Sums
  <2> QED BY <2>6
<1>3. \A n \in Nat : \E g : Sums(f, Upto(n), g)
  <2> SUFFICES ASSUME Bad # {} PROVE FALSE OBVIOUS
  <2>1. PICK m \in Bad : \A n \in Bad : m <= n BY MinimalNumber
  <2>2. m # 0 BY <1>1
  <2>3. m \in Nat /\ m - 1 \in Nat BY <2>1, <2>2
  <2>7. m - 1 \notin Bad
    <3> HIDE DEF Bad
    <3> QED BY <2>1, <2>3
  <2>4. \E g : Sums(f, Upto(m - 1), g) BY <2>3, <2>7
  <2>5. \E g : Sums(f, Upto((m - 1) + 1), g) BY <1>2, <2>3, <2>4
  <2>6. (m - 1) + 1 = m OBVIOUS
  <2> QED BY <2>5, <2>6
<1>4. Cardinality(S) \in Nat BY FS_CardinalityType
<1>5. Upto(Cardinality(S)) = SUBSET S BY <1>0, FS_Subset
<1> QED BY <1>3, <1>4, <1>5

\* What the library's fold computes.
LEMMA SumIsFold ==
  ASSUME NEW f, NEW S, IsFiniteSet(S)
  PROVE  \E g : Sums(f, SUBSET S, g) /\ SumFunctionOnSet(f, S) = g[S]
<1>1. SumFunctionOnSet(f, S) = (CHOOSE g : Sums(f, SUBSET S, g))[S]
  BY DEF SumFunctionOnSet, FoldFunctionOnSet, MapThenFoldSet, First, Sums
<1>2. Sums(f, SUBSET S, CHOOSE g : Sums(f, SUBSET S, g)) BY SumsExist
<1> QED BY <1>1, <1>2

\* Two folds agree where both are defined.
LEMMA SumsAgree ==
  ASSUME NEW f, NEW S, IsFiniteSet(S), NEW T \in SUBSET S, NEW g, NEW h,
         Sums(f, SUBSET S, g), Sums(f, SUBSET T, h)
  PROVE  \A u \in SUBSET T : g[u] = h[u]
<1> DEFINE Bad == {u \in SUBSET T : g[u] # h[u]}
<1> SUFFICES ASSUME Bad # {} PROVE FALSE OBVIOUS
<1>1. IsFiniteSet(T) BY FS_Subset
<1>2. PICK m \in Bad : \A u \in Bad : u \subseteq m => u = m
  <2>1. Bad \in SUBSET SUBSET T OBVIOUS
  <2> HIDE DEF Bad
  <2> QED BY <1>1, <2>1, MinimalSet
<1>3. m # {} BY <1>2 DEF Sums
<1> DEFINE r == m \ {First(m)}
<1>4. r \in SUBSET T /\ r \subseteq m /\ r # m BY <1>2, <1>3, FirstIn
<1>5. g[r] = h[r] BY <1>2, <1>4
<1>6. g[m] = f[First(m)] + g[r] /\ h[m] = f[First(m)] + h[r] BY <1>2, <1>3 DEF Sums
<1> QED BY <1>2, <1>5, <1>6

LEMMA SumEmpty == ASSUME NEW f PROVE SumFunctionOnSet(f, {}) = 0
<1>1. IsFiniteSet({}) BY FS_EmptySet
<1>2. PICK g : Sums(f, SUBSET {}, g) /\ SumFunctionOnSet(f, {}) = g[{}] BY <1>1, SumIsFold
<1> QED BY <1>2 DEF Sums

LEMMA SumFirst ==
  ASSUME NEW f, NEW S, IsFiniteSet(S), S # {}
  PROVE  SumFunctionOnSet(f, S) = f[First(S)] + SumFunctionOnSet(f, S \ {First(S)})
<1> DEFINE T == S \ {First(S)}
<1>1. IsFiniteSet(T) /\ T \in SUBSET S BY FS_Subset
<1>2. PICK g : Sums(f, SUBSET S, g) /\ SumFunctionOnSet(f, S) = g[S] BY SumIsFold
<1>3. PICK h : Sums(f, SUBSET T, h) /\ SumFunctionOnSet(f, T) = h[T] BY <1>1, SumIsFold
<1>4. g[T] = h[T]
  <2> HIDE DEF T
  <2>1. Sums(f, SUBSET S, g) /\ Sums(f, SUBSET T, h) /\ T \in SUBSET S BY <1>1, <1>2, <1>3
  <2>2. \A u \in SUBSET T : g[u] = h[u] BY <2>1, SumsAgree
  <2> QED BY <2>2
<1>5. g[S] = f[First(S)] + g[T] BY <1>2 DEF Sums
<1> QED BY <1>2, <1>3, <1>4, <1>5

\* A sum of integers is one.
LEMMA SumType ==
  ASSUME NEW f, NEW S, IsFiniteSet(S), \A x \in S : f[x] \in Int
  PROVE  SumFunctionOnSet(f, S) \in Int
<1> DEFINE Total(u) == SumFunctionOnSet(f, u)
           Bad == {u \in SUBSET S : Total(u) \notin Int}
<1> SUFFICES ASSUME Bad # {} PROVE FALSE OBVIOUS
<1>1. PICK m \in Bad : \A u \in Bad : u \subseteq m => u = m
  <2>1. Bad \in SUBSET SUBSET S OBVIOUS
  <2> HIDE DEF Bad
  <2> QED BY <2>1, MinimalSet
<1>2. m # {}
  <2>1. Total({}) = 0 BY SumEmpty
  <2>2. Total({}) \in Int BY <2>1
  <2> HIDE DEF Total
  <2> QED BY <1>1, <2>2, Zenon
<1> DEFINE r == m \ {First(m)}
<1>3. r \in SUBSET S /\ r \subseteq m /\ r # m /\ First(m) \in S BY <1>1, <1>2, FirstIn
<1>4. SumFunctionOnSet(f, r) \in Int BY <1>1, <1>3
<1>5. SumFunctionOnSet(f, m) = f[First(m)] + SumFunctionOnSet(f, r)
  BY <1>1, <1>2, FS_Subset, SumFirst
<1> QED BY <1>1, <1>3, <1>4, <1>5

\* The order does not matter.
LEMMA SumRemove ==
  ASSUME NEW f, NEW S, IsFiniteSet(S), \A x \in S : f[x] \in Int, NEW x \in S
  PROVE  SumFunctionOnSet(f, S) = f[x] + SumFunctionOnSet(f, S \ {x})
<1> DEFINE Total(u) == SumFunctionOnSet(f, u)
           Bad == {u \in SUBSET S : \E y \in u : Total(u) # f[y] + Total(u \ {y})}
<1> SUFFICES ASSUME Bad # {} PROVE FALSE OBVIOUS
<1>1. PICK m \in Bad : \A u \in Bad : u \subseteq m => u = m
  <2>1. Bad \in SUBSET SUBSET S OBVIOUS
  <2> HIDE DEF Bad
  <2> QED BY <2>1, MinimalSet
<1>2. PICK y \in m : Total(m) # f[y] + Total(m \ {y}) BY <1>1
<1> DEFINE c == First(m)
<1>3. c \in m BY <1>2, FirstIn
<1>f. \A u \in SUBSET S : IsFiniteSet(u) /\ Total(u) \in Int BY FS_Subset, SumType
<1>4. Total(m) = f[c] + Total(m \ {c}) BY <1>1, <1>2, <1>f, SumFirst
<1>5. c # y BY <1>2, <1>4
<1> HIDE DEF Total, c
<1>6. m \ {c} \notin Bad /\ m \ {y} \notin Bad BY <1>1, <1>2, <1>3
<1>7. Total(m \ {c}) = f[y] + Total((m \ {c}) \ {y}) BY <1>1, <1>2, <1>3, <1>5, <1>6
<1>8. Total(m \ {y}) = f[c] + Total((m \ {y}) \ {c}) BY <1>1, <1>2, <1>3, <1>5, <1>6
<1>9. (m \ {c}) \ {y} = (m \ {y}) \ {c} OBVIOUS
<1>10. f[c] \in Int /\ f[y] \in Int /\ Total((m \ {y}) \ {c}) \in Int BY <1>1, <1>2, <1>3, <1>f
<1>11. Total(m) = f[c] + (f[y] + Total((m \ {y}) \ {c})) BY <1>4, <1>7, <1>9
<1>12. Total(m) = f[y] + Total(m \ {y}) BY <1>8, <1>10, <1>11
<1> QED BY <1>2, <1>12

LEMMA SumAdd ==
  ASSUME NEW f, NEW S, IsFiniteSet(S), NEW x, x \notin S, f[x] \in Int,
         \A y \in S : f[y] \in Int
  PROVE  SumFunctionOnSet(f, S \union {x}) = SumFunctionOnSet(f, S) + f[x]
<1>1. IsFiniteSet(S \union {x}) BY FS_AddElement
<1>2. (S \union {x}) \ {x} = S OBVIOUS
<1>3. SumFunctionOnSet(f, S \union {x}) = f[x] + SumFunctionOnSet(f, S)
  BY <1>1, <1>2, SumRemove
<1>4. SumFunctionOnSet(f, S) \in Int BY SumType
<1> QED BY <1>3, <1>4

\* The sum of one.
LEMMA SumOne ==
  ASSUME NEW f, NEW x, f[x] \in Int
  PROVE  SumFunctionOnSet(f, {x}) = f[x]
<1>1. IsFiniteSet({}) BY FS_EmptySet
<1>2. SumFunctionOnSet(f, {} \union {x}) = SumFunctionOnSet(f, {}) + f[x] BY <1>1, SumAdd
<1>3. {} \union {x} = {x} OBVIOUS
<1>4. SumFunctionOnSet(f, {}) = 0 BY SumEmpty
<1> QED BY <1>2, <1>3, <1>4

\* A sum depends on what is summed only.
LEMMA SumSame ==
  ASSUME NEW f, NEW h, NEW S, IsFiniteSet(S), \A x \in S : f[x] = h[x]
  PROVE  SumFunctionOnSet(f, S) = SumFunctionOnSet(h, S)
<1> DEFINE Bad == {u \in SUBSET S : SumFunctionOnSet(f, u) # SumFunctionOnSet(h, u)}
<1> SUFFICES ASSUME Bad # {} PROVE FALSE OBVIOUS
<1>1. PICK m \in Bad : \A u \in Bad : u \subseteq m => u = m
  <2>1. Bad \in SUBSET SUBSET S OBVIOUS
  <2> HIDE DEF Bad
  <2> QED BY <2>1, MinimalSet
<1>2. m # {} BY <1>1, SumEmpty
<1> DEFINE r == m \ {First(m)}
<1>3. r \in SUBSET S /\ r \subseteq m /\ r # m /\ First(m) \in S BY <1>1, <1>2, FirstIn
<1>4. SumFunctionOnSet(f, r) = SumFunctionOnSet(h, r) BY <1>1, <1>3
<1>5. /\ SumFunctionOnSet(f, m) = f[First(m)] + SumFunctionOnSet(f, r)
      /\ SumFunctionOnSet(h, m) = h[First(m)] + SumFunctionOnSet(h, r)
  BY <1>1, <1>2, FS_Subset, SumFirst
<1> QED BY <1>1, <1>3, <1>4, <1>5

\* A sum of naturals is one.
LEMMA SumNat ==
  ASSUME NEW f, NEW S, IsFiniteSet(S), \A x \in S : f[x] \in Nat
  PROVE  SumFunctionOnSet(f, S) \in Nat
<1> DEFINE Total(u) == SumFunctionOnSet(f, u)
           Bad == {u \in SUBSET S : Total(u) \notin Nat}
<1> SUFFICES ASSUME Bad # {} PROVE FALSE OBVIOUS
<1>1. PICK m \in Bad : \A u \in Bad : u \subseteq m => u = m
  <2>1. Bad \in SUBSET SUBSET S OBVIOUS
  <2> HIDE DEF Bad
  <2> QED BY <2>1, MinimalSet
<1>2. m # {}
  <2>1. Total({}) = 0 BY SumEmpty
  <2>2. Total({}) \in Nat BY <2>1
  <2> HIDE DEF Total
  <2> QED BY <1>1, <2>2, Zenon
<1> DEFINE r == m \ {First(m)}
<1>3. r \in SUBSET S /\ r \subseteq m /\ r # m /\ First(m) \in S BY <1>1, <1>2, FirstIn
<1>4. SumFunctionOnSet(f, r) \in Nat BY <1>1, <1>3
<1>5. SumFunctionOnSet(f, m) = f[First(m)] + SumFunctionOnSet(f, r)
  BY <1>1, <1>2, FS_Subset, SumFirst
<1> QED BY <1>1, <1>3, <1>4, <1>5

\* The sum of a set is that of a part and that of the rest.
LEMMA SumSplit ==
  ASSUME NEW f, NEW S, IsFiniteSet(S), \A x \in S : f[x] \in Int, NEW T \in SUBSET S
  PROVE  SumFunctionOnSet(f, S) = SumFunctionOnSet(f, S \ T) + SumFunctionOnSet(f, T)
<1> DEFINE Total(u) == SumFunctionOnSet(f, u)
           Bad == {u \in SUBSET S : Total(S) # Total(S \ u) + Total(u)}
<1> SUFFICES ASSUME Bad # {} PROVE FALSE OBVIOUS
<1>1. PICK m \in Bad : \A u \in Bad : u \subseteq m => u = m
  <2>1. Bad \in SUBSET SUBSET S OBVIOUS
  <2> HIDE DEF Bad
  <2> QED BY <2>1, MinimalSet
<1>f. \A u \in SUBSET S : IsFiniteSet(u) /\ Total(u) \in Int BY FS_Subset, SumType
<1>2. m # {}
  <2>1. S \ {} = S /\ Total({}) = 0 BY SumEmpty
  <2>2. Total(S) \in Int BY <1>f
  <2> HIDE DEF Total
  <2>3. Total(S) = Total(S \ {}) + Total({}) BY <2>1, <2>2
  <2> QED BY <1>1, <2>3
<1>3. PICK c : c \in m BY <1>2
<1> DEFINE r == m \ {c}
<1>4. Total(S) = Total(S \ r) + Total(r) BY <1>1, <1>3
<1>5. Total(m) = f[c] + Total(r) BY <1>1, <1>3, <1>f, SumRemove
<1>6. Total(S \ r) = f[c] + Total(S \ m)
  <2>1. (S \ r) \ {c} = S \ m BY <1>3
  <2>2. c \in S \ r /\ S \ r \in SUBSET S BY <1>1, <1>3
  <2> QED BY <1>f, <2>1, <2>2, SumRemove
<1>7. f[c] \in Int /\ Total(r) \in Int /\ Total(S \ m) \in Int BY <1>1, <1>3, <1>f
<1>8. Total(S) # Total(S \ m) + Total(m) BY <1>1
<1> HIDE DEF Total, r
<1> QED BY <1>4, <1>5, <1>6, <1>7, <1>8

-------------------------------------------------------------------------------
(* The amounts.                                                            *)

\* Amounts and bookings of the rows, which LedgerShape leaves open.
AmountInv ==
  \A t \in Row : ledger[t].amount \in Int /\ ledger[t].booking \in Booking \union {Null}

Payouts   == OfType("JOB_PAYOUT")
Dividends == OfType("DIVIDEND_PAYOUT")

\* A payout pays the fare, and what a dividend or a refund has read of the
\* payouts are rows that stay.
PayoutInv ==
  /\ IsFiniteSet(Written)
  /\ \A t \in Payouts : ledger[t].amount = Fare
  /\ recent \subseteq Payouts
  /\ \A q \in Request :
       /\ call[q].op = "dividends" => call[q].eligible \subseteq Payouts
       /\ call[q].op = "refund" => call[q].payout \in Payouts \union {Null}

HistoryInv == reviewed \in SUBSET Booking /\ overlapped \in BOOLEAN

LedgerInv == WalletInv /\ AmountInv /\ PayoutInv /\ HistoryInv

LEMMA CallFields ==
  ASSUME WalletInv, NEW q \in Request
  PROVE  /\ call[q].op \in {"redeem", "debit"} => call[q].amount \in Amount
         /\ call[q].op = "review" => call[q].booking \in Booking
         /\ call[q].op = "settle" => call[q].row \in Row
         /\ call[q].op = "refund" => /\ call[q].booking \in Booking
                                     /\ call[q].payout \in Row \union {Null}
         /\ call[q].op = "dividends" => call[q].eligible \in SUBSET Row
BY DEF WalletInv, CallShape, Calls, Idle

LEMMA SpendingAmount ==
  ASSUME WalletInv, NEW q \in Request, call[q].op \in {"redeem", "debit"}
  PROVE  call[q].amount \in Nat \ {0}
<1>1. call[q].amount \in Amount BY CallFields
<1>2. Amount \subseteq Nat \ {0} BY AmountAssumption
<1> QED BY <1>1, <1>2, Zenon

\* With LedgerShape, the amounts and the histories are all that TypeOK adds.
LEMMA TypesFromInv == WalletInv /\ AmountInv /\ HistoryInv => TypeOK
<1> SUFFICES ASSUME WalletInv, AmountInv, HistoryInv PROVE TypeOK OBVIOUS
<1>1. ASSUME NEW t \in Row PROVE ledger[t] \in Transaction \union {NoRow}
  <2>1. ledger[t] = Transact(ledger[t].type, ledger[t].amount, ledger[t].status,
                             ledger[t].booking)
    BY DEF WalletInv, LedgerShape
  <2>2. ledger[t] # NoRow => /\ ledger[t].type \in TransactionType
                             /\ ledger[t].status \in {"PROCESSING", "COMPLETED"}
    BY DEF WalletInv, LedgerShape
  <2>3. ledger[t].amount \in Int /\ ledger[t].booking \in Booking \union {Null}
    BY DEF AmountInv
  <2> QED BY <2>1, <2>2, <2>3 DEF Transact, Transaction
<1>2. ledger \in [Row -> Transaction \union {NoRow}] BY <1>1 DEF WalletInv, LedgerShape
<1> QED BY <1>2 DEF WalletInv, CallShape, RecordShape, HistoryInv, TypeOK

-------------------------------------------------------------------------------
(* What the steps do to the rows.                                          *)

\* The row t is written, and no other.
Adds(t, transaction) ==
  /\ t \in Row /\ t \notin Written
  /\ Written' = Written \union {t}
  /\ ledger'[t] = transaction
  /\ \A s \in Row : s # t => ledger'[s] = ledger[s]

LEMMA InsertAdds ==
  ASSUME WalletInv, NEW t \in Row, NEW type \in TransactionType, NEW amount, NEW status, NEW b,
         Insert(t, Transact(type, amount, status, b))
  PROVE  Adds(t, Transact(type, amount, status, b))
<1> DEFINE x == Transact(type, amount, status, b)
<1>1. x.type = type /\ x # NoRow BY DEF Transact, NoRow, TransactionType
<1>2. DOMAIN ledger = Row BY DEF WalletInv, LedgerShape
<1>3. ledger[t] = NoRow /\ ledger' = [ledger EXCEPT ![t] = x] BY DEF Insert
<1> HIDE DEF x
<1>4. ledger'[t] = x /\ \A s \in Row : s # t => ledger'[s] = ledger[s] BY <1>2, <1>3
<1>5. Written' = Written \union {t} BY <1>1, <1>3, <1>4 DEF Written
<1> QED BY <1>3, <1>4, <1>5 DEF Adds, Written, x

\* A review writes the payout and, if the score is high enough, the credit.
LEMMA ReviewAdds ==
  ASSUME WalletInv, NEW q \in Request, NEW t \in Row, NEW u \in Row, NEW bonus \in BOOLEAN,
         CommitReview(q, t, u, bonus)
  PROVE  /\ t \notin Written /\ u \notin Written
         /\ Written' = Written \union {t, u}
         /\ ledger'[t] = Transact("JOB_PAYOUT", Fare, "COMPLETED", call[q].booking)
         /\ u # t => ledger'[u] = Transact("FEEDBACK_CREDIT", Credit, "COMPLETED",
                                           call[q].booking)
         /\ \A s \in Row : s \notin {t, u} => ledger'[s] = ledger[s]
<1> DEFINE b == call[q].booking
           x == Transact("JOB_PAYOUT", Fare, "COMPLETED", b)
           y == Transact("FEEDBACK_CREDIT", Credit, "COMPLETED", b)
<1>1. MintPayout(b, t, u, bonus) BY DEF CommitReview
<1>2. DOMAIN ledger = Row BY DEF WalletInv, LedgerShape
<1>3. CASE bonus
  <2>1. /\ ledger[t] = NoRow /\ ledger[u] = NoRow /\ u # t
        /\ ledger' = [ledger EXCEPT ![t] = x, ![u] = y]
    BY <1>1, <1>3 DEF MintPayout
  <2>2. x # NoRow /\ y # NoRow BY DEF Transact, NoRow
  <2> HIDE DEF x, y
  <2>3. /\ ledger'[t] = x /\ ledger'[u] = y
        /\ \A s \in Row : s \notin {t, u} => ledger'[s] = ledger[s]
    BY <1>2, <2>1
  <2>4. Written' = Written \union {t, u} BY <2>1, <2>2, <2>3 DEF Written
  <2> QED BY <2>1, <2>3, <2>4 DEF Written, x, y
<1>4. CASE ~bonus
  <2>1. u = t /\ Insert(t, x) BY <1>1, <1>4 DEF MintPayout
  <2>2. Adds(t, x) BY <2>1, InsertAdds DEF TransactionType
  <2> QED BY <2>1, <2>2 DEF Adds
<1> QED BY <1>3, <1>4

\* The handlers that only write the ledger's one new row.
LEMMA RedeemAdds ==
  ASSUME WalletInv, NEW q \in Request, NEW t \in Row, CommitRedeem(q, t)
  PROVE  Adds(t, Transact("REDEMPTION", call[q].amount, "PROCESSING", Null))
BY InsertAdds DEF CommitRedeem, TransactionType

LEMMA DebitAdds ==
  ASSUME WalletInv, NEW q \in Request, NEW t \in Row, CommitDebit(q, t)
  PROVE  Adds(t, Transact("ADJUSTMENT", -call[q].amount, "COMPLETED", Null))
BY InsertAdds DEF CommitDebit, TransactionType

LEMMA CreditAdds ==
  ASSUME WalletInv, NEW t \in Row, NEW amount, CreditAdjustment(t, amount)
  PROVE  Adds(t, Transact("ADJUSTMENT", amount, "COMPLETED", Null))
BY InsertAdds DEF CreditAdjustment, TransactionType

LEMMA ReverseAdds ==
  ASSUME WalletInv, NEW t \in Row, NEW original \in Row, Reverse(original, t)
  PROVE  Adds(t, Transact("REVERSAL", -EffectiveContribution(original), "COMPLETED", Null))
BY InsertAdds DEF Reverse, TransactionType

LEMMA RefundAdds ==
  ASSUME WalletInv, NEW q \in Request, NEW t \in Row, CommitRefund(q, t)
  PROVE  \/ call[q].payout = Null /\ ledger' = ledger
         \/ /\ call[q].payout # Null
            /\ Adds(t, Transact("REFUND", ledger[call[q].payout].amount, "COMPLETED",
                                call[q].booking))
BY InsertAdds DEF CommitRefund, TransactionType

LEMMA DividendAdds ==
  ASSUME WalletInv, NEW q \in Request, NEW t \in Row, CommitDividends(q, t)
  PROVE  Adds(t, Transact("DIVIDEND_PAYOUT", Share(call[q].eligible), "COMPLETED", Null))
BY InsertAdds DEF CommitDividends, TransactionType

\* A settlement writes the status of one redemption that was PROCESSING.
LEMMA SettleWrites ==
  ASSUME WalletInv, NEW q \in Request, CommitSettle(q)
  PROVE  /\ call[q].row \in Row
         /\ ledger[call[q].row].type = "REDEMPTION"
         /\ ledger[call[q].row].status = "PROCESSING"
         /\ ledger'[call[q].row].status = "COMPLETED"
         /\ \A s \in Row : s # call[q].row => ledger'[s] = ledger[s]
         /\ \A s \in Row : /\ ledger'[s].type = ledger[s].type
                           /\ ledger'[s].amount = ledger[s].amount
                           /\ ledger'[s].booking = ledger[s].booking
         /\ Written' = Written
<1> DEFINE t == call[q].row
<1>1. t \in Row /\ ledger[t].type = "REDEMPTION" /\ settlement[t] = "none"
  BY CallFields DEF CommitSettle, WalletInv, CallShape
<1>2. ledger[t].status = "PROCESSING"
  BY <1>1 DEF WalletInv, SettledIsRecorded, LedgerShape, NoRow
<1>3. ledger[t] = Transact("REDEMPTION", ledger[t].amount, "PROCESSING", ledger[t].booking)
  BY <1>1, <1>2 DEF WalletInv, LedgerShape
<1>4. DOMAIN ledger = Row BY DEF WalletInv, LedgerShape
<1>5. ledger' = [ledger EXCEPT ![t].status = "COMPLETED"] BY DEF CommitSettle
<1> HIDE DEF t
<1>6. /\ ledger'[t] = [ledger[t] EXCEPT !.status = "COMPLETED"]
      /\ \A s \in Row : s # t => ledger'[s] = ledger[s]
  BY <1>1, <1>4, <1>5
<1>7. ledger'[t] = Transact("REDEMPTION", ledger[t].amount, "COMPLETED", ledger[t].booking)
  BY <1>3, <1>6 DEF Transact
<1>8. /\ ledger'[t].status = "COMPLETED" /\ ledger'[t].type = "REDEMPTION"
      /\ ledger'[t].amount = ledger[t].amount /\ ledger'[t].booking = ledger[t].booking
  BY <1>7 DEF Transact
<1>9. Written' = Written BY <1>1, <1>6, <1>8 DEF Written, NoRow
<1> QED BY <1>1, <1>2, <1>6, <1>8, <1>9 DEF t

-------------------------------------------------------------------------------
(* Amounts and sums of the ledger are integers.                            *)

LEMMA ContributionOf ==
  /\ \A t \in Row : Contributions[t] =
       IF ledger[t].type = "REDEMPTION" THEN -ledger[t].amount ELSE ledger[t].amount
  /\ \A t \in Row : Contributions'[t] =
       IF ledger'[t].type = "REDEMPTION" THEN -ledger'[t].amount ELSE ledger'[t].amount
BY DEF Contributions, EffectiveContribution

LEMMA ContributionTypes ==
  /\ AmountInv => \A t \in Row : Contributions[t] \in Int
  /\ AmountInv' => \A t \in Row : Contributions'[t] \in Int
BY ContributionOf DEF AmountInv

\* Payouts contribute the fare, so that a share of some of them is a natural.
LEMMA PayoutsContribute ==
  ASSUME LedgerInv, NEW t \in Payouts
  PROVE  t \in Row /\ Contributions[t] = Fare /\ Fare \in Nat
BY ContributionOf, AmountAssumption DEF LedgerInv, PayoutInv, Payouts, OfType, Written

LEMMA ShareOfPayouts ==
  ASSUME LedgerInv, NEW rows \in SUBSET Payouts
  PROVE  /\ Sum(rows) \in Nat
         /\ Share(rows) \in Nat
         /\ 100 * Share(rows) <= SharePercent * Sum(rows) + 50
<1>1. IsFiniteSet(Payouts)
  BY FS_Subset DEF LedgerInv, PayoutInv, Payouts, OfType
<1>2. IsFiniteSet(rows) BY <1>1, FS_Subset
<1>3. \A t \in rows : Contributions[t] \in Nat BY PayoutsContribute
<1>4. SumFunctionOnSet(Contributions, rows) \in Nat BY <1>2, <1>3, SumNat
<1>5. Sum(rows) \in Nat BY <1>4 DEF Sum
<1> DEFINE x == Sum(rows) * SharePercent + 50
<1>6. SharePercent \in Nat BY AmountAssumption
<1>7. Sum(rows) * SharePercent \in Nat BY <1>5, <1>6
<1>8. x \in Nat BY <1>7
<1>9. Sum(rows) * SharePercent = SharePercent * Sum(rows) BY <1>5, <1>6
<1>10. Share(rows) = x \div 100 BY DEF Share
<1> HIDE DEF x
<1>11. x \div 100 \in Nat /\ 100 * (x \div 100) <= x BY <1>8
<1> QED BY <1>5, <1>9, <1>10, <1>11 DEF x

\* What is added is of the right types, and adds no payout.
LEMMA AddsKeeps ==
  ASSUME LedgerInv, WalletInv', HistoryInv', NEW t, NEW type \in TransactionType \ {"JOB_PAYOUT"},
         NEW amount \in Int, NEW status, NEW b \in Booking \union {Null},
         Adds(t, Transact(type, amount, status, b)),
         recent' \in SUBSET recent,
         \A q \in Request : call'[q] = call[q] \/ call'[q] = Idle
  PROVE  LedgerInv' /\ Payouts' = Payouts
<1>1. AmountInv'
  <2> SUFFICES ASSUME NEW s \in Row
               PROVE  ledger'[s].amount \in Int /\ ledger'[s].booking \in Booking \union {Null}
    BY DEF AmountInv
  <2>1. CASE s = t BY <2>1 DEF Adds, Transact
  <2>2. CASE s # t BY <2>2 DEF Adds, LedgerInv, AmountInv
  <2> QED BY <2>1, <2>2
<1>2. IsFiniteSet(Written') BY FS_AddElement DEF Adds, LedgerInv, PayoutInv
<1>3. ledger'[t].type = type BY DEF Adds, Transact
<1>4. Written \subseteq Row BY DEF Written
<1>5. Payouts' = Payouts /\ \A s \in Payouts : ledger'[s] = ledger[s]
  BY <1>3, <1>4 DEF Adds, Payouts, OfType
<1>6. PayoutInv'
  BY <1>2, <1>5 DEF LedgerInv, PayoutInv, Idle
<1> QED BY <1>1, <1>5, <1>6 DEF LedgerInv

\* Nothing is written to the ledger.
LEMMA LedgerLeft ==
  ASSUME LedgerInv, WalletInv', HistoryInv', ledger' = ledger, recent' \in SUBSET recent,
         \A q \in Request :
           \/ call'[q] = call[q]
           \/ call'[q].op = "dividends" /\ call'[q].eligible = recent
           \/ call'[q].op = "refund" /\ call'[q].payout \in Payouts \union {Null}
           \/ call'[q].op \notin {"dividends", "refund"}
  PROVE  LedgerInv'
<1>1. AmountInv' BY DEF LedgerInv, AmountInv
<1>2. Payouts' = Payouts /\ Written' = Written BY DEF Payouts, OfType, Written
<1>3. PayoutInv' BY <1>2 DEF LedgerInv, PayoutInv
<1> QED BY <1>1, <1>3 DEF LedgerInv

LEMMA CallsLeave ==
  ASSUME WalletInv, NEW q \in Request, Leave(q)
  PROVE  call'[q] = Idle /\ \A p \in Request : call'[p] = call[p] \/ call'[p] = Idle
BY DEF WalletInv, CallShape, Leave

LEMMA CallsEnter ==
  ASSUME WalletInv, NEW q \in Request, NEW handler, Enter(q, handler)
  PROVE  call[q] = Idle /\ call'[q] = handler /\ \A p \in Request : p # q => call'[p] = call[p]
BY DEF WalletInv, CallShape, Enter

LEMMA AdjustTypes ==
  ASSUME LedgerInv, Spend \/ Adjust
  PROVE  LedgerInv'
<1>0. WalletInv' BY SpendKeeps, AdjustKeeps DEF LedgerInv
<1>h. HistoryInv' /\ recent' = recent
  BY DEF Spend, BeginSpend, CommitRedeem, CommitDebit, Adjust, CreditAdjustment, Reverse,
         LedgerInv, HistoryInv
<1>n. Null \in Booking \union {Null} OBVIOUS
<1>w. WalletInv BY DEF LedgerInv
<1>1. ASSUME NEW q \in Request, NEW op \in {"redeem", "debit"}, NEW amount \in Amount,
             BeginSpend(q, op, amount)
      PROVE  LedgerInv'
  <2>1. call'[q].op = op /\ \A p \in Request : p # q => call'[p] = call[p]
    BY <1>1, <1>w, CallsEnter DEF BeginSpend
  <2> QED BY <1>0, <1>1, <1>h, <2>1, LedgerLeft DEF BeginSpend
<1>2. ASSUME NEW q \in Request, NEW t \in Row, CommitRedeem(q, t) PROVE LedgerInv'
  <2>1. call[q].amount \in Int
    BY <1>2, <1>w, SpendingAmount DEF CommitRedeem
  <2>2. Adds(t, Transact("REDEMPTION", call[q].amount, "PROCESSING", Null))
    BY <1>2, <1>w, RedeemAdds
  <2>3. \A p \in Request : call'[p] = call[p] \/ call'[p] = Idle
    BY <1>2, <1>w, CallsLeave DEF CommitRedeem
  <2>4. "REDEMPTION" \in TransactionType \ {"JOB_PAYOUT"} BY DEF TransactionType
  <2> QED BY <1>0, <1>h, <1>n, <2>1, <2>2, <2>3, <2>4, AddsKeeps
<1>3. ASSUME NEW q \in Request, NEW t \in Row, CommitDebit(q, t) PROVE LedgerInv'
  <2>1. -call[q].amount \in Int
    BY <1>3, <1>w, SpendingAmount DEF CommitDebit
  <2>2. Adds(t, Transact("ADJUSTMENT", -call[q].amount, "COMPLETED", Null))
    BY <1>3, <1>w, DebitAdds
  <2>3. \A p \in Request : call'[p] = call[p] \/ call'[p] = Idle
    BY <1>3, <1>w, CallsLeave DEF CommitDebit
  <2>4. "ADJUSTMENT" \in TransactionType \ {"JOB_PAYOUT"} BY DEF TransactionType
  <2> QED BY <1>0, <1>h, <1>n, <2>1, <2>2, <2>3, <2>4, AddsKeeps
<1>4. ASSUME NEW t \in Row, NEW amount \in Amount, CreditAdjustment(t, amount)
      PROVE  LedgerInv'
  <2>1. amount \in Int BY AmountAssumption
  <2>2. Adds(t, Transact("ADJUSTMENT", amount, "COMPLETED", Null))
    BY <1>4, <1>w, CreditAdds
  <2>3. \A p \in Request : call'[p] = call[p] \/ call'[p] = Idle BY <1>4 DEF CreditAdjustment
  <2>4. "ADJUSTMENT" \in TransactionType \ {"JOB_PAYOUT"} BY DEF TransactionType
  <2> QED BY <1>0, <1>h, <1>n, <2>1, <2>2, <2>3, <2>4, AddsKeeps
<1>5. ASSUME NEW t \in Row, NEW original \in Row, Reverse(original, t)
      PROVE  LedgerInv'
  <2>1. -EffectiveContribution(original) \in Int
    BY DEF LedgerInv, AmountInv, EffectiveContribution
  <2>2. Adds(t, Transact("REVERSAL", -EffectiveContribution(original), "COMPLETED", Null))
    BY <1>5, <1>w, ReverseAdds
  <2>3. \A p \in Request : call'[p] = call[p] \/ call'[p] = Idle BY <1>5 DEF Reverse
  <2>4. "REVERSAL" \in TransactionType \ {"JOB_PAYOUT"} BY DEF TransactionType
  <2> QED BY <1>0, <1>h, <1>n, <2>1, <2>2, <2>3, <2>4, AddsKeeps
<1> QED BY <1>1, <1>2, <1>3, <1>4, <1>5 DEF Spend, Adjust

LEMMA SettleTypes ==
  ASSUME LedgerInv, Settle
  PROVE  LedgerInv'
<1>0. WalletInv' BY SettleKeeps DEF LedgerInv
<1>h. HistoryInv' /\ recent' = recent
  BY DEF Settle, BeginSettle, CommitSettle, Reconcile, LedgerInv, HistoryInv
<1>w. WalletInv BY DEF LedgerInv
<1>1. ASSUME NEW q \in Request, NEW t \in Row, BeginSettle(q, t) PROVE LedgerInv'
  <2>1. call'[q].op = "settle" /\ \A p \in Request : p # q => call'[p] = call[p]
    BY <1>1, <1>w, CallsEnter DEF BeginSettle
  <2> QED BY <1>0, <1>1, <1>h, <2>1, LedgerLeft DEF BeginSettle
<1>2. ASSUME NEW q \in Request, CommitSettle(q) PROVE LedgerInv'
  <2>1. AmountInv' BY <1>2, <1>w, SettleWrites DEF LedgerInv, AmountInv
  <2>2. Written' = Written BY <1>2, <1>w, SettleWrites
  <2>3. \A s \in Row : ledger'[s].type = ledger[s].type /\ ledger'[s].amount = ledger[s].amount
    BY <1>2, <1>w, SettleWrites
  <2>4. Payouts' = Payouts BY <2>2, <2>3 DEF Payouts, OfType, Written
  <2>5. \A p \in Request : call'[p] = call[p] \/ call'[p] = Idle
    BY <1>2, <1>w, CallsLeave DEF CommitSettle
  <2>6. \A s \in Payouts : s \in Row BY DEF Payouts, OfType, Written
  <2>7. PayoutInv' BY <1>h, <2>2, <2>3, <2>4, <2>5, <2>6 DEF LedgerInv, PayoutInv, Idle
  <2> QED BY <1>0, <1>h, <2>1, <2>7 DEF LedgerInv
<1>3. ASSUME NEW t \in Row, Reconcile(t) PROVE LedgerInv'
  BY <1>0, <1>3, <1>h, LedgerLeft DEF Reconcile
<1> QED BY <1>1, <1>2, <1>3 DEF Settle

LEMMA BookTypes ==
  ASSUME LedgerInv, Book
  PROVE  LedgerInv'
<1>0. WalletInv' BY BookKeeps DEF LedgerInv
<1>w. WalletInv BY DEF LedgerInv
<1>1. ASSUME NEW b \in Booking, RecordPayment(b) PROVE LedgerInv'
  BY <1>0, <1>1, LedgerLeft DEF RecordPayment, LedgerInv, HistoryInv
<1>2. ASSUME NEW q \in Request, NEW b \in Booking, BeginReview(q, b) PROVE LedgerInv'
  <2> DEFINE handler == [op |-> "review", booking |-> b, paid |-> payment[b] # "none"]
  <2>1. handler.op = "review" OBVIOUS
  <2>2. Enter(q, handler) BY <1>2 DEF BeginReview
  <2> HIDE DEF handler
  <2>3. call'[q].op = "review" /\ \A p \in Request : p # q => call'[p] = call[p]
    BY <1>w, <2>1, <2>2, CallsEnter
  <2> QED BY <1>0, <1>2, <2>3, LedgerLeft DEF BeginReview, LedgerInv, HistoryInv
<1>3. ASSUME NEW q \in Request, NEW b \in Booking, BeginRefund(q, b) PROVE LedgerInv'
  <2>1. PICK payout \in Row \union {Null} :
          /\ payout \in PayoutRow(b) \/ (payout = Null /\ PayoutRow(b) = {})
          /\ Enter(q, [op |-> "refund", booking |-> b, payout |-> payout])
    BY <1>3 DEF BeginRefund
  <2>2. payout \in Payouts \union {Null} BY <2>1 DEF PayoutRow, Payouts
  <2>3. /\ call'[q].op = "refund" /\ call'[q].payout = payout
        /\ \A p \in Request : p # q => call'[p] = call[p]
    BY <1>w, <2>1, CallsEnter
  <2> QED BY <1>0, <1>3, <2>2, <2>3, LedgerLeft DEF BeginRefund, LedgerInv, HistoryInv
<1>4. ASSUME NEW q \in Request, NEW t \in Row, NEW u \in Row, NEW bonus \in BOOLEAN,
             CommitReview(q, t, u, bonus)
      PROVE  LedgerInv'
  <2> DEFINE b == call[q].booking
  <2>1. b \in Booking BY <1>4, <1>w, CallFields DEF CommitReview
  <2>2. /\ t \notin Written /\ u \notin Written
        /\ Written' = Written \union {t, u}
        /\ ledger'[t] = Transact("JOB_PAYOUT", Fare, "COMPLETED", b)
        /\ u # t => ledger'[u] = Transact("FEEDBACK_CREDIT", Credit, "COMPLETED", b)
        /\ \A s \in Row : s \notin {t, u} => ledger'[s] = ledger[s]
    BY <1>4, <1>w, ReviewAdds
  <2>3. recent' = recent \union {t} /\ overlapped' = overlapped /\ reviewed' = reviewed \union {b}
    BY <1>4 DEF CommitReview, MintPayout
  <2>4. \A p \in Request : call'[p] = call[p] \/ call'[p] = Idle
    BY <1>4, <1>w, CallsLeave DEF CommitReview
  <2> HIDE DEF b
  <2>5. HistoryInv' BY <2>1, <2>3 DEF LedgerInv, HistoryInv
  <2>6. /\ ledger'[t].type = "JOB_PAYOUT" /\ ledger'[t].amount = Fare /\ ledger'[t].booking = b
        /\ u # t => /\ ledger'[u].type = "FEEDBACK_CREDIT" /\ ledger'[u].amount = Credit
                    /\ ledger'[u].booking = b
    BY <2>2 DEF Transact
  <2>7. AmountInv'
    <3> SUFFICES ASSUME NEW s \in Row
                 PROVE  ledger'[s].amount \in Int /\ ledger'[s].booking \in Booking \union {Null}
      BY DEF AmountInv
    <3>1. CASE s \in {t, u} BY <2>1, <2>6, <3>1, AmountAssumption
    <3>2. CASE s \notin {t, u} BY <2>2, <3>2 DEF LedgerInv, AmountInv
    <3> QED BY <3>1, <3>2
  <2>8. IsFiniteSet(Written')
    <3>1. Written' = (Written \union {t}) \union {u} BY <2>2
    <3> QED BY <3>1, FS_AddElement DEF LedgerInv, PayoutInv
  <2>9. Written \subseteq Row BY DEF Written
  <2>10. Payouts' = Payouts \union {t} /\ \A s \in Payouts : ledger'[s] = ledger[s]
    BY <2>2, <2>6, <2>9 DEF Payouts, OfType
  <2>11. PayoutInv'
    BY <2>3, <2>4, <2>6, <2>8, <2>10 DEF LedgerInv, PayoutInv, Idle
  <2> QED BY <1>0, <2>5, <2>7, <2>11 DEF LedgerInv
<1>5. ASSUME NEW q \in Request, NEW t \in Row, CommitRefund(q, t) PROVE LedgerInv'
  <2>1. HistoryInv' /\ recent' = recent BY <1>5 DEF CommitRefund, LedgerInv, HistoryInv
  <2>2. \A p \in Request : call'[p] = call[p] \/ call'[p] = Idle
    BY <1>5, <1>w, CallsLeave DEF CommitRefund
  <2>3. CASE ledger' = ledger BY <1>0, <2>1, <2>2, <2>3, LedgerLeft DEF Idle
  <2>4. CASE /\ call[q].payout # Null
             /\ Adds(t, Transact("REFUND", ledger[call[q].payout].amount, "COMPLETED",
                                 call[q].booking))
    <3>1. call[q].booking \in Booking /\ call[q].payout \in Row
      BY <1>5, <1>w, <2>4, CallFields DEF CommitRefund
    <3>2. ledger[call[q].payout].amount \in Int BY <3>1 DEF LedgerInv, AmountInv
    <3>3. "REFUND" \in TransactionType \ {"JOB_PAYOUT"} BY DEF TransactionType
    <3>4. call[q].booking \in Booking \union {Null} BY <3>1
    <3> QED BY <1>0, <2>1, <2>2, <2>4, <3>2, <3>3, <3>4, AddsKeeps
  <2> QED BY <1>5, <1>w, <2>3, <2>4, RefundAdds
<1> QED BY <1>1, <1>2, <1>3, <1>4, <1>5 DEF Book

LEMMA DistributeTypes ==
  ASSUME LedgerInv, Distribute
  PROVE  LedgerInv'
<1>0. WalletInv' BY DistributeKeeps DEF LedgerInv
<1>w. WalletInv BY DEF LedgerInv
<1>1. ASSUME NEW q \in Request, BeginDividends(q) PROVE LedgerInv'
  <2>1. /\ call'[q].op = "dividends" /\ call'[q].eligible = recent
        /\ \A p \in Request : p # q => call'[p] = call[p]
    BY <1>1, <1>w, CallsEnter DEF BeginDividends
  <2>2. HistoryInv' BY <1>1 DEF BeginDividends, LedgerInv, HistoryInv
  <2> QED BY <1>0, <1>1, <2>1, <2>2, LedgerLeft DEF BeginDividends
<1>2. ASSUME NEW q \in Request, NEW t \in Row, CommitDividends(q, t) PROVE LedgerInv'
  <2>1. call[q].eligible \in SUBSET Payouts BY <1>2 DEF CommitDividends, LedgerInv, PayoutInv
  <2>2. Share(call[q].eligible) \in Int BY <2>1, ShareOfPayouts
  <2>3. Adds(t, Transact("DIVIDEND_PAYOUT", Share(call[q].eligible), "COMPLETED", Null))
    BY <1>2, <1>w, DividendAdds
  <2>4. HistoryInv' /\ recent' \in SUBSET recent
    BY <1>2 DEF CommitDividends, LedgerInv, HistoryInv
  <2>5. \A p \in Request : call'[p] = call[p] \/ call'[p] = Idle
    BY <1>2, <1>w, CallsLeave DEF CommitDividends
  <2>6. "DIVIDEND_PAYOUT" \in TransactionType \ {"JOB_PAYOUT"} BY DEF TransactionType
  <2>7. Null \in Booking \union {Null} OBVIOUS
  <2> QED BY <1>0, <2>2, <2>3, <2>4, <2>5, <2>6, <2>7, AddsKeeps
<1> QED BY <1>1, <1>2 DEF Distribute

LEMMA NextLedgerInv == LedgerInv /\ [Next]_vars => LedgerInv'
<1> SUFFICES ASSUME LedgerInv, [Next]_vars PROVE LedgerInv' OBVIOUS
<1>0. WalletInv' BY NextWalletInv DEF LedgerInv
<1>w. WalletInv BY DEF LedgerInv
<1>1. ASSUME NEW q \in Request, Abort(q) PROVE LedgerInv'
  <2>1. \A p \in Request : call'[p] = call[p] \/ call'[p] = Idle
    BY <1>1, <1>w, CallsLeave DEF Abort
  <2> QED BY <1>0, <1>1, <2>1, LedgerLeft DEF Abort, LedgerInv, HistoryInv, Idle
<1>2. CASE UNCHANGED vars BY <1>0, <1>2, LedgerLeft DEF vars, LedgerInv, HistoryInv
<1> QED
  BY <1>1, <1>2, AdjustTypes, SettleTypes, BookTypes, DistributeTypes DEF Next

LEMMA InitLedgerInv == Init => LedgerInv
<1> SUFFICES ASSUME Init PROVE LedgerInv OBVIOUS
<1>1. Written = {} BY DEF Init, Written
<1>2. IsFiniteSet(Written) BY <1>1, FS_EmptySet
<1>3. \A q \in Request : call[q].op = "idle" BY DEF Init, Idle
<1>4. PayoutInv BY <1>1, <1>2, <1>3 DEF PayoutInv, Payouts, OfType, Init
<1>5. AmountInv BY DEF Init, AmountInv, NoRow
<1>6. HistoryInv BY DEF Init, HistoryInv
<1> QED BY <1>4, <1>5, <1>6, InitWalletInv DEF LedgerInv

\* The ledger, the records and the handlers keep their types: every amount
\* that is summed or rounded is an integer, for any number of rows.
THEOREM TypeCorrect == Spec => []TypeOK
<1>1. LedgerInv => TypeOK BY TypesFromInv DEF LedgerInv
<1> QED BY InitLedgerInv, NextLedgerInv, <1>1, PTL DEF Spec

-------------------------------------------------------------------------------
(* Nothing is spent twice.                                                 *)

\* The sets Available and Pending sum over.
Completed == {t \in Written : ledger[t].status = "COMPLETED"}
Held      == {t \in OfType("REDEMPTION") : ledger[t].status = "PROCESSING"}

\* What is left to spend, had no reversal taken anything back.
Slack == Redeemable - Sum(ReversedOut)

Spending(q) == call[q].op \in {"redeem", "debit"}

\* The handler that holds the row lock is alone, and what it found sufficient
\* still is: what others write meanwhile adds to the slack or is a reversal.
SpendInv ==
  /\ Slack >= 0
  /\ \A q \in Request : Spending(q) => call[q].amount <= Slack
  /\ \A p, q \in Request : Spending(p) /\ Spending(q) => p = q

\* Rows that were written stay as they are.
Keeps == Written \subseteq Written' /\ \A t \in Written : ledger'[t] = ledger[t]

\* The slack as sums of the fold, before and after a step.
LEMMA SlackIs ==
  ASSUME LedgerInv, LedgerInv'
  PROVE  /\ Slack = SumFunctionOnSet(Contributions, Completed)
                      + SumFunctionOnSet(Contributions, Held)
                      - SumFunctionOnSet(Contributions, ReversedOut)
         /\ Slack' = SumFunctionOnSet(Contributions', Completed')
                       + SumFunctionOnSet(Contributions', Held')
                       - SumFunctionOnSet(Contributions', ReversedOut')
         /\ Slack \in Int /\ Slack' \in Int
         /\ \A S \in SUBSET Written : IsFiniteSet(S) /\ SumFunctionOnSet(Contributions, S) \in Int
         /\ \A S \in SUBSET Written' :
              IsFiniteSet(S) /\ SumFunctionOnSet(Contributions', S) \in Int
<1>1. /\ Written \subseteq Row /\ Written' \subseteq Row
      /\ Completed \subseteq Written /\ Completed' \subseteq Written'
      /\ Held \subseteq Written /\ Held' \subseteq Written'
      /\ ReversedOut \subseteq Written /\ ReversedOut' \subseteq Written'
  BY DEF Written, Completed, Held, ReversedOut, OfType
<1>2. IsFiniteSet(Written) /\ IsFiniteSet(Written') BY DEF LedgerInv, PayoutInv
<1>3. ASSUME NEW S \in SUBSET Written
      PROVE  IsFiniteSet(S) /\ SumFunctionOnSet(Contributions, S) \in Int
  <2>1. IsFiniteSet(S) BY <1>2, FS_Subset
  <2>2. \A t \in S : Contributions[t] \in Int BY <1>1, ContributionTypes DEF LedgerInv
  <2> QED BY <2>1, <2>2, SumType
<1>4. ASSUME NEW S \in SUBSET Written'
      PROVE  IsFiniteSet(S) /\ SumFunctionOnSet(Contributions', S) \in Int
  <2>1. IsFiniteSet(S) BY <1>2, FS_Subset
  <2>2. \A t \in S : Contributions'[t] \in Int BY <1>1, ContributionTypes DEF LedgerInv
  <2> QED BY <2>1, <2>2, SumType
<1>5. /\ SumFunctionOnSet(Contributions, Completed) \in Int
      /\ SumFunctionOnSet(Contributions, Held) \in Int
      /\ SumFunctionOnSet(Contributions, ReversedOut) \in Int
  BY <1>1, <1>3
<1>6. /\ SumFunctionOnSet(Contributions', Completed') \in Int
      /\ SumFunctionOnSet(Contributions', Held') \in Int
      /\ SumFunctionOnSet(Contributions', ReversedOut') \in Int
  BY <1>1, <1>4
<1>7. Slack = SumFunctionOnSet(Contributions, Completed)
                - (-SumFunctionOnSet(Contributions, Held))
                - SumFunctionOnSet(Contributions, ReversedOut)
  BY DEF Slack, Redeemable, Available, Pending, Sum, Completed, Held
<1>8. Slack' = SumFunctionOnSet(Contributions', Completed')
                 - (-SumFunctionOnSet(Contributions', Held'))
                 - SumFunctionOnSet(Contributions', ReversedOut')
  BY DEF Slack, Redeemable, Available, Pending, Sum, Completed, Held
<1> QED BY <1>3, <1>4, <1>5, <1>6, <1>7, <1>8

\* A set of rows that grows by some: the old sum, and that of the new rows.
LEMMA SumGrows ==
  ASSUME LedgerInv, LedgerInv', Keeps, NEW S \in SUBSET Written, NEW T \in SUBSET Written',
         S \subseteq T
  PROVE  SumFunctionOnSet(Contributions', T)
           = SumFunctionOnSet(Contributions, S) + SumFunctionOnSet(Contributions', T \ S)
<1>1. IsFiniteSet(T) /\ IsFiniteSet(S) BY SlackIs
<1>2. Written \subseteq Row /\ Written' \subseteq Row BY DEF Written
<1>3. \A t \in T : Contributions'[t] \in Int BY <1>2, ContributionTypes DEF LedgerInv
<1>4. SumFunctionOnSet(Contributions', T)
        = SumFunctionOnSet(Contributions', T \ S) + SumFunctionOnSet(Contributions', S)
  BY <1>1, <1>3, SumSplit
<1>5. \A t \in S : Contributions'[t] = Contributions[t]
  BY <1>2, ContributionOf DEF Keeps
<1>6. SumFunctionOnSet(Contributions', S) = SumFunctionOnSet(Contributions, S)
  BY <1>1, <1>5, SumSame
<1>7. /\ SumFunctionOnSet(Contributions', T \ S) \in Int
      /\ SumFunctionOnSet(Contributions, S) \in Int
  BY SlackIs
<1> QED BY <1>4, <1>6, <1>7

\* What was taken back, as a positive amount.
TakenBack == -Sum(ReversedOut)

\* The slack is the three amounts of Purse taken together.
LEMMA MoneyIs ==
  ASSUME LedgerInv, LedgerInv'
  PROVE  /\ Available = SumFunctionOnSet(Contributions, Completed)
         /\ Pending = -SumFunctionOnSet(Contributions, Held)
         /\ TakenBack = -SumFunctionOnSet(Contributions, ReversedOut)
         /\ Available' = SumFunctionOnSet(Contributions', Completed')
         /\ Pending' = -SumFunctionOnSet(Contributions', Held')
         /\ TakenBack' = -SumFunctionOnSet(Contributions', ReversedOut')
         /\ Available \in Int /\ Pending \in Int /\ TakenBack \in Int
         /\ Available' \in Int /\ Pending' \in Int /\ TakenBack' \in Int
         /\ Slack = Available - Pending + TakenBack
         /\ Slack' = Available' - Pending' + TakenBack'
<1>1. /\ Completed \subseteq Written /\ Held \subseteq Written /\ ReversedOut \subseteq Written
      /\ Completed' \subseteq Written' /\ Held' \subseteq Written'
      /\ ReversedOut' \subseteq Written'
  BY DEF Completed, Held, ReversedOut, OfType
<1>2. /\ SumFunctionOnSet(Contributions, Completed) \in Int
      /\ SumFunctionOnSet(Contributions, Held) \in Int
      /\ SumFunctionOnSet(Contributions, ReversedOut) \in Int
      /\ SumFunctionOnSet(Contributions', Completed') \in Int
      /\ SumFunctionOnSet(Contributions', Held') \in Int
      /\ SumFunctionOnSet(Contributions', ReversedOut') \in Int
  BY <1>1, SlackIs
<1>3. /\ Available = SumFunctionOnSet(Contributions, Completed)
      /\ Pending = -SumFunctionOnSet(Contributions, Held)
      /\ TakenBack = -SumFunctionOnSet(Contributions, ReversedOut)
      /\ Available' = SumFunctionOnSet(Contributions', Completed')
      /\ Pending' = -SumFunctionOnSet(Contributions', Held')
      /\ TakenBack' = -SumFunctionOnSet(Contributions', ReversedOut')
  BY DEF Available, Pending, TakenBack, Sum, Completed, Held
<1>4. /\ Slack = SumFunctionOnSet(Contributions, Completed)
                   + SumFunctionOnSet(Contributions, Held)
                   - SumFunctionOnSet(Contributions, ReversedOut)
      /\ Slack' = SumFunctionOnSet(Contributions', Completed')
                    + SumFunctionOnSet(Contributions', Held')
                    - SumFunctionOnSet(Contributions', ReversedOut')
  BY SlackIs
<1> QED BY <1>2, <1>3, <1>4

\* How the three amounts change when rows are written.
LEMMA MoneyGrows ==
  ASSUME LedgerInv, LedgerInv', Keeps
  PROVE  /\ Available' = Available + SumFunctionOnSet(Contributions', Completed' \ Completed)
         /\ Pending' = Pending - SumFunctionOnSet(Contributions', Held' \ Held)
         /\ TakenBack' = TakenBack
                           - SumFunctionOnSet(Contributions', ReversedOut' \ ReversedOut)
         /\ SumFunctionOnSet(Contributions', Completed' \ Completed) \in Int
         /\ SumFunctionOnSet(Contributions', Held' \ Held) \in Int
         /\ SumFunctionOnSet(Contributions', ReversedOut' \ ReversedOut) \in Int
<1>1. /\ Completed \subseteq Written /\ Completed' \subseteq Written'
      /\ Held \subseteq Written /\ Held' \subseteq Written'
      /\ ReversedOut \subseteq Written /\ ReversedOut' \subseteq Written'
  BY DEF Completed, Held, ReversedOut, OfType
<1>2. /\ Completed \subseteq Completed'
      /\ Held \subseteq Held'
      /\ ReversedOut \subseteq ReversedOut'
  BY DEF Keeps, Completed, Held, ReversedOut, OfType
<1> DEFINE a == SumFunctionOnSet(Contributions, Completed)
           b == SumFunctionOnSet(Contributions, Held)
           c == SumFunctionOnSet(Contributions, ReversedOut)
           x == SumFunctionOnSet(Contributions', Completed' \ Completed)
           y == SumFunctionOnSet(Contributions', Held' \ Held)
           z == SumFunctionOnSet(Contributions', ReversedOut' \ ReversedOut)
<1>3. SumFunctionOnSet(Contributions', Completed') = a + x BY <1>1, <1>2, SumGrows
<1>4. SumFunctionOnSet(Contributions', Held') = b + y BY <1>1, <1>2, SumGrows
<1>5. SumFunctionOnSet(Contributions', ReversedOut') = c + z BY <1>1, <1>2, SumGrows
<1>6. a \in Int /\ b \in Int /\ c \in Int BY <1>1, SlackIs
<1>7. x \in Int /\ y \in Int /\ z \in Int
  <2>1. /\ Completed' \ Completed \in SUBSET Written'
        /\ Held' \ Held \in SUBSET Written'
        /\ ReversedOut' \ ReversedOut \in SUBSET Written'
    BY <1>1
  <2> QED BY <2>1, SlackIs
<1>8. /\ Available = a /\ Pending = -b /\ TakenBack = -c
      /\ Available' = a + x /\ Pending' = -(b + y) /\ TakenBack' = -(c + z)
  BY <1>3, <1>4, <1>5, MoneyIs
<1> HIDE DEF a, b, c, x, y, z
<1>9. Available' = Available + x /\ Pending' = Pending - y /\ TakenBack' = TakenBack - z
  BY <1>6, <1>7, <1>8
<1> QED BY <1>7, <1>9 DEF x, y, z

\* How the slack does.
LEMMA SlackGrows ==
  ASSUME LedgerInv, LedgerInv', Keeps
  PROVE  /\ Slack' = Slack + SumFunctionOnSet(Contributions', Completed' \ Completed)
                           + SumFunctionOnSet(Contributions', Held' \ Held)
                           - SumFunctionOnSet(Contributions', ReversedOut' \ ReversedOut)
         /\ SumFunctionOnSet(Contributions', Completed' \ Completed) \in Int
         /\ SumFunctionOnSet(Contributions', Held' \ Held) \in Int
         /\ SumFunctionOnSet(Contributions', ReversedOut' \ ReversedOut) \in Int
<1> QED BY MoneyIs, MoneyGrows

\* Rows that add money, or take it back as a reversal, leave the slack.
LEMMA PaidSlack ==
  ASSUME LedgerInv, LedgerInv', Keeps,
         \A t \in Written' \ Written : /\ ledger'[t].status = "COMPLETED"
                                       /\ Contributions'[t] \in Nat \/ t \in ReversedOut'
  PROVE  Slack' >= Slack
<1> DEFINE New == Written' \ Written
           Back == ReversedOut' \ ReversedOut
<1>1. Completed' \ Completed = New BY DEF Keeps, Completed
<1>2. Held' \ Held = {} BY DEF Keeps, Held, OfType
<1>3. Back \subseteq New BY DEF Keeps, ReversedOut, OfType
<1>4. IsFiniteSet(New) /\ IsFiniteSet(Back) /\ IsFiniteSet(New \ Back)
  <2>1. New \in SUBSET Written' /\ Back \in SUBSET Written' /\ New \ Back \in SUBSET Written'
    BY <1>3
  <2> QED BY <2>1, SlackIs
<1>5. \A t \in New : Contributions'[t] \in Int
  BY ContributionTypes DEF LedgerInv, Written
<1>6. SumFunctionOnSet(Contributions', New)
        = SumFunctionOnSet(Contributions', New \ Back) + SumFunctionOnSet(Contributions', Back)
  BY <1>3, <1>4, <1>5, SumSplit
<1>7. \A t \in New \ Back : Contributions'[t] \in Nat BY DEF ReversedOut, OfType
<1>8. SumFunctionOnSet(Contributions', New \ Back) \in Nat BY <1>4, <1>7, SumNat
<1>9. SumFunctionOnSet(Contributions', {}) = 0 BY SumEmpty
<1>10. Slack \in Int BY SlackIs
<1> DEFINE n == SumFunctionOnSet(Contributions', New \ Back)
           m == SumFunctionOnSet(Contributions', Back)
<1>11. Slack' = Slack + (n + m) + 0 - m /\ m \in Int
  BY <1>1, <1>2, <1>6, <1>9, SlackGrows
<1> HIDE DEF n, m
<1>12. n \in Nat BY <1>8 DEF n
<1> QED BY <1>10, <1>11, <1>12

\* A redemption is held, and a debit is completed: either takes its amount.
LEMMA SpentSlack ==
  ASSUME LedgerInv, LedgerInv', NEW q \in Request, NEW t \in Row,
         CommitRedeem(q, t) \/ CommitDebit(q, t)
  PROVE  Slack' = Slack - call[q].amount
<1>w. WalletInv BY DEF LedgerInv
<1>1. call[q].amount \in Nat BY <1>w, SpendingAmount DEF CommitRedeem, CommitDebit
<1>2. \/ Adds(t, Transact("REDEMPTION", call[q].amount, "PROCESSING", Null))
      \/ Adds(t, Transact("ADJUSTMENT", -call[q].amount, "COMPLETED", Null))
  BY <1>w, RedeemAdds, DebitAdds
<1>3. t \in Row /\ t \notin Written /\ Written' = Written \union {t} BY <1>2 DEF Adds
<1>4. Keeps BY <1>2, <1>3 DEF Adds, Keeps, Written
<1>5. \/ /\ ledger'[t].type = "REDEMPTION" /\ ledger'[t].amount = call[q].amount
         /\ ledger'[t].status = "PROCESSING"
      \/ /\ ledger'[t].type = "ADJUSTMENT" /\ ledger'[t].amount = -call[q].amount
         /\ ledger'[t].status = "COMPLETED"
  BY <1>2 DEF Adds, Transact
<1>6. Contributions'[t] = -call[q].amount BY <1>3, <1>5, ContributionOf
<1>7. ReversedOut' \ ReversedOut = {} BY <1>3, <1>4, <1>5 DEF Keeps, ReversedOut, OfType
<1>8. \/ Completed' \ Completed = {} /\ Held' \ Held = {t}
      \/ Completed' \ Completed = {t} /\ Held' \ Held = {}
  BY <1>3, <1>4, <1>5 DEF Keeps, Completed, Held, OfType
<1>9. SumFunctionOnSet(Contributions', {}) = 0 BY SumEmpty
<1>10. SumFunctionOnSet(Contributions', {t}) = -call[q].amount
  <2>1. Contributions'[t] \in Int BY <1>1, <1>6
  <2> QED BY <1>6, <2>1, SumOne
<1>11. Slack \in Int BY SlackIs
<1>12. \/ Slack' = Slack + 0 + (-call[q].amount) - 0
       \/ Slack' = Slack + (-call[q].amount) + 0 - 0
  BY <1>4, <1>7, <1>8, <1>9, <1>10, SlackGrows
<1> QED BY <1>1, <1>11, <1>12

\* A settled redemption is completed where it was held.
LEMMA SettledSlack ==
  ASSUME LedgerInv, LedgerInv', NEW q \in Request, CommitSettle(q)
  PROVE  Slack' = Slack
<1> DEFINE t == call[q].row
<1>w. WalletInv BY DEF LedgerInv
<1>1. /\ t \in Row
      /\ ledger[t].type = "REDEMPTION"
      /\ ledger[t].status = "PROCESSING"
      /\ ledger'[t].status = "COMPLETED"
      /\ \A s \in Row : s # t => ledger'[s] = ledger[s]
      /\ \A s \in Row : /\ ledger'[s].type = ledger[s].type
                        /\ ledger'[s].amount = ledger[s].amount
                        /\ ledger'[s].booking = ledger[s].booking
      /\ Written' = Written
  BY <1>w, SettleWrites
<1> HIDE DEF t
<1>2. t \in Written BY <1>1 DEF Written, NoRow
<1>3. Completed' = Completed \union {t} /\ t \notin Completed
  BY <1>1, <1>2 DEF Completed, Written
<1>4. t \in Held /\ Held' = Held \ {t} BY <1>1, <1>2 DEF Held, OfType, Written
<1>5. ReversedOut' = ReversedOut BY <1>1 DEF ReversedOut, OfType, Written
<1>6. Contributions' = Contributions
  <2>1. \A s \in Row : Contributions'[s] = Contributions[s] BY <1>1, ContributionOf
  <2> QED BY <2>1 DEF Contributions
<1>7. /\ Completed \subseteq Written /\ Held \subseteq Written /\ ReversedOut \subseteq Written
      /\ Written \subseteq Row
  BY DEF Completed, Held, ReversedOut, OfType, Written
<1>8. \A s \in Row : Contributions[s] \in Int BY ContributionTypes DEF LedgerInv
<1> DEFINE a == SumFunctionOnSet(Contributions, Completed)
           b == SumFunctionOnSet(Contributions, Held \ {t})
           c == SumFunctionOnSet(Contributions, ReversedOut)
           x == Contributions[t]
<1>9. SumFunctionOnSet(Contributions, Completed \union {t}) = a + x
  BY <1>1, <1>3, <1>7, <1>8, SlackIs, SumAdd
<1>10. SumFunctionOnSet(Contributions, Held) = x + b
  BY <1>4, <1>7, <1>8, SlackIs, SumRemove
<1>11. a \in Int /\ b \in Int /\ c \in Int /\ x \in Int
  <2>1. Held \ {t} \in SUBSET Written BY <1>7
  <2> QED BY <1>1, <1>7, <1>8, <2>1, SlackIs
<1>12. Slack = a + (x + b) - c BY <1>10, SlackIs
<1>13. Slack' = (a + x) + b - c BY <1>3, <1>4, <1>5, <1>6, <1>9, SlackIs
<1> HIDE DEF a, b, c, x
<1> QED BY <1>11, <1>12, <1>13

\* A sum of nothing above zero is not above zero.
LEMMA SumAtMostZero ==
  ASSUME NEW f, NEW S, IsFiniteSet(S), \A x \in S : f[x] \in Int /\ f[x] <= 0
  PROVE  SumFunctionOnSet(f, S) <= 0
<1> DEFINE Total(u) == SumFunctionOnSet(f, u)
           Bad == {u \in SUBSET S : ~ (Total(u) <= 0)}
<1> SUFFICES ASSUME Bad # {} PROVE FALSE OBVIOUS
<1>1. PICK m \in Bad : \A u \in Bad : u \subseteq m => u = m
  <2>1. Bad \in SUBSET SUBSET S OBVIOUS
  <2> HIDE DEF Bad
  <2> QED BY <2>1, MinimalSet
<1>2. m # {}
  <2>1. Total({}) = 0 BY SumEmpty
  <2>2. Total({}) <= 0 BY <2>1
  <2> HIDE DEF Total
  <2> QED BY <1>1, <2>2, Zenon
<1> DEFINE r == m \ {First(m)}
<1>3. r \in SUBSET S /\ r \subseteq m /\ r # m /\ First(m) \in S BY <1>1, <1>2, FirstIn
<1>4. Total(r) <= 0
  <2> HIDE DEF Total, r
  <2> QED BY <1>1, <1>3
<1>5. Total(m) = f[First(m)] + Total(r) BY <1>1, <1>2, FS_Subset, SumFirst
<1>6. Total(r) \in Int BY <1>3, FS_Subset, SumType
<1>7. f[First(m)] \in Int /\ f[First(m)] <= 0 BY <1>3
<1>8. ~ (Total(m) <= 0) BY <1>1
<1> HIDE DEF Total, r
<1> QED BY <1>4, <1>5, <1>6, <1>7, <1>8

\* Reversals that took money back leave the redeemable balance below the slack.
LEMMA RedeemableIsSlack ==
  ASSUME LedgerInv
  PROVE  /\ Redeemable \in Int /\ Sum(ReversedOut) \in Int /\ Slack \in Int
         /\ Slack = Redeemable - Sum(ReversedOut)
         /\ Redeemable <= Slack
<1>1. IsFiniteSet(Written) /\ Written \subseteq Row BY DEF LedgerInv, PayoutInv, Written
<1>2. \A t \in Row : Contributions[t] \in Int BY ContributionTypes DEF LedgerInv
<1>3. ASSUME NEW S \in SUBSET Written
      PROVE  IsFiniteSet(S) /\ SumFunctionOnSet(Contributions, S) \in Int
  <2>1. IsFiniteSet(S) BY <1>1, FS_Subset
  <2> QED BY <1>1, <1>2, <2>1, SumType
<1>4. Completed \subseteq Written /\ Held \subseteq Written /\ ReversedOut \subseteq Written
  BY DEF Completed, Held, ReversedOut, OfType
<1>5. /\ SumFunctionOnSet(Contributions, Completed) \in Int
      /\ SumFunctionOnSet(Contributions, Held) \in Int
      /\ SumFunctionOnSet(Contributions, ReversedOut) \in Int
  BY <1>3, <1>4
<1>6. Redeemable = SumFunctionOnSet(Contributions, Completed)
                     - (-SumFunctionOnSet(Contributions, Held))
  BY DEF Redeemable, Available, Pending, Sum, Completed, Held
<1>7. Sum(ReversedOut) = SumFunctionOnSet(Contributions, ReversedOut) BY DEF Sum
<1>8. \A t \in ReversedOut : Contributions[t] \in Int /\ Contributions[t] <= 0
  <2> SUFFICES ASSUME NEW t \in ReversedOut
               PROVE  Contributions[t] \in Int /\ Contributions[t] <= 0
    OBVIOUS
  <2>1. t \in Row /\ ledger[t].type = "REVERSAL" /\ ledger[t].amount < 0
    BY DEF ReversedOut, OfType, Written
  <2>2. ledger[t].amount \in Int BY <2>1 DEF LedgerInv, AmountInv
  <2>3. Contributions[t] = ledger[t].amount BY <2>1, ContributionOf
  <2> QED BY <2>1, <2>2, <2>3
<1>9. SumFunctionOnSet(Contributions, ReversedOut) <= 0 BY <1>3, <1>4, <1>8, SumAtMostZero
<1>10. Redeemable \in Int BY <1>5, <1>6
<1>11. Slack = Redeemable - Sum(ReversedOut) BY DEF Slack
<1> QED BY <1>5, <1>7, <1>9, <1>10, <1>11

\* A step that lets nobody begin to spend, and takes nothing from the slack.
LEMMA SpendKept ==
  ASSUME LedgerInv, LedgerInv', SpendInv, Slack' >= Slack,
         \A q \in Request : Spending(q)' => call'[q] = call[q]
  PROVE  SpendInv'
<1>1. Slack \in Int /\ Slack' \in Int BY SlackIs
<1>2. ASSUME NEW q \in Request, Spending(q)'
      PROVE  Spending(q) /\ call'[q].amount = call[q].amount /\ call[q].amount \in Int
  <2>1. Spending(q) /\ call'[q].amount = call[q].amount BY <1>2 DEF Spending
  <2> QED BY <2>1, SpendingAmount DEF Spending, LedgerInv
<1>3. Slack' >= 0 BY <1>1 DEF SpendInv
<1>4. \A q \in Request : Spending(q)' => call'[q].amount <= Slack'
  BY <1>1, <1>2 DEF SpendInv
<1>5. \A p, q \in Request : Spending(p)' /\ Spending(q)' => p = q BY <1>2 DEF SpendInv
<1> QED BY <1>3, <1>4, <1>5 DEF SpendInv

\* With the ledger as it was, the slack is what it was.
LEMMA LedgerSlack == ledger' = ledger => Slack' = Slack
BY DEF Slack, Redeemable, Available, Pending, Sum, Contributions, EffectiveContribution,
       ReversedOut, OfType, Written

\* The row lock is free, and the balance read covers the amount.
LEMMA BeginsToSpend ==
  ASSUME LedgerInv, LedgerInv', SpendInv, NEW q \in Request, NEW op \in {"redeem", "debit"},
         NEW amount \in Amount, BeginSpend(q, op, amount)
  PROVE  SpendInv'
<1>w. WalletInv BY DEF LedgerInv
<1>1. Slack' = Slack BY LedgerSlack DEF BeginSpend
<1>2. Slack \in Int /\ Redeemable \in Int /\ Redeemable <= Slack BY RedeemableIsSlack
<1>3. amount <= Redeemable /\ amount \in Int
  <2>1. Amount \subseteq Nat \ {0} BY AmountAssumption
  <2>2. amount \in Nat \ {0} BY <2>1, Zenon
  <2> QED BY <2>2 DEF BeginSpend
<1>4. /\ call'[q].op = op /\ call'[q].amount = amount
      /\ \A p \in Request : p # q => call'[p] = call[p]
  BY <1>w, CallsEnter DEF BeginSpend
<1>5. \A p \in Request : ~Spending(p) BY DEF BeginSpend, RowLockFree, Spending
<1>6. \A p \in Request : Spending(p)' => p = q BY <1>4, <1>5 DEF Spending
<1>7. amount <= Slack /\ Slack >= 0 BY <1>2, <1>3 DEF SpendInv
<1> QED BY <1>1, <1>4, <1>6, <1>7 DEF SpendInv

\* The one who spends is done, and no other has begun.
LEMMA Spends ==
  ASSUME LedgerInv, LedgerInv', SpendInv, NEW q \in Request, NEW t \in Row,
         CommitRedeem(q, t) \/ CommitDebit(q, t)
  PROVE  SpendInv'
<1>w. WalletInv BY DEF LedgerInv
<1>1. Spending(q) BY DEF CommitRedeem, CommitDebit, Spending
<1>2. call[q].amount \in Int BY <1>w, <1>1, SpendingAmount DEF Spending
<1>3. Slack' = Slack - call[q].amount BY SpentSlack
<1>4. Slack \in Int BY SlackIs
<1>5. \A p \in Request : ~Spending(p)'
  <2>1. call'[q] = Idle /\ \A p \in Request : call'[p] = call[p] \/ call'[p] = Idle
    BY <1>w, CallsLeave DEF CommitRedeem, CommitDebit
  <2> QED BY <1>1, <2>1 DEF SpendInv, Spending, Idle
<1>6. Slack' >= 0 BY <1>1, <1>2, <1>3, <1>4 DEF SpendInv
<1> QED BY <1>5, <1>6 DEF SpendInv

\* One row that adds to the balance, or takes back what another added.
LEMMA AddedSlack ==
  ASSUME LedgerInv, LedgerInv', NEW t, NEW type \in TransactionType \ {"REDEMPTION"},
         NEW amount \in Int, NEW b, amount >= 0 \/ type = "REVERSAL",
         Adds(t, Transact(type, amount, "COMPLETED", b))
  PROVE  Slack' >= Slack
<1>1. t \in Row /\ t \notin Written /\ Written' = Written \union {t} BY DEF Adds
<1>2. Keeps BY <1>1 DEF Adds, Keeps, Written
<1>3. ledger'[t].type = type /\ ledger'[t].amount = amount /\ ledger'[t].status = "COMPLETED"
  BY DEF Adds, Transact
<1>4. Contributions'[t] = amount BY <1>1, <1>3, ContributionOf
<1>5. amount \in Nat \/ t \in ReversedOut' BY <1>1, <1>3 DEF ReversedOut, OfType
<1> QED BY <1>1, <1>2, <1>3, <1>4, <1>5, PaidSlack

LEMMA NextSpendInv == LedgerInv /\ SpendInv /\ [Next]_vars => SpendInv'
<1> SUFFICES ASSUME LedgerInv, SpendInv, [Next]_vars PROVE SpendInv' OBVIOUS
<1>0. LedgerInv' BY NextLedgerInv
<1>w. WalletInv BY DEF LedgerInv
<1>s. Slack \in Int BY <1>0, SlackIs
<1>q. ASSUME ledger' = ledger, \A q \in Request : Spending(q)' => call'[q] = call[q]
      PROVE  SpendInv'
  BY <1>0, <1>q, <1>s, LedgerSlack, SpendKept
<1>l. ASSUME NEW q \in Request, Leave(q)
      PROVE  \A p \in Request : Spending(p)' => call'[p] = call[p]
  BY <1>l, <1>w, CallsLeave DEF Spending, Idle
<1>e. ASSUME NEW q \in Request, NEW handler, handler.op \notin {"redeem", "debit"},
             Enter(q, handler)
      PROVE  \A p \in Request : Spending(p)' => call'[p] = call[p]
  BY <1>e, <1>w, CallsEnter DEF Spending
<1>1. ASSUME NEW q \in Request, NEW op \in {"redeem", "debit"}, NEW amount \in Amount,
             BeginSpend(q, op, amount)
      PROVE  SpendInv'
  BY <1>0, <1>1, BeginsToSpend
<1>2. ASSUME NEW q \in Request, NEW t \in Row, CommitRedeem(q, t) \/ CommitDebit(q, t)
      PROVE  SpendInv'
  BY <1>0, <1>2, Spends
<1>3. ASSUME NEW t \in Row, NEW amount \in Amount, CreditAdjustment(t, amount)
      PROVE  SpendInv'
  <2>1. Amount \subseteq Nat \ {0} BY AmountAssumption
  <2>2. amount \in Nat \ {0} BY <2>1, Zenon
  <2>3. Adds(t, Transact("ADJUSTMENT", amount, "COMPLETED", Null)) BY <1>3, <1>w, CreditAdds
  <2>4. "ADJUSTMENT" \in TransactionType \ {"REDEMPTION"} BY DEF TransactionType
  <2>5. Slack' >= Slack BY <1>0, <2>2, <2>3, <2>4, AddedSlack
  <2> QED BY <1>0, <1>3, <2>5, SpendKept DEF CreditAdjustment
<1>4. ASSUME NEW t \in Row, NEW original \in Row, Reverse(original, t) PROVE SpendInv'
  <2>1. -EffectiveContribution(original) \in Int
    BY DEF LedgerInv, AmountInv, EffectiveContribution
  <2>2. Adds(t, Transact("REVERSAL", -EffectiveContribution(original), "COMPLETED", Null))
    BY <1>4, <1>w, ReverseAdds
  <2>3. "REVERSAL" \in TransactionType \ {"REDEMPTION"} BY DEF TransactionType
  <2>4. Slack' >= Slack BY <1>0, <2>1, <2>2, <2>3, AddedSlack
  <2> QED BY <1>0, <1>4, <2>4, SpendKept DEF Reverse
<1>5. ASSUME NEW q \in Request, CommitSettle(q) PROVE SpendInv'
  <2>1. Slack' >= Slack BY <1>0, <1>5, <1>s, SettledSlack
  <2> QED BY <1>0, <1>5, <1>l, <2>1, SpendKept DEF CommitSettle
<1>6. ASSUME NEW q \in Request, NEW t \in Row, NEW u \in Row, NEW bonus \in BOOLEAN,
             CommitReview(q, t, u, bonus)
      PROVE  SpendInv'
  <2>1. /\ Written' = Written \union {t, u} /\ t \notin Written /\ u \notin Written
        /\ ledger'[t] = Transact("JOB_PAYOUT", Fare, "COMPLETED", call[q].booking)
        /\ u # t => ledger'[u] = Transact("FEEDBACK_CREDIT", Credit, "COMPLETED",
                                          call[q].booking)
        /\ \A s \in Row : s \notin {t, u} => ledger'[s] = ledger[s]
    BY <1>6, <1>w, ReviewAdds
  <2>2. Keeps BY <2>1 DEF Keeps, Written
  <2>3. \A s \in {t, u} : /\ ledger'[s].status = "COMPLETED"
                          /\ ledger'[s].amount \in Nat
                          /\ ledger'[s].type # "REDEMPTION"
    BY <2>1, AmountAssumption DEF Transact
  <2>4. \A s \in {t, u} : Contributions'[s] \in Nat BY <2>3, ContributionOf
  <2>5. Slack' >= Slack BY <1>0, <2>1, <2>2, <2>3, <2>4, PaidSlack
  <2> QED BY <1>0, <1>6, <1>l, <2>5, SpendKept DEF CommitReview
<1>7. ASSUME NEW q \in Request, NEW t \in Row, CommitRefund(q, t) PROVE SpendInv'
  <2>1. CASE ledger' = ledger BY <1>7, <1>l, <1>q, <2>1 DEF CommitRefund
  <2>2. CASE /\ call[q].payout # Null
             /\ Adds(t, Transact("REFUND", ledger[call[q].payout].amount, "COMPLETED",
                                 call[q].booking))
    <3>1. call[q].payout \in Payouts BY <1>7, <2>2 DEF CommitRefund, LedgerInv, PayoutInv
    <3>2. ledger[call[q].payout].amount = Fare /\ Fare \in Nat
      BY <3>1, AmountAssumption DEF LedgerInv, PayoutInv
    <3>3. "REFUND" \in TransactionType \ {"REDEMPTION"} BY DEF TransactionType
    <3>4. Slack' >= Slack BY <1>0, <2>2, <3>2, <3>3, AddedSlack
    <3> QED BY <1>0, <1>7, <1>l, <3>4, SpendKept DEF CommitRefund
  <2> QED BY <1>7, <1>w, <2>1, <2>2, RefundAdds
<1>8. ASSUME NEW q \in Request, NEW t \in Row, CommitDividends(q, t) PROVE SpendInv'
  <2>1. call[q].eligible \in SUBSET Payouts BY <1>8 DEF CommitDividends, LedgerInv, PayoutInv
  <2>2. Share(call[q].eligible) \in Nat BY <2>1, ShareOfPayouts
  <2>3. Adds(t, Transact("DIVIDEND_PAYOUT", Share(call[q].eligible), "COMPLETED", Null))
    BY <1>8, <1>w, DividendAdds
  <2>4. "DIVIDEND_PAYOUT" \in TransactionType \ {"REDEMPTION"} BY DEF TransactionType
  <2>5. Slack' >= Slack BY <1>0, <2>2, <2>3, <2>4, AddedSlack
  <2> QED BY <1>0, <1>8, <1>l, <2>5, SpendKept DEF CommitDividends
<1>9. ASSUME NEW q \in Request, NEW t \in Row, BeginSettle(q, t) PROVE SpendInv'
  BY <1>9, <1>e, <1>q DEF BeginSettle
<1>10. ASSUME NEW q \in Request, NEW b \in Booking, BeginReview(q, b) PROVE SpendInv'
  <2> DEFINE handler == [op |-> "review", booking |-> b, paid |-> payment[b] # "none"]
  <2>1. handler.op = "review" OBVIOUS
  <2>2. Enter(q, handler) /\ ledger' = ledger BY <1>10 DEF BeginReview
  <2> HIDE DEF handler
  <2> QED BY <1>e, <1>q, <2>1, <2>2
<1>11. ASSUME NEW q \in Request, NEW b \in Booking, BeginRefund(q, b) PROVE SpendInv'
  <2>1. PICK payout : Enter(q, [op |-> "refund", booking |-> b, payout |-> payout])
    BY <1>11 DEF BeginRefund
  <2> QED BY <1>11, <1>e, <1>q, <2>1 DEF BeginRefund
<1>12. ASSUME NEW q \in Request, BeginDividends(q) PROVE SpendInv'
  BY <1>12, <1>e, <1>q DEF BeginDividends
<1>13. ASSUME NEW q \in Request, Abort(q) PROVE SpendInv' BY <1>13, <1>l, <1>q DEF Abort
<1>14. CASE \/ \E t \in Row : Reconcile(t)
            \/ \E b \in Booking : RecordPayment(b)
            \/ UNCHANGED vars
  BY <1>14, <1>q DEF Reconcile, RecordPayment, vars
<1>15. CASE Spend \/ Adjust BY <1>1, <1>2, <1>3, <1>4, <1>15 DEF Spend, Adjust
<1>16. CASE Settle BY <1>5, <1>9, <1>14, <1>16 DEF Settle
<1>17. CASE Book BY <1>6, <1>7, <1>10, <1>11, <1>14, <1>17 DEF Book
<1>18. CASE Distribute BY <1>8, <1>12, <1>18 DEF Distribute
<1> QED BY <1>13, <1>14, <1>15, <1>16, <1>17, <1>18 DEF Next

LEMMA InitSpendInv == Init => SpendInv
<1> SUFFICES ASSUME Init PROVE SpendInv OBVIOUS
<1>1. Written = {} BY DEF Init, Written
<1>2. Completed = {} /\ Held = {} /\ ReversedOut = {}
  BY <1>1 DEF Completed, Held, ReversedOut, OfType
<1>3. SumFunctionOnSet(Contributions, {}) = 0 BY SumEmpty
<1>4. Slack = 0 - (-0) - 0
  BY <1>2, <1>3 DEF Slack, Redeemable, Available, Pending, Sum, Completed, Held
<1>5. \A q \in Request : ~Spending(q) BY DEF Init, Spending, Idle
<1> QED BY <1>4, <1>5 DEF SpendInv

\* redeemWallet and the DEBIT adjustment under the worker's row lock, with
\* every other handler beside them: for any number of rows, handlers and
\* amounts, only a reversal can take the redeemable balance below zero.
THEOREM OverdraftIsReversalAlways == Spec => []OverdraftIsReversal
<1>1. LedgerInv /\ SpendInv => OverdraftIsReversal
  <2> SUFFICES ASSUME LedgerInv, SpendInv PROVE OverdraftIsReversal OBVIOUS
  <2>1. /\ Redeemable \in Int /\ Sum(ReversedOut) \in Int
        /\ Slack = Redeemable - Sum(ReversedOut)
    BY RedeemableIsSlack
  <2>2. Slack >= 0 BY DEF SpendInv
  <2> QED BY <2>1, <2>2 DEF OverdraftIsReversal
<1> QED
  BY InitLedgerInv, NextLedgerInv, InitSpendInv, NextSpendInv, <1>1, PTL DEF Spec

-------------------------------------------------------------------------------
(* Dividends.                                                              *)

Distributing(q) == call[q].op = "dividends"

\* The payouts that earlier dividends shared.
Shared == Payouts \ recent

\* What was paid so far is the share of the payouts older than the last
\* dividend, but for the rounding.
PaidIsDue ==
  100 * Sum(Dividends) <= SharePercent * Sum(Shared) + 50 * Cardinality(Dividends)

\* Until two distributions overlap, the one in flight is alone, and what it has
\* read is not shared yet.
DividendInv ==
  ~overlapped =>
    /\ \A p, q \in Request : Distributing(p) /\ Distributing(q) => p = q
    /\ \A q \in Request : Distributing(q) => call[q].eligible \subseteq recent
    /\ PaidIsDue

\* The sums and the number in PaidIsDue, as those of finite sets of rows.
LEMMA DividendSums ==
  ASSUME LedgerInv
  PROVE  /\ Sum(Dividends) \in Int /\ Sum(Shared) \in Nat /\ Sum(Payouts) \in Nat
         /\ Cardinality(Dividends) \in Nat
         /\ Sum(Shared) <= Sum(Payouts)
         /\ IsFiniteSet(Dividends) /\ IsFiniteSet(Payouts) /\ IsFiniteSet(Shared)
<1>1. /\ IsFiniteSet(Dividends) /\ IsFiniteSet(Payouts)
      /\ Dividends \subseteq Row /\ Payouts \subseteq Row
  BY FS_Subset DEF LedgerInv, PayoutInv, Payouts, Dividends, OfType, Written
<1>2. Cardinality(Dividends) \in Nat BY <1>1, FS_CardinalityType
<1>3. \A t \in Row : Contributions[t] \in Int BY ContributionTypes DEF LedgerInv
<1>4. Sum(Dividends) \in Int BY <1>1, <1>3, SumType DEF Sum
<1>5. recent \in SUBSET Payouts BY DEF LedgerInv, PayoutInv
<1>6. Sum(Shared) \in Nat /\ Sum(Payouts) \in Nat /\ Sum(recent) \in Nat
  BY <1>5, ShareOfPayouts DEF Shared
<1>7. Sum(Payouts) = Sum(Shared) + Sum(recent)
  <2>1. \A t \in Payouts : Contributions[t] \in Int BY <1>1, <1>3
  <2> QED BY <1>1, <1>5, <2>1, SumSplit DEF Sum, Shared
<1>8. IsFiniteSet(Shared) BY <1>1, FS_Subset DEF Shared
<1> QED BY <1>1, <1>2, <1>4, <1>6, <1>7, <1>8

\* The same rows, with the same amounts, have the same sum.
LEMMA SumKept ==
  ASSUME NEW rows \in SUBSET Row, IsFiniteSet(rows),
         \A t \in rows : /\ ledger'[t].type = ledger[t].type
                         /\ ledger'[t].amount = ledger[t].amount
  PROVE  SumFunctionOnSet(Contributions', rows) = SumFunctionOnSet(Contributions, rows)
<1>1. \A t \in rows : Contributions'[t] = Contributions[t] BY ContributionOf
<1> QED BY <1>1, SumSame

\* A step that writes no dividend and begins none, and shares no payout.
LEMMA DividendsKept ==
  ASSUME LedgerInv, DividendInv, overlapped' = overlapped,
         Dividends' = Dividends, Shared' = Shared, recent \subseteq recent',
         \A t \in Written : /\ ledger'[t].type = ledger[t].type
                            /\ ledger'[t].amount = ledger[t].amount,
         \A q \in Request : Distributing(q)' => call'[q] = call[q]
  PROVE  DividendInv'
<1> SUFFICES ASSUME ~overlapped
             PROVE  /\ \A p, q \in Request : Distributing(p)' /\ Distributing(q)' => p = q
                    /\ \A q \in Request : Distributing(q)' => call'[q].eligible \subseteq recent'
                    /\ PaidIsDue'
  BY DEF DividendInv
<1>1. \A q \in Request : Distributing(q)' => Distributing(q) BY DEF Distributing
<1>2. \A p, q \in Request : Distributing(p)' /\ Distributing(q)' => p = q
  BY <1>1 DEF DividendInv
<1>3. \A q \in Request : Distributing(q)' => call'[q].eligible \subseteq recent'
  BY <1>1 DEF DividendInv
<1>4. Dividends \subseteq Written /\ Shared \subseteq Written /\ Written \subseteq Row
  BY DEF Dividends, Shared, Payouts, OfType, Written
<1>5. SumFunctionOnSet(Contributions', Dividends) = SumFunctionOnSet(Contributions, Dividends)
  BY <1>4, DividendSums, SumKept
<1>6. SumFunctionOnSet(Contributions', Shared) = SumFunctionOnSet(Contributions, Shared)
  BY <1>4, DividendSums, SumKept
<1>7. Sum(Dividends)' = Sum(Dividends) /\ Sum(Shared)' = Sum(Shared)
  BY <1>5, <1>6 DEF Sum
<1>8. PaidIsDue BY DEF DividendInv
<1>9. PaidIsDue' BY <1>7, <1>8 DEF PaidIsDue
<1> QED BY <1>2, <1>3, <1>9

\* With the ledger and the cutoff as they were.
LEMMA LedgerKeepsDividends ==
  ASSUME LedgerInv, DividendInv, overlapped' = overlapped, ledger' = ledger,
         recent' = recent, \A q \in Request : Distributing(q)' => call'[q] = call[q]
  PROVE  DividendInv'
<1>1. Dividends' = Dividends /\ Shared' = Shared
  BY DEF Dividends, Shared, Payouts, OfType, Written
<1> QED BY <1>1, DividendsKept

\* One new row that is neither a payout nor a dividend.
LEMMA OtherRowAdded ==
  ASSUME LedgerInv, DividendInv, overlapped' = overlapped, recent' = recent, NEW t,
         NEW type \in TransactionType \ {"JOB_PAYOUT", "DIVIDEND_PAYOUT"},
         NEW amount, NEW status, NEW b, Adds(t, Transact(type, amount, status, b)),
         \A q \in Request : Distributing(q)' => call'[q] = call[q]
  PROVE  DividendInv'
<1>1. t \in Row /\ t \notin Written /\ Written' = Written \union {t} BY DEF Adds
<1>2. \A s \in Written : ledger'[s] = ledger[s] BY DEF Adds, Written
<1>3. ledger'[t].type = type BY DEF Adds, Transact
<1>4. Dividends' = Dividends /\ Payouts' = Payouts
  BY <1>1, <1>2, <1>3 DEF Dividends, Payouts, OfType
<1>5. Shared' = Shared BY <1>4 DEF Shared
<1> QED BY <1>2, <1>4, <1>5, DividendsKept

\* A review's payout is newer than the last dividend.
LEMMA PayoutAdded ==
  ASSUME LedgerInv, DividendInv, NEW q \in Request, NEW t \in Row, NEW u \in Row,
         NEW bonus \in BOOLEAN, CommitReview(q, t, u, bonus),
         \A p \in Request : Distributing(p)' => call'[p] = call[p]
  PROVE  DividendInv'
<1>1. /\ t \notin Written /\ u \notin Written
      /\ Written' = Written \union {t, u}
      /\ ledger'[t] = Transact("JOB_PAYOUT", Fare, "COMPLETED", call[q].booking)
      /\ u # t => ledger'[u] = Transact("FEEDBACK_CREDIT", Credit, "COMPLETED",
                                        call[q].booking)
      /\ \A s \in Row : s \notin {t, u} => ledger'[s] = ledger[s]
  BY ReviewAdds DEF LedgerInv
<1>2. \A s \in Written : ledger'[s] = ledger[s] BY <1>1 DEF Written
<1>3. ledger'[t].type = "JOB_PAYOUT" /\ (u # t => ledger'[u].type = "FEEDBACK_CREDIT")
  BY <1>1 DEF Transact
<1>4. Dividends' = Dividends /\ Payouts' = Payouts \union {t} /\ t \notin Payouts
  BY <1>1, <1>2, <1>3 DEF Dividends, Payouts, OfType
<1>5. recent' = recent \union {t} /\ overlapped' = overlapped
  BY DEF CommitReview, MintPayout
<1>6. Shared' = Shared BY <1>4, <1>5 DEF Shared
<1> QED BY <1>2, <1>4, <1>5, <1>6, DividendsKept

\* The reads of a distribution: it is alone, or the two overlap.
LEMMA BeginsToDistribute ==
  ASSUME LedgerInv, DividendInv, NEW q \in Request, BeginDividends(q)
  PROVE  DividendInv'
<1> SUFFICES ASSUME ~overlapped'
             PROVE  /\ \A p, r \in Request : Distributing(p)' /\ Distributing(r)' => p = r
                    /\ \A p \in Request : Distributing(p)' => call'[p].eligible \subseteq recent'
                    /\ PaidIsDue'
  BY DEF DividendInv
<1>1. ~overlapped /\ \A p \in Request : ~Distributing(p) BY DEF BeginDividends, Distributing
<1>2. /\ call'[q].eligible = recent
      /\ \A p \in Request : p # q => call'[p] = call[p]
  BY CallsEnter DEF BeginDividends, LedgerInv
<1>3. \A p \in Request : Distributing(p)' => p = q BY <1>1, <1>2 DEF Distributing
<1>4. ledger' = ledger /\ recent' = recent BY DEF BeginDividends
<1>5. PaidIsDue BY <1>1 DEF DividendInv
<1>6. PaidIsDue'
  BY <1>4, <1>5 DEF PaidIsDue, Shared, Payouts, Dividends, OfType, Written, Sum, Contributions,
                    EffectiveContribution
<1> QED BY <1>2, <1>3, <1>4, <1>6

\* The arithmetic of one more dividend: its share of what it has read is due.
LEMMA OneMoreDividend ==
  ASSUME NEW paid \in Int, NEW share \in Nat, NEW due \in Nat, NEW read \in Nat,
         NEW newer \in Nat, NEW number \in Nat, NEW percent \in Nat,
         100 * paid <= percent * due + 50 * number,
         100 * share <= percent * read + 50,
         read <= newer
  PROVE  100 * (paid + share) <= percent * (due + newer) + 50 * (number + 1)
<1>1. percent * (due + newer) = percent * due + percent * newer OBVIOUS
<1>2. percent * read <= percent * newer OBVIOUS
<1> DEFINE a == percent * due
           b == percent * newer
           c == percent * read
           d == percent * (due + newer)
<1>3. a \in Int /\ b \in Int /\ c \in Int /\ d \in Int OBVIOUS
<1>4. d = a + b /\ c <= b BY <1>1, <1>2
<1>5. 100 * paid <= a + 50 * number /\ 100 * share <= c + 50 OBVIOUS
<1> HIDE DEF a, b, c, d
<1>6. 100 * (paid + share) <= d + 50 * (number + 1) BY <1>3, <1>4, <1>5
<1> QED BY <1>6 DEF d

\* One more dividend: every payout is now shared.
LEMMA DividendPaid ==
  ASSUME LedgerInv, LedgerInv', DividendInv, NEW q \in Request, NEW t \in Row,
         CommitDividends(q, t)
  PROVE  DividendInv'
<1> DEFINE eligible == call[q].eligible
<1> SUFFICES ASSUME ~overlapped'
             PROVE  /\ \A p, r \in Request : Distributing(p)' /\ Distributing(r)' => p = r
                    /\ \A p \in Request : Distributing(p)' => call'[p].eligible \subseteq recent'
                    /\ PaidIsDue'
  BY DEF DividendInv
<1>1. ~overlapped /\ Distributing(q) /\ recent' = {} BY DEF CommitDividends, Distributing
<1>2. call'[q] = Idle /\ \A p \in Request : call'[p] = call[p] \/ call'[p] = Idle
  BY CallsLeave DEF CommitDividends, LedgerInv
<1>3. \A p \in Request : ~Distributing(p)'
  BY <1>1, <1>2 DEF DividendInv, Distributing, Idle
<1>4. Adds(t, Transact("DIVIDEND_PAYOUT", Share(eligible), "COMPLETED", Null))
  BY DividendAdds DEF LedgerInv
<1>5. eligible \subseteq recent /\ PaidIsDue BY <1>1 DEF DividendInv
<1>6. recent \in SUBSET Payouts BY DEF LedgerInv, PayoutInv
<1>7. /\ t \in Row /\ t \notin Written /\ Written' = Written \union {t}
      /\ \A s \in Written : ledger'[s] = ledger[s]
  BY <1>4 DEF Adds, Written
<1>8. ledger'[t].type = "DIVIDEND_PAYOUT" /\ ledger'[t].amount = Share(eligible)
  BY <1>4 DEF Adds, Transact
<1>9. /\ Payouts' = Payouts /\ Dividends' = Dividends \union {t} /\ t \notin Dividends
      /\ Payouts \subseteq Written /\ Dividends \subseteq Written /\ Written \subseteq Row
  BY <1>7, <1>8 DEF Payouts, Dividends, OfType, Written
<1>10. Shared' = Payouts BY <1>1, <1>9 DEF Shared
<1>f. IsFiniteSet(Dividends) /\ IsFiniteSet(Payouts) BY DividendSums
<1>c. Contributions'[t] = Share(eligible) BY <1>7, <1>8, ContributionOf
<1>s. /\ Sum(eligible) \in Nat /\ Share(eligible) \in Nat
      /\ 100 * Share(eligible) <= SharePercent * Sum(eligible) + 50
      /\ Sum(recent) \in Nat
  BY <1>5, <1>6, ShareOfPayouts
<1>11. Sum(Dividends)' = Sum(Dividends) + Share(eligible)
  <2>1. SumFunctionOnSet(Contributions', Dividends) = SumFunctionOnSet(Contributions, Dividends)
    BY <1>7, <1>9, <1>f, SumKept
  <2>2. \A s \in Row : Contributions'[s] \in Int BY ContributionTypes DEF LedgerInv
  <2>3. SumFunctionOnSet(Contributions', Dividends \union {t})
          = SumFunctionOnSet(Contributions', Dividends) + Contributions'[t]
    BY <1>7, <1>9, <1>f, <2>2, SumAdd
  <2> QED BY <1>9, <1>c, <2>1, <2>3 DEF Sum
<1>12. Sum(Shared)' = Sum(Payouts)
  <2>1. SumFunctionOnSet(Contributions', Payouts) = SumFunctionOnSet(Contributions, Payouts)
    BY <1>7, <1>9, <1>f, SumKept
  <2> QED BY <1>10, <2>1 DEF Sum
<1>13. Cardinality(Dividends') = Cardinality(Dividends) + 1 BY <1>9, <1>f, FS_AddElement
<1>14. \A s \in Payouts : Contributions[s] \in Nat BY PayoutsContribute
<1>15. Sum(Payouts) = Sum(Shared) + Sum(recent)
  BY <1>6, <1>14, <1>f, SumSplit DEF Sum, Shared
<1>16. Sum(eligible) <= Sum(recent)
  <2>1. recent \ eligible \in SUBSET Payouts BY <1>6
  <2>2. Sum(recent \ eligible) \in Nat BY <2>1, ShareOfPayouts
  <2>3. Sum(recent) = Sum(recent \ eligible) + Sum(eligible)
    <3>1. IsFiniteSet(recent) /\ \A s \in recent : Contributions[s] \in Int
      BY <1>6, <1>14, <1>f, FS_Subset
    <3> QED BY <1>5, <3>1, SumSplit DEF Sum
  <2> HIDE DEF eligible
  <2> QED BY <1>s, <2>2, <2>3
<1>17. SharePercent \in Nat BY AmountAssumption
<1>18. Sum(Dividends) \in Int /\ Sum(Shared) \in Nat /\ Cardinality(Dividends) \in Nat
  BY DividendSums
<1> HIDE DEF eligible
<1>19. 100 * (Sum(Dividends) + Share(eligible))
         <= SharePercent * (Sum(Shared) + Sum(recent)) + 50 * (Cardinality(Dividends) + 1)
  BY <1>5, <1>s, <1>16, <1>17, <1>18, OneMoreDividend DEF PaidIsDue
<1>20. PaidIsDue' BY <1>11, <1>12, <1>13, <1>15, <1>19 DEF PaidIsDue
<1> QED BY <1>3, <1>20

LEMMA NextDividendInv == LedgerInv /\ DividendInv /\ [Next]_vars => DividendInv'
<1> SUFFICES ASSUME LedgerInv, DividendInv, [Next]_vars PROVE DividendInv' OBVIOUS
<1>0. LedgerInv' BY NextLedgerInv
<1>w. WalletInv BY DEF LedgerInv
<1>l. ASSUME NEW q \in Request, Leave(q)
      PROVE  \A p \in Request : Distributing(p)' => call'[p] = call[p]
  BY <1>l, <1>w, CallsLeave DEF Distributing, Idle
<1>e. ASSUME NEW q \in Request, NEW handler, handler.op # "dividends", Enter(q, handler)
      PROVE  \A p \in Request : Distributing(p)' => call'[p] = call[p]
  BY <1>e, <1>w, CallsEnter DEF Distributing
<1>1. ASSUME NEW q \in Request, NEW op \in {"redeem", "debit"}, NEW amount \in Amount,
             BeginSpend(q, op, amount)
      PROVE  DividendInv'
  <2>1. [op |-> op, amount |-> amount].op # "dividends" OBVIOUS
  <2> QED BY <1>1, <1>e, <2>1, LedgerKeepsDividends DEF BeginSpend
<1>2. ASSUME NEW q \in Request, NEW t \in Row, CommitRedeem(q, t) PROVE DividendInv'
  <2>1. Adds(t, Transact("REDEMPTION", call[q].amount, "PROCESSING", Null))
    BY <1>2, <1>w, RedeemAdds
  <2>2. "REDEMPTION" \in TransactionType \ {"JOB_PAYOUT", "DIVIDEND_PAYOUT"}
    BY DEF TransactionType
  <2> QED BY <1>2, <1>l, <2>1, <2>2, OtherRowAdded DEF CommitRedeem
<1>3. ASSUME NEW q \in Request, NEW t \in Row, CommitDebit(q, t) PROVE DividendInv'
  <2>1. Adds(t, Transact("ADJUSTMENT", -call[q].amount, "COMPLETED", Null))
    BY <1>3, <1>w, DebitAdds
  <2>2. "ADJUSTMENT" \in TransactionType \ {"JOB_PAYOUT", "DIVIDEND_PAYOUT"}
    BY DEF TransactionType
  <2> QED BY <1>3, <1>l, <2>1, <2>2, OtherRowAdded DEF CommitDebit
<1>4. ASSUME NEW t \in Row, NEW amount \in Amount, CreditAdjustment(t, amount)
      PROVE  DividendInv'
  <2>1. Adds(t, Transact("ADJUSTMENT", amount, "COMPLETED", Null)) BY <1>4, <1>w, CreditAdds
  <2>2. "ADJUSTMENT" \in TransactionType \ {"JOB_PAYOUT", "DIVIDEND_PAYOUT"}
    BY DEF TransactionType
  <2> QED BY <1>4, <2>1, <2>2, OtherRowAdded DEF CreditAdjustment
<1>5. ASSUME NEW t \in Row, NEW original \in Row, Reverse(original, t) PROVE DividendInv'
  <2>1. Adds(t, Transact("REVERSAL", -EffectiveContribution(original), "COMPLETED", Null))
    BY <1>5, <1>w, ReverseAdds
  <2>2. "REVERSAL" \in TransactionType \ {"JOB_PAYOUT", "DIVIDEND_PAYOUT"}
    BY DEF TransactionType
  <2> QED BY <1>5, <2>1, <2>2, OtherRowAdded DEF Reverse
<1>6. ASSUME NEW q \in Request, CommitSettle(q) PROVE DividendInv'
  <2>1. /\ Written' = Written /\ Written \subseteq Row
        /\ \A s \in Row : /\ ledger'[s].type = ledger[s].type
                          /\ ledger'[s].amount = ledger[s].amount
    BY <1>6, <1>w, SettleWrites DEF Written
  <2>2. Dividends' = Dividends /\ Payouts' = Payouts
    BY <2>1 DEF Dividends, Payouts, OfType
  <2>3. Shared' = Shared /\ recent' = recent /\ overlapped' = overlapped
    BY <1>6, <2>2 DEF CommitSettle, Shared
  <2> QED BY <1>6, <1>l, <2>1, <2>2, <2>3, DividendsKept DEF CommitSettle
<1>7. ASSUME NEW q \in Request, NEW t \in Row, NEW u \in Row, NEW bonus \in BOOLEAN,
             CommitReview(q, t, u, bonus)
      PROVE  DividendInv'
  BY <1>7, <1>l, PayoutAdded DEF CommitReview
<1>8. ASSUME NEW q \in Request, NEW t \in Row, CommitRefund(q, t) PROVE DividendInv'
  <2>1. /\ recent' = recent /\ overlapped' = overlapped
        /\ \A p \in Request : Distributing(p)' => call'[p] = call[p]
    BY <1>8, <1>l DEF CommitRefund
  <2>2. CASE ledger' = ledger BY <2>1, <2>2, LedgerKeepsDividends
  <2>3. CASE Adds(t, Transact("REFUND", ledger[call[q].payout].amount, "COMPLETED",
                              call[q].booking))
    <3>1. "REFUND" \in TransactionType \ {"JOB_PAYOUT", "DIVIDEND_PAYOUT"}
      BY DEF TransactionType
    <3> QED BY <2>1, <2>3, <3>1, OtherRowAdded
  <2> QED BY <1>8, <1>w, <2>2, <2>3, RefundAdds
<1>9. ASSUME NEW q \in Request, NEW t \in Row, BeginSettle(q, t) PROVE DividendInv'
  BY <1>9, <1>e, LedgerKeepsDividends DEF BeginSettle
<1>10. ASSUME NEW q \in Request, NEW b \in Booking, BeginReview(q, b) PROVE DividendInv'
  <2> DEFINE handler == [op |-> "review", booking |-> b, paid |-> payment[b] # "none"]
  <2>1. handler.op # "dividends" OBVIOUS
  <2>2. /\ Enter(q, handler) /\ ledger' = ledger /\ recent' = recent
        /\ overlapped' = overlapped
    BY <1>10 DEF BeginReview
  <2> HIDE DEF handler
  <2> QED BY <1>e, <2>1, <2>2, LedgerKeepsDividends
<1>11. ASSUME NEW q \in Request, NEW b \in Booking, BeginRefund(q, b) PROVE DividendInv'
  <2>1. PICK payout : Enter(q, [op |-> "refund", booking |-> b, payout |-> payout])
    BY <1>11 DEF BeginRefund
  <2> QED BY <1>11, <1>e, <2>1, LedgerKeepsDividends DEF BeginRefund
<1>12. ASSUME NEW q \in Request, BeginDividends(q) PROVE DividendInv'
  BY <1>12, BeginsToDistribute
<1>13. ASSUME NEW q \in Request, NEW t \in Row, CommitDividends(q, t) PROVE DividendInv'
  BY <1>0, <1>13, DividendPaid
<1>14. ASSUME NEW q \in Request, Abort(q) PROVE DividendInv'
  BY <1>14, <1>l, LedgerKeepsDividends DEF Abort
<1>15. CASE \/ \E t \in Row : Reconcile(t)
            \/ \E b \in Booking : RecordPayment(b)
            \/ UNCHANGED vars
  BY <1>15, LedgerKeepsDividends DEF Reconcile, RecordPayment, vars
<1>16. CASE Spend \/ Adjust BY <1>1, <1>2, <1>3, <1>4, <1>5, <1>16 DEF Spend, Adjust
<1>17. CASE Settle BY <1>6, <1>9, <1>15, <1>17 DEF Settle
<1>18. CASE Book BY <1>7, <1>8, <1>10, <1>11, <1>15, <1>18 DEF Book
<1>19. CASE Distribute BY <1>12, <1>13, <1>19 DEF Distribute
<1> QED BY <1>14, <1>15, <1>16, <1>17, <1>18, <1>19 DEF Next

LEMMA InitDividendInv == Init => DividendInv
<1> SUFFICES ASSUME Init PROVE DividendInv OBVIOUS
<1>1. Dividends = {} /\ Shared = {}
  BY DEF Init, Dividends, Shared, Payouts, OfType, Written
<1>2. Sum(Dividends) = 0 /\ Sum(Shared) = 0 BY <1>1, SumEmpty DEF Sum
<1>3. Cardinality(Dividends) = 0 BY <1>1, FS_EmptySet
<1>4. SharePercent * 0 = 0 BY AmountAssumption
<1>5. PaidIsDue BY <1>2, <1>3, <1>4 DEF PaidIsDue
<1>6. \A q \in Request : ~Distributing(q) BY DEF Init, Distributing, Idle
<1> QED BY <1>5, <1>6 DEF DividendInv

\* distributeDividends, with every other handler beside it: for any number of
\* rows and payouts and any percentage, a worker was paid no more than the
\* share of the payouts, but for the rounding, unless two distributions met.
THEOREM DividendsAreSharesAlways == Spec => []DividendsAreShares
<1>1. LedgerInv /\ DividendInv => DividendsAreShares
  <2> SUFFICES ASSUME LedgerInv, DividendInv, ~overlapped
               PROVE  100 * Sum(Dividends)
                        <= SharePercent * Sum(Payouts) + 50 * Cardinality(Dividends)
    BY DEF DividendsAreShares, Dividends, Payouts
  <2>1. /\ Sum(Dividends) \in Int /\ Sum(Shared) \in Nat /\ Sum(Payouts) \in Nat
        /\ Cardinality(Dividends) \in Nat /\ Sum(Shared) <= Sum(Payouts)
    BY DividendSums
  <2>2. SharePercent \in Nat BY AmountAssumption
  <2>3. PaidIsDue BY DEF DividendInv
  <2> HIDE DEF Payouts
  <2>4. SharePercent * Sum(Shared) <= SharePercent * Sum(Payouts) BY <2>1, <2>2
  <2> DEFINE a == SharePercent * Sum(Shared)
             b == SharePercent * Sum(Payouts)
  <2>5. a \in Int /\ b \in Int /\ a <= b BY <2>1, <2>2, <2>4
  <2>6. 100 * Sum(Dividends) <= a + 50 * Cardinality(Dividends) BY <2>3 DEF PaidIsDue
  <2> HIDE DEF a, b
  <2>7. 100 * Sum(Dividends) <= b + 50 * Cardinality(Dividends) BY <2>1, <2>5, <2>6
  <2> QED BY <2>7 DEF b
<1> QED
  BY InitLedgerInv, NextLedgerInv, InitDividendInv, NextDividendInv, <1>1, PTL DEF Spec

-------------------------------------------------------------------------------
(* The contract of Purse.                                                  *)

\* A redemption is of a positive amount, so that what is held is one too.
RedeemedInv == \A t \in Row : ledger[t].type = "REDEMPTION" => ledger[t].amount >= 0

\* A completed row that is no redemption, of no negative amount or a reversal.
AddsMoney(t) ==
  \E type \in TransactionType \ {"REDEMPTION"}, amount \in Int, b \in Booking \union {Null} :
    /\ Adds(t, Transact(type, amount, "COMPLETED", b))
    /\ amount >= 0 \/ type = "REVERSAL"

\* All that a step does to the ledger.
LEMMA MoneySteps ==
  ASSUME LedgerInv, [Next]_vars
  PROVE  \/ ledger' = ledger
         \/ \E q \in Request, t \in Row : CommitRedeem(q, t) \/ CommitDebit(q, t)
         \/ \E q \in Request : CommitSettle(q)
         \/ \E q \in Request, t, u \in Row, bonus \in BOOLEAN : CommitReview(q, t, u, bonus)
         \/ \E t \in Row : AddsMoney(t)
<1>w. WalletInv BY DEF LedgerInv
<1>n. Null \in Booking \union {Null} OBVIOUS
<1>1. ASSUME NEW t \in Row, NEW amount \in Amount, CreditAdjustment(t, amount)
      PROVE  AddsMoney(t)
  <2>1. Amount \subseteq Nat \ {0} BY AmountAssumption
  <2>2. amount \in Nat \ {0} BY <2>1, Zenon
  <2>3. Adds(t, Transact("ADJUSTMENT", amount, "COMPLETED", Null)) BY <1>1, <1>w, CreditAdds
  <2>4. "ADJUSTMENT" \in TransactionType \ {"REDEMPTION"} BY DEF TransactionType
  <2>5. amount \in Int /\ amount >= 0 BY <2>2
  <2> QED BY <1>n, <2>3, <2>4, <2>5 DEF AddsMoney
<1>2. ASSUME NEW t \in Row, NEW original \in Row, Reverse(original, t) PROVE AddsMoney(t)
  <2>1. -EffectiveContribution(original) \in Int
    BY DEF LedgerInv, AmountInv, EffectiveContribution
  <2>2. Adds(t, Transact("REVERSAL", -EffectiveContribution(original), "COMPLETED", Null))
    BY <1>2, <1>w, ReverseAdds
  <2>3. "REVERSAL" \in TransactionType \ {"REDEMPTION"} BY DEF TransactionType
  <2> QED BY <1>n, <2>1, <2>2, <2>3 DEF AddsMoney
<1>3. ASSUME NEW q \in Request, NEW t \in Row, CommitRefund(q, t)
      PROVE  ledger' = ledger \/ AddsMoney(t)
  <2>1. ASSUME call[q].payout # Null,
               Adds(t, Transact("REFUND", ledger[call[q].payout].amount, "COMPLETED",
                                call[q].booking))
        PROVE  AddsMoney(t)
    <3>1. call[q].payout \in Payouts /\ call[q].booking \in Booking
      BY <1>3, <1>w, <2>1, CallFields DEF CommitRefund, LedgerInv, PayoutInv
    <3>2. ledger[call[q].payout].amount \in Int /\ ledger[call[q].payout].amount >= 0
      BY <3>1, AmountAssumption DEF LedgerInv, PayoutInv
    <3>3. "REFUND" \in TransactionType \ {"REDEMPTION"} BY DEF TransactionType
    <3>4. call[q].booking \in Booking \union {Null} BY <3>1
    <3> QED BY <2>1, <3>2, <3>3, <3>4 DEF AddsMoney
  <2> QED BY <1>3, <1>w, <2>1, RefundAdds
<1>4. ASSUME NEW q \in Request, NEW t \in Row, CommitDividends(q, t) PROVE AddsMoney(t)
  <2>1. call[q].eligible \in SUBSET Payouts BY <1>4 DEF CommitDividends, LedgerInv, PayoutInv
  <2>2. Share(call[q].eligible) \in Nat BY <2>1, ShareOfPayouts
  <2>3. Adds(t, Transact("DIVIDEND_PAYOUT", Share(call[q].eligible), "COMPLETED", Null))
    BY <1>4, <1>w, DividendAdds
  <2>4. "DIVIDEND_PAYOUT" \in TransactionType \ {"REDEMPTION"} BY DEF TransactionType
  <2>5. Share(call[q].eligible) \in Int /\ Share(call[q].eligible) >= 0 BY <2>2
  <2> QED BY <1>n, <2>3, <2>4, <2>5 DEF AddsMoney
<1>5. CASE \/ \E q \in Request, op \in {"redeem", "debit"}, amount \in Amount :
                BeginSpend(q, op, amount)
           \/ \E q \in Request, t \in Row : BeginSettle(q, t)
           \/ \E q \in Request, b \in Booking : BeginReview(q, b) \/ BeginRefund(q, b)
           \/ \E q \in Request : BeginDividends(q) \/ Abort(q)
           \/ \E t \in Row : Reconcile(t)
           \/ \E b \in Booking : RecordPayment(b)
           \/ UNCHANGED vars
  BY <1>5 DEF BeginSpend, BeginSettle, BeginReview, BeginRefund, BeginDividends, Abort,
              Reconcile, RecordPayment, vars
<1>6. CASE Spend \/ Adjust BY <1>1, <1>2, <1>5, <1>6 DEF Spend, Adjust
<1>7. CASE Settle BY <1>5, <1>7 DEF Settle
<1>8. CASE Book BY <1>3, <1>5, <1>8 DEF Book
<1>9. CASE Distribute BY <1>4, <1>5, <1>9 DEF Distribute
<1> QED BY <1>5, <1>6, <1>7, <1>8, <1>9 DEF Next

LEMMA NextRedeemedInv == LedgerInv /\ RedeemedInv /\ [Next]_vars => RedeemedInv'
<1> SUFFICES ASSUME LedgerInv, RedeemedInv, [Next]_vars PROVE RedeemedInv' OBVIOUS
<1>w. WalletInv BY DEF LedgerInv
<1>1. CASE ledger' = ledger BY <1>1 DEF RedeemedInv
<1>2. ASSUME NEW q \in Request, NEW t \in Row, CommitRedeem(q, t) PROVE RedeemedInv'
  <2>1. Adds(t, Transact("REDEMPTION", call[q].amount, "PROCESSING", Null))
    BY <1>2, <1>w, RedeemAdds
  <2>2. call[q].amount >= 0 BY <1>2, <1>w, SpendingAmount DEF CommitRedeem
  <2> QED BY <2>1, <2>2 DEF Adds, Transact, RedeemedInv
<1>3. ASSUME NEW q \in Request, NEW t \in Row, CommitDebit(q, t) PROVE RedeemedInv'
  <2>1. Adds(t, Transact("ADJUSTMENT", -call[q].amount, "COMPLETED", Null))
    BY <1>3, <1>w, DebitAdds
  <2> QED BY <2>1 DEF Adds, Transact, RedeemedInv
<1>4. ASSUME NEW q \in Request, CommitSettle(q) PROVE RedeemedInv'
  BY <1>4, <1>w, SettleWrites DEF RedeemedInv
<1>5. ASSUME NEW q \in Request, NEW t \in Row, NEW u \in Row, NEW bonus \in BOOLEAN,
             CommitReview(q, t, u, bonus)
      PROVE  RedeemedInv'
  <2>1. /\ ledger'[t] = Transact("JOB_PAYOUT", Fare, "COMPLETED", call[q].booking)
        /\ u # t => ledger'[u] = Transact("FEEDBACK_CREDIT", Credit, "COMPLETED",
                                          call[q].booking)
        /\ \A s \in Row : s \notin {t, u} => ledger'[s] = ledger[s]
    BY <1>5, <1>w, ReviewAdds
  <2>2. \A s \in {t, u} : ledger'[s].type # "REDEMPTION" BY <2>1 DEF Transact
  <2> QED BY <2>1, <2>2 DEF RedeemedInv
<1>6. ASSUME NEW t \in Row, AddsMoney(t) PROVE RedeemedInv'
  <2>1. ledger'[t].type # "REDEMPTION" /\ \A s \in Row : s # t => ledger'[s] = ledger[s]
    BY <1>6 DEF AddsMoney, Adds, Transact
  <2> QED BY <2>1 DEF RedeemedInv
<1> QED BY <1>1, <1>2, <1>3, <1>4, <1>5, <1>6, MoneySteps

LEMMA HeldIsPositive == LedgerInv /\ RedeemedInv => Pending >= 0
<1> SUFFICES ASSUME LedgerInv, RedeemedInv PROVE Pending >= 0 OBVIOUS
<1>1. IsFiniteSet(Held) /\ Held \subseteq Row
  BY FS_Subset DEF LedgerInv, PayoutInv, Held, OfType, Written
<1>2. \A t \in Held : Contributions[t] \in Int /\ Contributions[t] <= 0
  <2>1. \A t \in Held : /\ ledger[t].amount \in Int /\ ledger[t].amount >= 0
                        /\ Contributions[t] = -ledger[t].amount
    BY <1>1, ContributionOf DEF LedgerInv, AmountInv, RedeemedInv, Held, OfType
  <2> QED BY <2>1
<1>3. SumFunctionOnSet(Contributions, Held) <= 0 BY <1>1, <1>2, SumAtMostZero
<1>4. SumFunctionOnSet(Contributions, Held) \in Int BY <1>1, <1>2, SumType
<1>5. Pending = -SumFunctionOnSet(Contributions, Held) BY DEF Pending, Sum, Held
<1> QED BY <1>3, <1>4, <1>5

LEMMA HeldStaysPositive == (LedgerInv /\ RedeemedInv => Pending >= 0)'
BY HeldIsPositive, PTL

\* Rows that only add money.
LEMMA RowsEarn ==
  ASSUME LedgerInv, LedgerInv', Keeps,
         \A t \in Written' \ Written : /\ ledger'[t].status = "COMPLETED"
                                       /\ Contributions'[t] \in Nat
  PROVE  Available' >= Available /\ Pending' = Pending /\ TakenBack' = TakenBack
<1> DEFINE New == Written' \ Written
<1>1. Completed' \ Completed = New BY DEF Keeps, Completed
<1>2. Held' \ Held = {} BY DEF Keeps, Held, OfType
<1>3. ReversedOut' \ ReversedOut = {}
  <2> SUFFICES ASSUME NEW t \in ReversedOut', t \notin ReversedOut PROVE FALSE OBVIOUS
  <2>1. t \in New BY DEF Keeps, ReversedOut, OfType
  <2>2. t \in Row /\ ledger'[t].type = "REVERSAL" /\ ledger'[t].amount < 0
    BY <2>1 DEF ReversedOut, OfType, Written
  <2>3. Contributions'[t] = ledger'[t].amount BY <2>2, ContributionOf
  <2> QED BY <2>1, <2>2, <2>3
<1>4. IsFiniteSet(New)
  <2>1. New \in SUBSET Written' OBVIOUS
  <2> QED BY <2>1, SlackIs
<1>5. SumFunctionOnSet(Contributions', New) \in Nat BY <1>4, SumNat
<1>6. SumFunctionOnSet(Contributions', {}) = 0 BY SumEmpty
<1>7. Available \in Int /\ Pending \in Int /\ TakenBack \in Int BY MoneyIs
<1> DEFINE n == SumFunctionOnSet(Contributions', New)
<1>8. Available' = Available + n /\ Pending' = Pending - 0 /\ TakenBack' = TakenBack - 0
  BY <1>1, <1>2, <1>3, <1>6, MoneyGrows
<1>9. n \in Nat BY <1>5
<1> HIDE DEF n
<1> QED BY <1>7, <1>8, <1>9

\* One row that adds money, or takes it back.
LEMMA RowMoves ==
  ASSUME LedgerInv, LedgerInv', NEW t \in Row, AddsMoney(t)
  PROVE  Contract!Earn \/ Contract!TakeBack
<1>1. PICK type \in TransactionType \ {"REDEMPTION"}, amount \in Int, b \in Booking \union {Null} :
        /\ Adds(t, Transact(type, amount, "COMPLETED", b))
        /\ amount >= 0 \/ type = "REVERSAL"
  BY DEF AddsMoney
<1>2. t \notin Written /\ Written' = Written \union {t} BY <1>1 DEF Adds
<1>3. Keeps BY <1>1, <1>2 DEF Adds, Keeps, Written
<1>4. ledger'[t].type = type /\ ledger'[t].amount = amount /\ ledger'[t].status = "COMPLETED"
  BY <1>1 DEF Adds, Transact
<1>5. Contributions'[t] = amount BY <1>4, ContributionOf
<1>6. CASE amount >= 0
  <2>1. \A s \in Written' \ Written : s = t BY <1>2
  <2>2. Available' >= Available /\ Pending' = Pending /\ TakenBack' = TakenBack
    BY <1>3, <1>4, <1>5, <1>6, <2>1, RowsEarn
  <2> QED BY <2>2 DEF Contract!Earn, TakenBack
<1>7. CASE type = "REVERSAL" /\ amount < 0
  <2>1. Completed' \ Completed = {t} BY <1>2, <1>3, <1>4 DEF Keeps, Completed
  <2>2. Held' \ Held = {} BY <1>2, <1>3, <1>4 DEF Keeps, Held, OfType
  <2>3. ReversedOut' \ ReversedOut = {t}
    BY <1>2, <1>3, <1>4, <1>7 DEF Keeps, ReversedOut, OfType
  <2>4. SumFunctionOnSet(Contributions', {}) = 0 BY SumEmpty
  <2>5. SumFunctionOnSet(Contributions', {t}) = amount BY <1>5, SumOne
  <2>6. Available \in Int /\ Pending \in Int /\ TakenBack \in Int BY MoneyIs
  <2>7. /\ Available' = Available + amount
        /\ Pending' = Pending - 0
        /\ TakenBack' = TakenBack - amount
    BY <1>3, <2>1, <2>2, <2>3, <2>4, <2>5, MoneyGrows
  <2>8. Contract!TakeBack <=> /\ TakenBack' >= TakenBack
                              /\ Available' + TakenBack' = Available + TakenBack
                              /\ Pending' = Pending
    BY DEF Contract!TakeBack, TakenBack
  <2> QED BY <1>7, <2>6, <2>7, <2>8
<1> QED BY <1>1, <1>6, <1>7

\* A redemption that is held, a debit that is spent: it was there.
LEMMA SpendMoves ==
  ASSUME LedgerInv, LedgerInv', SpendInv, SpendInv', NEW q \in Request, NEW t \in Row,
         CommitRedeem(q, t) \/ CommitDebit(q, t)
  PROVE  Contract!Hold \/ Contract!Spend
<1>w. WalletInv BY DEF LedgerInv
<1>1. call[q].amount \in Nat BY <1>w, SpendingAmount DEF CommitRedeem, CommitDebit
<1>2. \/ Adds(t, Transact("REDEMPTION", call[q].amount, "PROCESSING", Null))
      \/ Adds(t, Transact("ADJUSTMENT", -call[q].amount, "COMPLETED", Null))
  BY <1>w, RedeemAdds, DebitAdds
<1>3. t \in Row /\ t \notin Written /\ Written' = Written \union {t} BY <1>2 DEF Adds
<1>4. Keeps BY <1>2, <1>3 DEF Adds, Keeps, Written
<1>5. \/ /\ ledger'[t].type = "REDEMPTION" /\ ledger'[t].amount = call[q].amount
         /\ ledger'[t].status = "PROCESSING"
      \/ /\ ledger'[t].type = "ADJUSTMENT" /\ ledger'[t].amount = -call[q].amount
         /\ ledger'[t].status = "COMPLETED"
  BY <1>2 DEF Adds, Transact
<1>6. Contributions'[t] = -call[q].amount BY <1>3, <1>5, ContributionOf
<1>7. ReversedOut' \ ReversedOut = {} BY <1>3, <1>4, <1>5 DEF Keeps, ReversedOut, OfType
<1>8. \/ Completed' \ Completed = {} /\ Held' \ Held = {t}
      \/ Completed' \ Completed = {t} /\ Held' \ Held = {}
  BY <1>3, <1>4, <1>5 DEF Keeps, Completed, Held, OfType
<1>9. SumFunctionOnSet(Contributions', {}) = 0 BY SumEmpty
<1>10. SumFunctionOnSet(Contributions', {t}) = -call[q].amount
  <2>1. Contributions'[t] \in Int BY <1>1, <1>6
  <2> QED BY <1>6, <2>1, SumOne
<1>11. /\ Available \in Int /\ Pending \in Int /\ TakenBack \in Int
       /\ Slack' = Available' - Pending' + TakenBack'
  BY MoneyIs
<1>12. TakenBack' = TakenBack - 0 BY <1>4, <1>7, <1>9, MoneyGrows
<1>13. \/ Available' = Available + 0 /\ Pending' = Pending - (-call[q].amount)
       \/ Available' = Available + (-call[q].amount) /\ Pending' = Pending - 0
  BY <1>4, <1>8, <1>9, <1>10, MoneyGrows
<1>14. Slack' >= 0 BY DEF SpendInv
<1>15. /\ Contract!Hold <=> /\ Pending' >= Pending
                            /\ Available' - Pending' + TakenBack' >= 0
                            /\ Available' = Available /\ TakenBack' = TakenBack
       /\ Contract!Spend <=> /\ Available' <= Available
                             /\ Available' - Pending' + TakenBack' >= 0
                             /\ Pending' = Pending /\ TakenBack' = TakenBack
  BY DEF Contract!Hold, Contract!Spend, Contract!Free, TakenBack
<1> QED BY <1>1, <1>11, <1>12, <1>13, <1>14, <1>15

\* A settled redemption is paid out as it was held.
LEMMA SettleMoves ==
  ASSUME LedgerInv, LedgerInv', RedeemedInv, RedeemedInv', NEW q \in Request, CommitSettle(q)
  PROVE  Contract!PayOut
<1> DEFINE t == call[q].row
<1>w. WalletInv BY DEF LedgerInv
<1>1. /\ t \in Row
      /\ ledger[t].type = "REDEMPTION"
      /\ ledger[t].status = "PROCESSING"
      /\ ledger'[t].status = "COMPLETED"
      /\ \A s \in Row : s # t => ledger'[s] = ledger[s]
      /\ \A s \in Row : /\ ledger'[s].type = ledger[s].type
                        /\ ledger'[s].amount = ledger[s].amount
                        /\ ledger'[s].booking = ledger[s].booking
      /\ Written' = Written
  BY <1>w, SettleWrites
<1> HIDE DEF t
<1>2. t \in Written BY <1>1 DEF Written, NoRow
<1>3. t \in Held /\ Held' = Held \ {t} BY <1>1, <1>2 DEF Held, OfType, Written
<1>4. ReversedOut' = ReversedOut BY <1>1 DEF ReversedOut, OfType, Written
<1>5. Contributions' = Contributions
  <2>1. \A s \in Row : Contributions'[s] = Contributions[s] BY <1>1, ContributionOf
  <2> QED BY <2>1 DEF Contributions
<1>6. Held \subseteq Written /\ Written \subseteq Row BY DEF Held, OfType, Written
<1>7. \A s \in Row : Contributions[s] \in Int BY ContributionTypes DEF LedgerInv
<1> DEFINE b == SumFunctionOnSet(Contributions, Held \ {t})
           x == Contributions[t]
<1>8. SumFunctionOnSet(Contributions, Held) = x + b BY <1>3, <1>6, <1>7, SlackIs, SumRemove
<1>9. b \in Int /\ x \in Int
  <2>1. Held \ {t} \in SUBSET Written BY <1>6
  <2> QED BY <1>1, <1>7, <2>1, SlackIs
<1>10. x <= 0
  <2>1. x = -ledger[t].amount /\ ledger[t].amount \in Int /\ ledger[t].amount >= 0
    BY <1>1, ContributionOf DEF LedgerInv, AmountInv, RedeemedInv
  <2> QED BY <2>1
<1>11. Pending = -(x + b) /\ Pending' = -b BY <1>3, <1>5, <1>8, MoneyIs
<1>12. Pending' >= 0 BY HeldStaysPositive
<1>13. TakenBack' = TakenBack BY <1>4, <1>5, MoneyIs
<1>14. Slack' = Slack BY SettledSlack
<1>15. /\ Available \in Int /\ Pending \in Int /\ TakenBack \in Int
       /\ Available' \in Int /\ Pending' \in Int /\ TakenBack' \in Int
       /\ Slack = Available - Pending + TakenBack
       /\ Slack' = Available' - Pending' + TakenBack'
  BY MoneyIs
<1>16. Contract!PayOut <=> /\ Pending' <= Pending /\ Pending' >= 0
                           /\ Available' - Pending' = Available - Pending
                           /\ TakenBack' = TakenBack
  BY DEF Contract!PayOut, TakenBack
<1> HIDE DEF b, x
<1>17. Pending' <= Pending BY <1>9, <1>10, <1>11
<1>18. Available' - Pending' = Available - Pending
  <2>1. Available' - Pending' + TakenBack = Available - Pending + TakenBack
    BY <1>13, <1>14, <1>15
  <2> DEFINE a == Available'
             p == Pending'
             c == Available
             d == Pending
             e == TakenBack
  <2>2. a \in Int /\ p \in Int /\ c \in Int /\ d \in Int /\ e \in Int BY <1>15
  <2>3. a - p + e = c - d + e BY <2>1
  <2> HIDE DEF a, p, c, d, e
  <2>4. a - p = c - d BY <2>2, <2>3
  <2> QED BY <2>4 DEF a, p, c, d
<1> QED BY <1>12, <1>13, <1>16, <1>17, <1>18

LEMMA NextContract ==
  LedgerInv /\ SpendInv /\ RedeemedInv /\ [Next]_vars => [Contract!Next]_Contract!vars
<1> SUFFICES ASSUME LedgerInv, SpendInv, RedeemedInv, [Next]_vars
             PROVE  [Contract!Next]_Contract!vars
  OBVIOUS
<1>i. LedgerInv' /\ SpendInv' /\ RedeemedInv'
  BY NextLedgerInv, NextSpendInv, NextRedeemedInv
<1>1. CASE ledger' = ledger
  <2>1. Available' = Available /\ Pending' = Pending /\ Sum(ReversedOut)' = Sum(ReversedOut)
    BY <1>1 DEF Available, Pending, Sum, Contributions, EffectiveContribution, ReversedOut,
                OfType, Written
  <2> QED BY <2>1 DEF Contract!vars
<1>2. ASSUME NEW q \in Request, NEW t \in Row, NEW u \in Row, NEW bonus \in BOOLEAN,
             CommitReview(q, t, u, bonus)
      PROVE  Contract!Earn
  <2>1. /\ Written' = Written \union {t, u} /\ t \notin Written /\ u \notin Written
        /\ ledger'[t] = Transact("JOB_PAYOUT", Fare, "COMPLETED", call[q].booking)
        /\ u # t => ledger'[u] = Transact("FEEDBACK_CREDIT", Credit, "COMPLETED",
                                          call[q].booking)
        /\ \A s \in Row : s \notin {t, u} => ledger'[s] = ledger[s]
    BY <1>2, ReviewAdds DEF LedgerInv
  <2>2. Keeps BY <2>1 DEF Keeps, Written
  <2>3. \A s \in {t, u} : /\ ledger'[s].status = "COMPLETED"
                          /\ ledger'[s].amount \in Nat
                          /\ ledger'[s].type # "REDEMPTION"
    BY <2>1, AmountAssumption DEF Transact
  <2>4. \A s \in {t, u} : Contributions'[s] \in Nat BY <2>3, ContributionOf
  <2>5. Available' >= Available /\ Pending' = Pending /\ TakenBack' = TakenBack
    BY <1>i, <2>1, <2>2, <2>3, <2>4, RowsEarn
  <2> QED BY <2>5 DEF Contract!Earn, TakenBack
<1> QED
  BY <1>i, <1>1, <1>2, MoneySteps, RowMoves, SpendMoves, SettleMoves DEF Contract!Next

LEMMA InitContract == Init => Contract!Init /\ RedeemedInv
<1> SUFFICES ASSUME Init PROVE Contract!Init /\ RedeemedInv OBVIOUS
<1>1. Written = {} BY DEF Init, Written
<1>2. Completed = {} /\ Held = {} /\ ReversedOut = {}
  BY <1>1 DEF Completed, Held, ReversedOut, OfType
<1>3. SumFunctionOnSet(Contributions, {}) = 0 BY SumEmpty
<1>4. Available = 0 /\ Pending = -0 /\ -Sum(ReversedOut) = -0
  BY <1>2, <1>3 DEF Available, Pending, Sum, Completed, Held
<1>5. RedeemedInv BY DEF Init, RedeemedInv, NoRow
<1>6. -0 = 0
  <2>1. \A x \in Int : -x = 0 - x OBVIOUS
  <2>2. 0 \in Int /\ 0 - 0 = 0 OBVIOUS
  <2> QED BY <2>1, <2>2, Zenon
<1>7. Available = 0 /\ Pending = 0 /\ -Sum(ReversedOut) = 0 BY <1>4, <1>6, Zenon
<1> QED BY <1>5, <1>7 DEF Contract!Init

\* The ledger, derived from rows that many handlers write, implements the
\* contract of Purse for any number of them.
THEOREM ImplementsPurse == Spec => PurseContract
BY InitLedgerInv, NextLedgerInv, InitSpendInv, NextSpendInv, InitContract, NextRedeemedInv,
   NextContract, PTL
DEF Spec, PurseContract, Contract!Spec
=============================================================================
