------------------------------------ MODULE Fees ------------------------------------
(***************************************************************************)
(* One pupil's fees of one type in one academic year: the fee rows, their  *)
(* installments and the Revenue rows of the payments                       *)
(* (blueprints/fees, the wizard of blueprints/students and the Revenue     *)
(* pages of blueprints/finances).                                          *)
(*                                                                         *)
(* A request reads its rows without a lock, takes the row locks of the     *)
(* installments one by one (SELECT ... FOR UPDATE) and commits what it     *)
(* computed from the values it locked; any failure rolls everything back.  *)
(* Revenue rows of one installment are known by its receipt number and     *)
(* kept here as their sum; money is counted in the smallest unit.          *)
(***************************************************************************)
EXTENDS Integers, FiniteSets, Functions

CONSTANTS NumFees,          \* bound: fee_records rows of the pupil, type and year
          NumRequests,      \* bound: HTTP requests
          NumInstallments,
          Nets,             \* total less discount of a new fee
          Payments,         \* amounts a clerk may enter
          EditedRevenues,   \* totals that edits of the Revenue pages leave
          MaxEdits          \* bound: edits of Revenue rows

Fees == 1 .. NumFees                  \* in the order of their creation
Requests == 1 .. NumRequests          \* in the order of their arrival
NoRequest == 0
Installments == 1 .. NumInstallments

ASSUME ConstantsAssumption ==
  /\ NumRequests \in Nat /\ NumFees \in Nat /\ NumFees > NumRequests
  /\ NumInstallments \in Nat \ {0}
  /\ Nets \subseteq Nat /\ Payments \subseteq Nat \ {0} /\ EditedRevenues \subseteq Nat
  /\ MaxEdits \in Nat

VARIABLES
  fee,        \* state of each fee row: not created, active or cancelled
  amount,     \* FeeInstallment.amount
  received,   \* FeeInstallment.received_amount
  revenue,    \* sum of the installment's Revenue rows that are not refunded
  holder,     \* who holds the row lock of each installment
  collected,  \* money taken for each installment so far
  refunded,   \* money of the FeeRefundEvents of each installment so far
  req,        \* the requests
  edits

vars == <<fee, amount, received, revenue, holder, collected, refunded, req, edits>>
ledger == <<fee, amount, received, revenue, collected, refunded>>

Operations == {"create", "pay", "refund", "cancel"}
Ledgers == [Fees -> [Installments -> Nat]]
Zero == [i \in Installments |-> 0]

\* seen: received_amount as each row was when it was locked.
Request == [pc : {"new", "open", "accepted", "rejected"}, op : Operations, fee : Fees,
            inst : Installments, paid : Nat, seen : [Installments -> Nat]]

-----------------------------------------------------------------------------
(* What the pages compute. *)

ActiveFeeExists == \E f \in Fees : fee[f] = "active"

\* The amounts of a new fee: typed in by the user and adding up to the net
\* amount, or an equal split rounded to the unit, either way on a tie.
ManualSplits(net) == {a \in [Installments -> 0 .. net] : SumFunction(a) = net}
EqualSplits(net) ==
  {[i \in Installments |-> each] : each \in
     {k \in 0 .. net : 2 * k * NumInstallments - 2 * net \in -NumInstallments .. NumInstallments}}
Splits(net) == ManualSplits(net) \cup EqualSplits(net)

\* The pupil has been given a fee.
Init ==
  /\ fee = [f \in Fees |-> IF f = 1 THEN "active" ELSE "none"]
  /\ \E net \in Nets : \E a \in Splits(net) :
       amount = [f \in Fees |-> IF f = 1 THEN a ELSE Zero]
  /\ received = [f \in Fees |-> Zero] /\ revenue = [f \in Fees |-> Zero]
  /\ collected = [f \in Fees |-> Zero] /\ refunded = [f \in Fees |-> Zero]
  /\ holder = [f \in Fees |-> [i \in Installments |-> NoRequest]]
  /\ req = [r \in Requests |-> [pc |-> "new", op |-> "create", fee |-> 1, inst |-> 1,
                                paid |-> 0, seen |-> Zero]]
  /\ edits = 0

\* Mutant: what exceeds the installments is dropped without a word.
CappedAllocations(due, start, paid) ==
  {a \in [Installments -> 0 .. paid] :
     /\ due[start] > 0
     /\ \A i \in Installments : a[i] <= due[i] /\ (i < start => a[i] = 0)
     /\ SumFunction(a) <= paid}

\* The ways (at most one) to spread a payment over what is due, from the
\* installment start on and each before the next.
Allocations(due, start, paid) ==
  {a \in [Installments -> 0 .. paid] :
     /\ due[start] > 0
     /\ \A i \in Installments : a[i] <= due[i] /\ (i < start => a[i] = 0)
     /\ \A i, j \in Installments : start <= i /\ i < j /\ a[j] > 0 => a[i] = due[i]
     /\ SumFunction(a) = paid}

Due(r) == [i \in Installments |-> amount[req[r].fee][i] - req[r].seen[i]]

\* Mutant: whatever income is left on the installment is given back.
RefundableInPart(f, i, seen) == seen[i] > 0 /\ revenue[f][i] > 0

\* The active Revenue rows of the installment add up to what it received.
Refundable(f, i, seen) == seen[i] > 0 /\ revenue[f][i] = seen[i]
-----------------------------------------------------------------------------
(* Requests. *)

Is(r, op) == req[r].pc = "open" /\ req[r].op = op

Open(r, op, f, i, paid) ==
  /\ req[r].pc = "new" /\ \A q \in 1 .. r - 1 : req[q].pc # "new"
  /\ req' = [req EXCEPT ![r].pc = "open", ![r].op = op, ![r].fee = f, ![r].inst = i,
                        ![r].paid = paid]

\* Mutant: a rejected request keeps its locks.
CloseKeepingLocks(r, verdict) ==
  /\ req' = [req EXCEPT ![r].pc = verdict]
  /\ UNCHANGED <<holder, edits>>

\* Commit or rollback, which both release the row locks.
Close(r, verdict) ==
  /\ req' = [req EXCEPT ![r].pc = verdict, ![r].seen = Zero]
  /\ holder' = [f \in Fees |-> [i \in Installments |->
                  IF holder[f][i] = r THEN NoRequest ELSE holder[f][i]]]
  /\ UNCHANGED edits

Reject(r) == Close(r, "rejected") /\ UNCHANGED ledger

\* Add Fee, bulk assignment, or the wizard, which may take a first payment.
OpenCreate(r, paid) ==
  /\ ~ ActiveFeeExists
  /\ Open(r, "create", 1, 1, paid)
  /\ UNCHANGED <<ledger, holder, edits>>

OpenPay(r, f, i, paid) ==
  /\ fee[f] = "active"
  /\ Open(r, "pay", f, i, paid)
  /\ UNCHANGED <<ledger, holder, edits>>

OpenRefund(r, f, i) ==
  /\ fee[f] # "none"
  /\ Open(r, "refund", f, i, 0)
  /\ UNCHANGED <<ledger, holder, edits>>

OpenCancel(r, f) ==
  /\ fee[f] = "active"
  /\ Open(r, "cancel", f, 1, 0)
  /\ UNCHANGED <<ledger, holder, edits>>

\* The rows a request locks: a payment those from the chosen installment on,
\* in whatever order the database finds them; a cancellation all, in order.
Rows(r) ==
  CASE req[r].op = "create" -> {}
    [] req[r].op = "pay"    -> {i \in Installments : i >= req[r].inst}
    [] req[r].op = "refund" -> {req[r].inst}
    [] req[r].op = "cancel" -> Installments

Holds(r, i) == holder[req[r].fee][i] = r

\* Mutant: a request commits without having locked its rows.
NeedsNoRows(r) == req[r].pc = "open"

HasItsRows(r) == \A i \in Rows(r) : Holds(r, i)

Lock(r, i) ==
  /\ req[r].pc = "open" /\ i \in Rows(r)
  /\ holder[req[r].fee][i] = NoRequest
  /\ req[r].op = "cancel" => \A j \in Rows(r) : j < i => Holds(r, j)
  /\ holder' = [holder EXCEPT ![req[r].fee][i] = r]
  /\ req' = [req EXCEPT ![r].seen[i] = received[req[r].fee][i]]
  /\ UNCHANGED <<ledger, edits>>
-----------------------------------------------------------------------------
(* What a request commits. *)

\* Add a spread-out payment to the rows as they were locked, one Revenue row each.
Record(f, before, a) ==
  /\ received' = [received EXCEPT ![f] =
       [i \in Installments |-> IF a[i] > 0 THEN before[i] + a[i] ELSE received[f][i]]]
  /\ revenue' = [revenue EXCEPT ![f] = [i \in Installments |-> revenue[f][i] + a[i]]]
  /\ collected' = [collected EXCEPT ![f] = [i \in Installments |-> collected[f][i] + a[i]]]

\* Mutant: the Revenue rows keep counting as income.
ReverseReceivedOnly(f, S) ==
  /\ received' = [received EXCEPT ![f] =
       [i \in Installments |-> IF i \in S THEN 0 ELSE received[f][i]]]
  /\ refunded' = [refunded EXCEPT ![f] =
       [i \in Installments |-> refunded[f][i] + (IF i \in S THEN revenue[f][i] ELSE 0)]]
  /\ UNCHANGED revenue

\* Flag the active Revenue rows of the installments S as refunded.
Reverse(f, S) ==
  /\ received' = [received EXCEPT ![f] =
       [i \in Installments |-> IF i \in S THEN 0 ELSE received[f][i]]]
  /\ revenue' = [revenue EXCEPT ![f] =
       [i \in Installments |-> IF i \in S THEN 0 ELSE revenue[f][i]]]
  /\ refunded' = [refunded EXCEPT ![f] =
       [i \in Installments |-> refunded[f][i] + (IF i \in S THEN revenue[f][i] ELSE 0)]]

\* A payment in the wizard starts at the first installment that is due.
FirstDue(a) == {i \in Installments : a[i] > 0 /\ \A j \in Installments : a[j] > 0 => i <= j}
Openings(a, paid) ==
  IF paid = 0 THEN {Zero} ELSE UNION {Allocations(a, i, paid) : i \in FirstDue(a)}

CommitCreate(r) ==
  /\ Is(r, "create")
  /\ \E f \in Fees, net \in Nets :
       /\ fee[f] = "none" /\ \A g \in 1 .. f - 1 : fee[g] # "none"
       /\ \E a \in Splits(net) :
            \/ /\ ActiveFeeExists \/ Openings(a, req[r].paid) = {}
               /\ Reject(r)
            \/ /\ ~ ActiveFeeExists  \* the partial unique index
               /\ \E p \in Openings(a, req[r].paid) : Record(f, Zero, p)
               /\ fee' = [fee EXCEPT ![f] = "active"]
               /\ amount' = [amount EXCEPT ![f] = a]
               /\ Close(r, "accepted") /\ UNCHANGED refunded

\* The check for a cancelled fee is the one made when the request was opened.
CommitPay(r) ==
  /\ Is(r, "pay") /\ HasItsRows(r)
  /\ LET possible == Allocations(Due(r), req[r].inst, req[r].paid)
     IN  \/ possible = {} /\ Reject(r)
         \/ /\ \E a \in possible : Record(req[r].fee, req[r].seen, a)
            /\ Close(r, "accepted") /\ UNCHANGED <<fee, amount, refunded>>

CommitRefund(r) ==
  /\ Is(r, "refund") /\ HasItsRows(r)
  /\ LET i == req[r].inst
     IN  \/ ~ Refundable(req[r].fee, i, req[r].seen) /\ Reject(r)
         \/ /\ Refundable(req[r].fee, i, req[r].seen)
            /\ Reverse(req[r].fee, {i})
            /\ Close(r, "accepted") /\ UNCHANGED <<fee, amount, collected>>

\* Mutant: cancelling skips the check that every amount can be reversed.
StillActive(r) == fee[req[r].fee] = "active"

Cancellable(r) ==
  LET f == req[r].fee
  IN  /\ fee[f] = "active"
      /\ \A i \in Installments : req[r].seen[i] > 0 => Refundable(f, i, req[r].seen)

CommitCancel(r) ==
  /\ Is(r, "cancel") /\ HasItsRows(r)
  /\ \/ ~ Cancellable(r) /\ Reject(r)
     \/ /\ Cancellable(r)
        /\ Reverse(req[r].fee, Installments)
        /\ fee' = [fee EXCEPT ![req[r].fee] = "cancelled"]
        /\ Close(r, "accepted") /\ UNCHANGED <<amount, collected>>

\* An exception, a lost connection or a killed worker.
Fail(r) == req[r].pc = "open" /\ Reject(r)

\* PostgreSQL ends one of the transactions that wait for each other.
Wanted(r) ==
  {i \in Rows(r) : /\ ~ Holds(r, i)
                   /\ req[r].op = "cancel" => \A j \in Rows(r) : j < i => Holds(r, j)}
Deadlocked(S) ==
  \A r \in S : /\ req[r].pc = "open" /\ Wanted(r) # {}
               /\ \A i \in Wanted(r) : holder[req[r].fee][i] \in S
BreakDeadlock ==
  \E S \in SUBSET Requests : Deadlocked(S) /\ \E r \in S : Reject(r)

\* The Revenue pages change or delete the rows of a payment like any others.
EditRevenue(f, i, sum) ==
  /\ edits < MaxEdits /\ edits' = edits + 1
  /\ revenue[f][i] > 0
  /\ revenue' = [revenue EXCEPT ![f][i] = sum]
  /\ UNCHANGED <<fee, amount, received, collected, refunded, holder, req>>
-----------------------------------------------------------------------------
Commit(r) == CommitCreate(r) \/ CommitPay(r) \/ CommitRefund(r) \/ CommitCancel(r)
LockRow(r) == \E i \in Installments : Lock(r, i)

Next ==
  \/ \E r \in Requests :
       \/ \E paid \in Payments \cup {0} : OpenCreate(r, paid)
       \/ \E f \in Fees, i \in Installments, paid \in Payments : OpenPay(r, f, i, paid)
       \/ \E f \in Fees, i \in Installments : OpenRefund(r, f, i)
       \/ \E f \in Fees : OpenCancel(r, f)
       \/ LockRow(r)
       \/ Commit(r)
       \/ Fail(r)
  \/ BreakDeadlock
  \/ \E f \in Fees, i \in Installments, sum \in EditedRevenues : EditRevenue(f, i, sum)

\* A request that can go on does; waiting ends when the row is released.
Fairness ==
  /\ \A r \in Requests : WF_vars(LockRow(r)) /\ WF_vars(Commit(r))
  /\ WF_vars(BreakDeadlock)

Spec == Init /\ [][Next]_vars
LiveSpec == Spec /\ Fairness
-----------------------------------------------------------------------------
TypeOK ==
  /\ fee \in [Fees -> {"none", "active", "cancelled"}]
  /\ amount \in Ledgers /\ received \in Ledgers /\ revenue \in Ledgers
  /\ collected \in Ledgers /\ refunded \in Ledgers
  /\ holder \in [Fees -> [Installments -> Requests \cup {NoRequest}]]
  /\ req \in [Requests -> Request]
  /\ edits \in 0 .. MaxEdits

\* However payments, refunds and cancellations interleave, and whatever the
\* Revenue pages do to the rows, what an installment shows as received is the
\* money taken for it less the money refunded.
Conserved ==
  \A f \in Fees, i \in Installments : received[f][i] = collected[f][i] - refunded[f][i]

\* Clerks who pay one installment at the same time never take more than it asks.
NeverOverpaid ==
  \A f \in Fees, i \in Installments : collected[f][i] - refunded[f][i] <= amount[f][i]

\* Until a Revenue row is edited by hand, the income booked for an installment
\* is what it received, so every payment can be refunded exactly.
LedgerAgrees == edits = 0 => revenue = received

\* Every accepted payment was booked in full, over one installment or several,
\* and a rejected one not at all.
PaymentsAccounted ==
  SumFunction([f \in Fees |-> SumFunction(collected[f])])
    = SumFunction([r \in Requests |-> IF req[r].pc = "accepted" THEN req[r].paid ELSE 0])

\* Cancelling leaves no money and no active income behind, and gives back
\* exactly what was received, also when Revenue rows were edited.
CancellationIsExact ==
  [][\A f \in Fees, i \in Installments :
       fee[f] = "active" /\ fee'[f] = "cancelled" =>
         /\ received'[f][i] = 0 /\ revenue'[f][i] = 0
         /\ refunded'[f][i] = refunded[f][i] + received[f][i]]_vars

\* A request always comes to an end, also when it meets others that lock the
\* same installments in another order.
RequestsEnd ==
  \A r \in Requests : req[r].pc = "open" ~> req[r].pc \in {"accepted", "rejected"}

\* "A cancelled fee is preserved as history but rejects all new payments"
\* (pay_installment): it holds no money. It does not hold: a payment looks at the
\* status before it waits for the locks of a cancellation.
CancelledHoldsNothing ==
  \A f \in Fees : fee[f] = "cancelled" => received[f] = Zero /\ revenue[f] = Zero
=============================================================================
