-------------------------------- MODULE FeesProofs --------------------------------
(***************************************************************************)
(* Proofs about Fees, for any number of fees, requests and installments    *)
(* and any amounts.                                                        *)
(*                                                                         *)
(* The invariants of the ledger are inductive together with what the row   *)
(* locks give (LocksAreGood): the value a request saw when it locked an    *)
(* installment is still the value in the row.  That payments are booked in *)
(* full is a matter of sums over fees and installments: the last sections. *)
(***************************************************************************)
EXTENDS Fees, FiniteSetTheorems, TLAPS

\* A request that holds a row is open, works on that fee, chose that row and
\* knows what is in it.
LocksAreGood ==
  \A r \in Requests, f \in Fees, i \in Installments :
    holder[f][i] = r =>
      /\ req[r].pc = "open" /\ req[r].fee = f /\ i \in Rows(r)
      /\ req[r].seen[i] = received[f][i]

\* An open request on existing rows works on a fee that was created.
FeesExist ==
  \A r \in Requests :
    req[r].pc = "open" /\ req[r].op # "create" => fee[req[r].fee] # "none"

\* Nothing was paid for a fee before it was created.
FreshIsEmpty ==
  \A f \in Fees : fee[f] = "none" =>
    /\ received[f] = Zero /\ revenue[f] = Zero /\ collected[f] = Zero /\ refunded[f] = Zero

\* Active income belongs to an installment that received something.
IncomeIsReceived ==
  \A f \in Fees, i \in Installments : revenue[f][i] > 0 => received[f][i] > 0

WithinAmount ==
  \A f \in Fees, i \in Installments : received[f][i] <= amount[f][i]

Agreement ==
  edits = 0 => \A f \in Fees, i \in Installments : revenue[f][i] = received[f][i]

IInv == /\ TypeOK /\ LocksAreGood /\ FeesExist /\ FreshIsEmpty
        /\ IncomeIsReceived /\ WithinAmount /\ Agreement /\ Conserved
-----------------------------------------------------------------------------
LEMMA BasicFacts ==
  /\ NumInstallments \in Nat /\ 1 \in Installments /\ Installments \subseteq Nat
  /\ Fees \subseteq Nat /\ 1 \in Fees /\ Requests \subseteq Nat /\ NoRequest \notin Requests
  /\ Zero \in [Installments -> Nat] /\ \A i \in Installments : Zero[i] = 0
<1> QED BY ConstantsAssumption DEF ConstantsAssumption, Installments, Fees, Requests,
           NoRequest, Zero

\* What a spread-out payment is: within what is due, from the start on.
LEMMA AllocationFacts ==
  ASSUME NEW due, NEW start \in Installments, NEW paid \in Nat,
         NEW a \in Allocations(due, start, paid)
  PROVE  /\ a \in [Installments -> Nat]
         /\ \A i \in Installments : a[i] <= due[i] /\ (i < start => a[i] = 0)
<1> QED BY BasicFacts DEF Allocations

LEMMA SplitFacts ==
  ASSUME NEW net \in Nets, NEW a \in Splits(net)
  PROVE  a \in [Installments -> Nat]
<1>1. net \in Nat
  BY ConstantsAssumption DEF ConstantsAssumption
<1>2. CASE a \in ManualSplits(net)
  BY <1>1, <1>2 DEF ManualSplits
<1>3. CASE a \in EqualSplits(net)
  <2>1. PICK k \in 0 .. net : a = [i \in Installments |-> k]
    BY <1>3 DEF EqualSplits
  <2> QED BY <1>1, <2>1
<1> QED BY <1>2, <1>3 DEF Splits

LEMMA OpeningFacts ==
  ASSUME NEW a \in [Installments -> Nat], NEW paid \in Nat, NEW p \in Openings(a, paid)
  PROVE  /\ p \in [Installments -> Nat]
         /\ \A i \in Installments : p[i] <= a[i]
<1>1. CASE paid = 0
  BY <1>1, BasicFacts DEF Openings
<1>2. CASE paid # 0
  <2>1. PICK s \in FirstDue(a) : p \in Allocations(a, s, paid)
    BY <1>2 DEF Openings
  <2>2. s \in Installments
    BY DEF FirstDue
  <2> QED BY <2>1, <2>2, AllocationFacts
<1> QED BY <1>1, <1>2

\* A commit or rollback takes the locks of its request away and no other.
LEMMA CloseFacts ==
  ASSUME TypeOK, NEW r \in Requests, NEW verdict \in {"accepted", "rejected"}, Close(r, verdict)
  PROVE  /\ req' \in [Requests -> Request]
         /\ req'[r].pc = verdict
         /\ \A q \in Requests : q # r => req'[q] = req[q]
         /\ holder' \in [Fees -> [Installments -> Requests \cup {NoRequest}]]
         /\ \A f \in Fees, i \in Installments :
              holder'[f][i] # r /\ (holder'[f][i] \in Requests => holder'[f][i] = holder[f][i])
         /\ edits' = edits
<1> USE BasicFacts
<1>1. req' \in [Requests -> Request] /\ req'[r].pc = verdict
  <2> DEFINE closed == [req[r] EXCEPT !.pc = verdict, !.seen = Zero]
  <2>1. closed \in Request /\ closed.pc = verdict
    BY DEF TypeOK, Request
  <2>2. req' = [req EXCEPT ![r] = closed]
    BY DEF Close, TypeOK
  <2> HIDE DEF closed
  <2> QED BY <2>1, <2>2 DEF TypeOK
<1>2. \A q \in Requests : q # r => req'[q] = req[q]
  BY DEF Close, TypeOK
<1>3. holder' \in [Fees -> [Installments -> Requests \cup {NoRequest}]]
  BY DEF Close, TypeOK
<1>4. \A f \in Fees, i \in Installments :
        holder'[f][i] # r /\ (holder'[f][i] \in Requests => holder'[f][i] = holder[f][i])
  BY DEF Close, TypeOK
<1> QED BY <1>1, <1>2, <1>3, <1>4 DEF Close
\* Booking a payment adds it to the rows it touches.
LEMMA RecordFacts ==
  ASSUME TypeOK, NEW f \in Fees, NEW before \in [Installments -> Nat],
         NEW a \in [Installments -> Nat],
         \A i \in Installments : a[i] > 0 => before[i] = received[f][i],
         Record(f, before, a)
  PROVE  /\ received' \in Ledgers /\ revenue' \in Ledgers /\ collected' \in Ledgers
         /\ \A g \in Fees \ {f} : /\ received'[g] = received[g] /\ revenue'[g] = revenue[g]
                                  /\ collected'[g] = collected[g]
         /\ \A i \in Installments : /\ received'[f][i] = received[f][i] + a[i]
                                    /\ revenue'[f][i] = revenue[f][i] + a[i]
                                    /\ collected'[f][i] = collected[f][i] + a[i]
<1> DEFINE now == [i \in Installments |-> IF a[i] > 0 THEN before[i] + a[i] ELSE received[f][i]]
<1>1. received' = [received EXCEPT ![f] = now] /\ now \in [Installments -> Nat]
  BY DEF Record, TypeOK, Ledgers
<1>2. \A i \in Installments : now[i] = received[f][i] + a[i]
  BY DEF TypeOK, Ledgers
<1> HIDE DEF now
<1>3. /\ received' \in Ledgers
      /\ \A g \in Fees \ {f} : received'[g] = received[g]
      /\ \A i \in Installments : received'[f][i] = received[f][i] + a[i]
  BY <1>1, <1>2 DEF TypeOK, Ledgers
<1>4. /\ revenue' \in Ledgers
      /\ \A g \in Fees \ {f} : revenue'[g] = revenue[g]
      /\ \A i \in Installments : revenue'[f][i] = revenue[f][i] + a[i]
  BY DEF Record, TypeOK, Ledgers
<1>5. /\ collected' \in Ledgers
      /\ \A g \in Fees \ {f} : collected'[g] = collected[g]
      /\ \A i \in Installments : collected'[f][i] = collected[f][i] + a[i]
  BY DEF Record, TypeOK, Ledgers
<1> QED BY <1>3, <1>4, <1>5

\* Refunding empties the chosen rows and moves their income to the refunds.
LEMMA ReverseFacts ==
  ASSUME TypeOK, NEW f \in Fees, NEW S \in SUBSET Installments, Reverse(f, S)
  PROVE  /\ received' \in Ledgers /\ revenue' \in Ledgers /\ refunded' \in Ledgers
         /\ \A g \in Fees \ {f} : /\ received'[g] = received[g] /\ revenue'[g] = revenue[g]
                                  /\ refunded'[g] = refunded[g]
         /\ \A i \in Installments \ S : /\ received'[f][i] = received[f][i]
                                        /\ revenue'[f][i] = revenue[f][i]
                                        /\ refunded'[f][i] = refunded[f][i]
         /\ \A i \in S : /\ received'[f][i] = 0 /\ revenue'[f][i] = 0
                         /\ refunded'[f][i] = refunded[f][i] + revenue[f][i]
<1> DEFINE returned == [i \in Installments |->
                          refunded[f][i] + (IF i \in S THEN revenue[f][i] ELSE 0)]
<1>1. refunded' = [refunded EXCEPT ![f] = returned] /\ returned \in [Installments -> Nat]
  BY DEF Reverse, TypeOK, Ledgers
<1>2. /\ \A i \in S : returned[i] = refunded[f][i] + revenue[f][i]
      /\ \A i \in Installments \ S : returned[i] = refunded[f][i]
  BY DEF TypeOK, Ledgers
<1> HIDE DEF returned
<1>3. /\ refunded' \in Ledgers
      /\ \A g \in Fees \ {f} : refunded'[g] = refunded[g]
      /\ \A i \in Installments \ S : refunded'[f][i] = refunded[f][i]
      /\ \A i \in S : refunded'[f][i] = refunded[f][i] + revenue[f][i]
  BY <1>1, <1>2 DEF TypeOK, Ledgers
<1>4. /\ received' \in Ledgers
      /\ \A g \in Fees \ {f} : received'[g] = received[g]
      /\ \A i \in Installments \ S : received'[f][i] = received[f][i]
      /\ \A i \in S : received'[f][i] = 0
  BY DEF Reverse, TypeOK, Ledgers
<1>5. /\ revenue' \in Ledgers
      /\ \A g \in Fees \ {f} : revenue'[g] = revenue[g]
      /\ \A i \in Installments \ S : revenue'[f][i] = revenue[f][i]
      /\ \A i \in S : revenue'[f][i] = 0
  BY DEF Reverse, TypeOK, Ledgers
<1> QED BY <1>3, <1>4, <1>5
-----------------------------------------------------------------------------
THEOREM InitInv == Init => IInv
<1> USE BasicFacts
<1> SUFFICES ASSUME Init PROVE IInv
  OBVIOUS
<1>1. amount \in Ledgers /\ \A f \in Fees, i \in Installments : amount[f][i] >= 0
  <2>0. PICK net \in Nets : \E a \in Splits(net) :
          amount = [f \in Fees |-> IF f = 1 THEN a ELSE Zero]
    BY DEF Init
  <2>1. PICK a \in Splits(net) : amount = [f \in Fees |-> IF f = 1 THEN a ELSE Zero]
    BY <2>0
  <2>2. a \in [Installments -> Nat]
    BY SplitFacts
  <2>3. amount \in Ledgers
    BY <2>1, <2>2 DEF Ledgers
  <2> QED BY <2>3 DEF Ledgers
<1>2. TypeOK
  <2>1. edits \in 0 .. MaxEdits
    BY ConstantsAssumption DEF ConstantsAssumption, Init
  <2>2. req \in [Requests -> Request]
    BY DEF Init, Request, Operations
  <2> QED BY <1>1, <2>1, <2>2 DEF Init, TypeOK, Ledgers
<1>3. LocksAreGood /\ FeesExist
  BY DEF Init, LocksAreGood, FeesExist
<1>4. FreshIsEmpty /\ IncomeIsReceived /\ Agreement /\ Conserved
  BY DEF Init, FreshIsEmpty, IncomeIsReceived, Agreement, Conserved
<1>5. WithinAmount
  BY <1>1 DEF Init, WithinAmount
<1> QED BY <1>2, <1>3, <1>4, <1>5 DEF IInv

\* Rows that nobody rewrites keep the locks good when a request has closed.
LEMMA ClosedLocks ==
  ASSUME IInv, NEW r \in Requests, NEW verdict \in {"accepted", "rejected"}, Close(r, verdict),
         \A f \in Fees, i \in Installments :
           holder[f][i] \in Requests \ {r} => received'[f][i] = received[f][i]
  PROVE  LocksAreGood'
<1> SUFFICES ASSUME NEW q \in Requests, NEW f \in Fees, NEW i \in Installments,
                    holder'[f][i] = q
             PROVE  /\ req'[q].pc = "open" /\ req'[q].fee = f /\ i \in Rows(q)'
                    /\ req'[q].seen[i] = received'[f][i]
  BY DEF LocksAreGood
<1>1. TypeOK
  BY DEF IInv
<1>2. q # r /\ holder[f][i] = q /\ req'[q] = req[q]
  BY <1>1, CloseFacts
<1>3. Rows(q)' = Rows(q)
  BY <1>2 DEF Rows
<1> QED BY <1>2, <1>3 DEF IInv, LocksAreGood

\* What a lock says of the request that holds it.
LEMMA HeldFacts ==
  ASSUME IInv, NEW q \in Requests, NEW f \in Fees, NEW i \in Installments, holder[f][i] = q
  PROVE  /\ req[q].pc = "open" /\ req[q].fee = f /\ i \in Rows(q)
         /\ req[q].seen[i] = received[f][i]
<1>1. LocksAreGood
  BY DEF IInv
<1>2. holder[f][i] = q =>
        /\ req[q].pc = "open" /\ req[q].fee = f /\ i \in Rows(q)
        /\ req[q].seen[i] = received[f][i]
  BY <1>1, SMT DEF LocksAreGood
<1> QED BY <1>2

\* A payment into the rows a request holds leaves what others hold as it is.
LEMMA OthersUntouched ==
  ASSUME TypeOK, NEW r \in Requests, NEW f \in Fees, NEW a \in [Installments -> Nat],
         \A i \in Installments : a[i] > 0 => holder[f][i] = r,
         \A g \in Fees \ {f} : received'[g] = received[g],
         \A i \in Installments : received'[f][i] = received[f][i] + a[i]
  PROVE  \A g \in Fees, i \in Installments :
           holder[g][i] \in Requests \ {r} => received'[g][i] = received[g][i]
<1> SUFFICES ASSUME NEW i \in Installments, holder[f][i] # r
             PROVE  received'[f][i] = received[f][i]
  OBVIOUS
<1>1. a[i] \in Nat /\ received[f][i] \in Nat
  BY DEF TypeOK, Ledgers
<1>2. ~ (a[i] > 0)
  OBVIOUS
<1>3. a[i] = 0
  BY <1>1, <1>2
<1> QED BY <1>1, <1>3

LEMMA OpenStep ==
  ASSUME IInv, NEW r \in Requests, NEW op \in Operations, NEW f \in Fees,
         NEW i \in Installments, NEW paid \in Nat, op = "create" \/ fee[f] # "none",
         Open(r, op, f, i, paid), UNCHANGED <<ledger, holder, edits>>
  PROVE  IInv'
<1> USE DEF ledger
<1> DEFINE opened == [req[r] EXCEPT !.pc = "open", !.op = op, !.fee = f, !.inst = i, !.paid = paid]
<1>1. req[r].pc = "new" /\ req' = [req EXCEPT ![r] = opened] /\ opened \in Request
  BY DEF Open, IInv, TypeOK, Request
<1>2. opened.pc = "open" /\ opened.op = op /\ opened.fee = f
  BY <1>1 DEF IInv, TypeOK, Request
<1> HIDE DEF opened
<1>3. \A q \in Requests : q # r => req'[q] = req[q]
  BY <1>1 DEF IInv, TypeOK
<1>4. TypeOK'
  BY <1>1 DEF IInv, TypeOK
<1>5. LocksAreGood'
  <2> SUFFICES ASSUME NEW q \in Requests, NEW g \in Fees, NEW j \in Installments,
                      holder'[g][j] = q
               PROVE  /\ req'[q].pc = "open" /\ req'[q].fee = g /\ j \in Rows(q)'
                      /\ req'[q].seen[j] = received'[g][j]
    BY Zenon DEF LocksAreGood
  <2>0. holder[g][j] = q /\ received'[g][j] = received[g][j]
    OBVIOUS
  <2>1. /\ req[q].pc = "open" /\ req[q].fee = g /\ j \in Rows(q)
        /\ req[q].seen[j] = received[g][j]
    BY <2>0, HeldFacts
  <2>2. q # r
    BY <1>1, <2>1
  <2>3. req'[q] = req[q] /\ Rows(q)' = Rows(q)
    BY <1>3, <2>2 DEF Rows
  <2> QED BY <2>0, <2>1, <2>3
<1>6. FeesExist'
  BY <1>1, <1>2, <1>3 DEF IInv, FeesExist, TypeOK
<1>7. FreshIsEmpty' /\ IncomeIsReceived' /\ WithinAmount' /\ Agreement' /\ Conserved'
  BY DEF IInv, FreshIsEmpty, IncomeIsReceived, WithinAmount, Agreement, Conserved
<1> QED BY <1>4, <1>5, <1>6, <1>7 DEF IInv

LEMMA RejectStep ==
  ASSUME IInv, NEW r \in Requests, Reject(r)
  PROVE  IInv'
<1> USE BasicFacts DEF ledger
<1>1. TypeOK /\ Close(r, "rejected") /\ UNCHANGED ledger
  BY DEF IInv, Reject
<1>2. TypeOK'
  BY <1>1, CloseFacts DEF TypeOK
<1>3. LocksAreGood'
  BY <1>1, ClosedLocks
<1>4. FeesExist'
  <2> SUFFICES ASSUME NEW q \in Requests, req'[q].pc = "open", req'[q].op # "create"
               PROVE  fee[req'[q].fee] # "none"
    BY <1>1 DEF FeesExist
  <2>1. q # r /\ req'[q] = req[q]
    BY <1>1, CloseFacts
  <2> QED BY <2>1 DEF IInv, FeesExist
<1>5. FreshIsEmpty' /\ IncomeIsReceived' /\ WithinAmount' /\ Agreement' /\ Conserved'
  BY <1>1, CloseFacts DEF IInv, FreshIsEmpty, IncomeIsReceived, WithinAmount, Agreement, Conserved
<1> QED BY <1>2, <1>3, <1>4, <1>5 DEF IInv

LEMMA LockStep ==
  ASSUME IInv, NEW r \in Requests, NEW i \in Installments, Lock(r, i)
  PROVE  IInv'
<1> USE BasicFacts DEF ledger
<1> DEFINE f == req[r].fee
           known == [req[r] EXCEPT !.seen = [@ EXCEPT ![i] = received[f][i]]]
<1>0. f \in Fees /\ TypeOK /\ LocksAreGood
  BY DEF IInv, TypeOK, Request
<1>1. req' = [req EXCEPT ![r] = known] /\ known \in Request
  <2>1. req[r] \in Request
    BY <1>0 DEF TypeOK
  <2>1a. \A g \in Fees : received[g][i] \in Nat
    BY <1>0 DEF TypeOK, Ledgers
  <2>2. known \in Request
    BY <1>0, <2>1, <2>1a DEF Request
  <2>3. req' = [req EXCEPT ![r].seen[i] = received[f][i]]
    BY DEF Lock
  <2> QED BY <2>2, <2>3
<1>2. /\ known.pc = "open" /\ known.op = req[r].op /\ known.fee = f /\ known.inst = req[r].inst
      /\ known.seen[i] = received[f][i]
      /\ \A j \in Installments \ {i} : known.seen[j] = req[r].seen[j]
  BY DEF Lock, IInv, TypeOK, Request
<1>3. /\ holder[f][i] = NoRequest /\ i \in Rows(r)
      /\ holder' = [holder EXCEPT ![f][i] = r] /\ UNCHANGED <<ledger, edits>>
  BY DEF Lock
<1> HIDE DEF known, f
<1>4. TypeOK'
  BY <1>0, <1>1, <1>3 DEF IInv, TypeOK
<1>5. LocksAreGood'
  <2> SUFFICES ASSUME NEW q \in Requests, NEW g \in Fees, NEW j \in Installments,
                      holder'[g][j] = q
               PROVE  /\ req'[q].pc = "open" /\ req'[q].fee = g /\ j \in Rows(q)'
                      /\ req'[q].seen[j] = received[g][j]
    BY <1>3 DEF LocksAreGood
  <2>1. \A p \in Requests : Rows(p)' = Rows(p)
    BY <1>1, <1>2 DEF Rows, TypeOK, IInv
  <2>2. CASE g = f /\ j = i
    BY <1>0, <1>1, <1>2, <1>3, <2>1, <2>2 DEF TypeOK
  <2>3. CASE ~ (g = f /\ j = i)
    <3>1. holder[g][j] = q
      BY <1>0, <1>3, <2>3 DEF TypeOK
    <3>2. req[q].pc = "open" /\ req[q].fee = g /\ j \in Rows(q) /\ req[q].seen[j] = received[g][j]
      BY <1>0, <3>1 DEF LocksAreGood
    <3>3. CASE q = r
      BY <1>0, <1>1, <1>2, <2>1, <2>3, <3>2, <3>3 DEF TypeOK, f
    <3>4. CASE q # r
      BY <1>0, <1>1, <2>1, <3>2, <3>4 DEF TypeOK
    <3> QED BY <3>3, <3>4
  <2> QED BY <2>2, <2>3
<1>6. FeesExist'
  BY <1>0, <1>1, <1>2, <1>3 DEF IInv, FeesExist, TypeOK, f, Lock
<1>7. FreshIsEmpty' /\ IncomeIsReceived' /\ WithinAmount' /\ Agreement' /\ Conserved'
  BY <1>3 DEF IInv, FreshIsEmpty, IncomeIsReceived, WithinAmount, Agreement, Conserved
<1> QED BY <1>4, <1>5, <1>6, <1>7 DEF IInv
-----------------------------------------------------------------------------
\* A booked payment that stays within the amounts keeps the ledger in order.
LEMMA BookingStep ==
  ASSUME IInv, NEW f \in Fees, NEW before \in [Installments -> Nat],
         NEW a \in [Installments -> Nat], Record(f, before, a),
         \A i \in Installments : a[i] > 0 => before[i] = received[f][i],
         \A i \in Installments : received[f][i] + a[i] <= amount'[f][i],
         \A g \in Fees \ {f} : amount'[g] = amount[g],
         fee' \in [Fees -> {"none", "active", "cancelled"}], fee'[f] # "none",
         \A g \in Fees \ {f} : fee'[g] = fee[g],
         amount' \in Ledgers, UNCHANGED <<refunded, edits>>
  PROVE  /\ FreshIsEmpty' /\ IncomeIsReceived' /\ WithinAmount' /\ Agreement' /\ Conserved'
         /\ received' \in Ledgers /\ revenue' \in Ledgers /\ collected' \in Ledgers
<1>1. TypeOK
  BY DEF IInv
<1>2. /\ received' \in Ledgers /\ revenue' \in Ledgers /\ collected' \in Ledgers
      /\ \A g \in Fees \ {f} : /\ received'[g] = received[g] /\ revenue'[g] = revenue[g]
                               /\ collected'[g] = collected[g]
      /\ \A i \in Installments : /\ received'[f][i] = received[f][i] + a[i]
                                 /\ revenue'[f][i] = revenue[f][i] + a[i]
                                 /\ collected'[f][i] = collected[f][i] + a[i]
  BY <1>1, RecordFacts
<1>3. \A g \in Fees, i \in Installments :
        /\ received[g][i] \in Nat /\ revenue[g][i] \in Nat
        /\ collected[g][i] \in Nat /\ refunded[g][i] \in Nat
  BY <1>1 DEF TypeOK, Ledgers
<1>4. FreshIsEmpty'
  BY <1>2 DEF IInv, FreshIsEmpty
<1>5. IncomeIsReceived'
  <2> SUFFICES ASSUME NEW g \in Fees, NEW i \in Installments, revenue'[g][i] > 0
               PROVE  received'[g][i] > 0
    BY DEF IncomeIsReceived
  <2>1. revenue[g][i] > 0 => received[g][i] > 0
    BY DEF IInv, IncomeIsReceived
  <2>2. a[i] \in Nat
    OBVIOUS
  <2> QED BY <1>2, <1>3, <2>1, <2>2
<1>6. WithinAmount'
  <2> SUFFICES ASSUME NEW g \in Fees, NEW i \in Installments
               PROVE  received'[g][i] <= amount'[g][i]
    BY DEF WithinAmount
  <2> QED BY <1>2 DEF IInv, WithinAmount
<1>7. Agreement'
  BY <1>2 DEF IInv, Agreement
<1>8. Conserved'
  <2> SUFFICES ASSUME NEW g \in Fees, NEW i \in Installments
               PROVE  received'[g][i] = collected'[g][i] - refunded[g][i]
    BY DEF Conserved
  <2>1. received[g][i] = collected[g][i] - refunded[g][i]
    BY DEF IInv, Conserved
  <2>2. a[i] \in Nat
    OBVIOUS
  <2> QED BY <1>2, <1>3, <2>1, <2>2
<1> QED BY <1>2, <1>4, <1>5, <1>6, <1>7, <1>8

LEMMA PayStep ==
  ASSUME IInv, NEW r \in Requests, CommitPay(r)
  PROVE  IInv'
<1> USE BasicFacts DEF ledger
<1> DEFINE f == req[r].fee
           due == Due(r)
<1>1. /\ TypeOK /\ req[r].pc = "open" /\ req[r].op = "pay" /\ f \in Fees
      /\ req[r].inst \in Installments /\ req[r].paid \in Nat
      /\ req[r].seen \in [Installments -> Nat] /\ HasItsRows(r) /\ f = req[r].fee
      /\ \A i \in Installments : due[i] = amount[f][i] - req[r].seen[i]
  BY DEF IInv, TypeOK, Request, CommitPay, Is, Due
<1> HIDE DEF f, due
<1>2. CASE Reject(r)
  BY <1>2, RejectStep
<1>3. CASE ~ Reject(r)
  <2>1. PICK a \in Allocations(due, req[r].inst, req[r].paid) : Record(f, req[r].seen, a)
    BY <1>3 DEF CommitPay, f, due
  <2>2. Close(r, "accepted") /\ UNCHANGED <<fee, amount, refunded>>
    BY <1>3 DEF CommitPay
  <2>3. /\ a \in [Installments -> Nat]
        /\ \A i \in Installments : a[i] <= due[i] /\ (i < req[r].inst => a[i] = 0)
    <3>1. a \in [Installments -> 0 .. req[r].paid]
      BY DEF Allocations
    <3>2. \A i \in Installments : a[i] <= due[i] /\ (i < req[r].inst => a[i] = 0)
      BY DEF Allocations
    <3> QED BY <1>1, <3>1, <3>2
  <2>4. \A i \in Installments : a[i] > 0 => holder[f][i] = r
    <3> SUFFICES ASSUME NEW i \in Installments, a[i] > 0 PROVE holder[f][i] = r
      OBVIOUS
    <3>1. i >= req[r].inst
      <4>1. a[i] # 0
        BY <2>3
      <4>2. req[r].inst \in Nat /\ i \in Nat
        BY <1>1
      <4> QED BY <2>3, <4>1, <4>2
    <3> QED BY <1>1, <3>1 DEF HasItsRows, Rows, Holds
  <2>5. \A i \in Installments : a[i] > 0 => req[r].seen[i] = received[f][i]
    BY <1>1, <2>4 DEF IInv, LocksAreGood
  <2>6. \A i \in Installments : received[f][i] + a[i] <= amount[f][i]
    <3> SUFFICES ASSUME NEW i \in Installments PROVE received[f][i] + a[i] <= amount[f][i]
      OBVIOUS
    <3>1. received[f][i] \in Nat /\ amount[f][i] \in Nat /\ a[i] \in Nat
      BY <1>1, <2>3 DEF TypeOK, Ledgers
    <3>2. received[f][i] <= amount[f][i]
      BY <1>1 DEF IInv, WithinAmount
    <3>3. a[i] <= amount[f][i] - req[r].seen[i]
      BY <1>1, <2>3
    <3>4. a[i] = 0 \/ a[i] > 0
      BY <3>1
    <3>5. a[i] > 0 => req[r].seen[i] = received[f][i]
      BY <2>5
    <3> QED BY <3>1, <3>2, <3>3, <3>4, <3>5
  <2>7. fee[f] # "none" /\ edits' = edits
    BY <1>1, <2>2, CloseFacts DEF IInv, FeesExist
  <2>8. /\ FreshIsEmpty' /\ IncomeIsReceived' /\ WithinAmount' /\ Agreement' /\ Conserved'
        /\ received' \in Ledgers /\ revenue' \in Ledgers /\ collected' \in Ledgers
    BY <1>1, <2>1, <2>2, <2>3, <2>5, <2>6, <2>7, BookingStep DEF TypeOK
  <2>9. TypeOK'
    BY <1>1, <2>2, <2>8, CloseFacts DEF TypeOK
  <2>10. LocksAreGood'
    <3>1. \A g \in Fees, i \in Installments :
            holder[g][i] \in Requests \ {r} => received'[g][i] = received[g][i]
      <4>1. /\ \A g \in Fees \ {f} : received'[g] = received[g]
            /\ \A i \in Installments : received'[f][i] = received[f][i] + a[i]
        BY <1>1, <2>1, <2>3, <2>5, RecordFacts
      <4> QED BY <1>1, <2>3, <2>4, <4>1, OthersUntouched
    <3> QED BY <2>2, <3>1, ClosedLocks
  <2>11. FeesExist'
    <3> SUFFICES ASSUME NEW q \in Requests, req'[q].pc = "open", req'[q].op # "create"
                 PROVE  fee[req'[q].fee] # "none"
      BY <2>2 DEF FeesExist
    <3>1. q # r /\ req'[q] = req[q]
      BY <1>1, <2>2, CloseFacts
    <3> QED BY <3>1 DEF IInv, FeesExist
  <2> QED BY <2>8, <2>9, <2>10, <2>11 DEF IInv
<1> QED BY <1>2, <1>3

LEMMA CreateStep ==
  ASSUME IInv, NEW r \in Requests, CommitCreate(r)
  PROVE  IInv'
<1> USE BasicFacts DEF ledger
<1>1. /\ TypeOK /\ req[r].pc = "open" /\ req[r].op = "create" /\ req[r].paid \in Nat
  BY DEF IInv, TypeOK, Request, CommitCreate, Is
<1>2. CASE Reject(r)
  BY <1>2, RejectStep
<1>3. CASE ~ Reject(r)
  <2>1. PICK f \in Fees : \E net \in Nets : fee[f] = "none" /\ \E a \in Splits(net) :
          /\ \E p \in Openings(a, req[r].paid) : Record(f, Zero, p)
          /\ fee' = [fee EXCEPT ![f] = "active"]
          /\ amount' = [amount EXCEPT ![f] = a]
          /\ Close(r, "accepted") /\ UNCHANGED refunded
    BY <1>3 DEF CommitCreate
  <2>2. PICK net \in Nets : fee[f] = "none" /\ \E a \in Splits(net) :
          /\ \E p \in Openings(a, req[r].paid) : Record(f, Zero, p)
          /\ fee' = [fee EXCEPT ![f] = "active"]
          /\ amount' = [amount EXCEPT ![f] = a]
          /\ Close(r, "accepted") /\ UNCHANGED refunded
    BY <2>1
  <2>3. PICK a \in Splits(net) :
          /\ \E p \in Openings(a, req[r].paid) : Record(f, Zero, p)
          /\ fee' = [fee EXCEPT ![f] = "active"]
          /\ amount' = [amount EXCEPT ![f] = a]
          /\ Close(r, "accepted") /\ UNCHANGED refunded
    BY <2>2
  <2>4. PICK p \in Openings(a, req[r].paid) : Record(f, Zero, p)
    BY <2>3
  <2>5. a \in [Installments -> Nat]
    BY SplitFacts
  <2>6. p \in [Installments -> Nat] /\ \A i \in Installments : p[i] <= a[i]
    BY <1>1, <2>5, OpeningFacts
  <2>7. received[f] = Zero /\ fee[f] = "none"
    BY <2>2 DEF IInv, FreshIsEmpty
  <2>8. edits' = edits
    BY <1>1, <2>3, CloseFacts
  <2>9. /\ FreshIsEmpty' /\ IncomeIsReceived' /\ WithinAmount' /\ Agreement' /\ Conserved'
        /\ received' \in Ledgers /\ revenue' \in Ledgers /\ collected' \in Ledgers
        /\ fee' \in [Fees -> {"none", "active", "cancelled"}] /\ amount' \in Ledgers
    <3>1. /\ fee' \in [Fees -> {"none", "active", "cancelled"}] /\ fee'[f] # "none"
          /\ \A g \in Fees \ {f} : fee'[g] = fee[g]
      BY <1>1, <2>3 DEF TypeOK
    <3>2. /\ amount' \in Ledgers /\ amount'[f] = a
          /\ \A g \in Fees \ {f} : amount'[g] = amount[g]
      BY <1>1, <2>3, <2>5 DEF TypeOK, Ledgers
    <3>3. \A i \in Installments : Zero[i] = received[f][i] /\ received[f][i] + p[i] <= amount'[f][i]
      <4> TAKE i \in Installments
      <4>1. received[f][i] = 0 /\ Zero[i] = 0 /\ p[i] \in Nat /\ a[i] \in Nat /\ p[i] <= a[i]
        BY <2>5, <2>6, <2>7
      <4> QED BY <3>2, <4>1
    <3>4. \A i \in Installments : p[i] > 0 => Zero[i] = received[f][i]
      BY <3>3
    <3>5. \A i \in Installments : received[f][i] + p[i] <= amount'[f][i]
      BY <3>3
    <3>6. UNCHANGED <<refunded, edits>>
      BY <2>3, <2>8
    <3>7. /\ FreshIsEmpty' /\ IncomeIsReceived' /\ WithinAmount' /\ Agreement' /\ Conserved'
          /\ received' \in Ledgers /\ revenue' \in Ledgers /\ collected' \in Ledgers
      BY ONLY IInv, BasicFacts, <2>4, <2>6, <3>1, <3>2, <3>4, <3>5, <3>6, BookingStep
    <3> QED BY <3>1, <3>2, <3>7
  <2>10. TypeOK'
    BY <1>1, <2>3, <2>9, CloseFacts DEF TypeOK
  <2>11. LocksAreGood'
    <3>1. \A g \in Fees, i \in Installments :
            holder[g][i] \in Requests \ {r} => received'[g][i] = received[g][i]
      <4> SUFFICES ASSUME NEW g \in Fees, NEW i \in Installments, NEW q \in Requests,
                          holder[g][i] = q
                   PROVE  received'[g][i] = received[g][i]
        OBVIOUS
      <4>1. i \in Rows(q) /\ req[q].fee = g /\ req[q].pc = "open"
        BY DEF IInv, LocksAreGood
      <4>2. req[q].op # "create"
        BY <4>1 DEF Rows
      <4>3. g # f
        BY <2>7, <4>1, <4>2 DEF IInv, FeesExist
      <4>4. \A j \in Installments : p[j] > 0 => Zero[j] = received[f][j]
        BY <2>7
      <4>5. \A h \in Fees \ {f} : received'[h] = received[h]
        BY <1>1, <2>4, <2>6, <4>4, RecordFacts
      <4> QED BY <4>3, <4>5
    <3> QED BY <2>3, <3>1, ClosedLocks
  <2>12. FeesExist'
    <3> SUFFICES ASSUME NEW q \in Requests, req'[q].pc = "open", req'[q].op # "create"
                 PROVE  fee'[req'[q].fee] # "none"
      BY DEF FeesExist
    <3>1. q # r /\ req'[q] = req[q]
      BY <1>1, <2>3, CloseFacts
    <3>2. fee[req[q].fee] # "none"
      BY <3>1 DEF IInv, FeesExist
    <3> QED BY <1>1, <2>3, <3>1, <3>2 DEF TypeOK, Request
  <2> QED BY <2>9, <2>10, <2>11, <2>12 DEF IInv
<1> QED BY <1>2, <1>3

\* Reversing rows whose income is what they received, or that received nothing.
LEMMA ReversalStep ==
  ASSUME IInv, NEW r \in Requests, NEW f \in Fees, NEW S \in SUBSET Installments,
         Reverse(f, S), Close(r, "accepted"), UNCHANGED <<amount, collected>>,
         \A i \in S : holder[f][i] = r /\ revenue[f][i] = received[f][i],
         fee[f] # "none", fee' \in [Fees -> {"none", "active", "cancelled"}],
         fee'[f] # "none", \A g \in Fees \ {f} : fee'[g] = fee[g]
  PROVE  IInv'
<1> USE BasicFacts
<1>1. TypeOK
  BY DEF IInv
<1>2. /\ received' \in Ledgers /\ revenue' \in Ledgers /\ refunded' \in Ledgers
      /\ \A g \in Fees \ {f} : /\ received'[g] = received[g] /\ revenue'[g] = revenue[g]
                               /\ refunded'[g] = refunded[g]
      /\ \A i \in Installments \ S : /\ received'[f][i] = received[f][i]
                                     /\ revenue'[f][i] = revenue[f][i]
                                     /\ refunded'[f][i] = refunded[f][i]
      /\ \A i \in S : /\ received'[f][i] = 0 /\ revenue'[f][i] = 0
                      /\ refunded'[f][i] = refunded[f][i] + received[f][i]
  BY <1>1, ReverseFacts
<1>3. /\ req' \in [Requests -> Request] /\ \A q \in Requests : q # r => req'[q] = req[q]
      /\ req'[r].pc = "accepted" /\ edits' = edits
      /\ holder' \in [Fees -> [Installments -> Requests \cup {NoRequest}]]
  BY <1>1, CloseFacts
<1>4. \A g \in Fees, i \in Installments :
        /\ received[g][i] \in Nat /\ revenue[g][i] \in Nat /\ amount[g][i] \in Nat
        /\ collected[g][i] \in Nat /\ refunded[g][i] \in Nat
  BY <1>1 DEF TypeOK, Ledgers
<1>5. TypeOK'
  BY <1>1, <1>2, <1>3 DEF TypeOK
<1>6. LocksAreGood'
  <2>1. \A g \in Fees, i \in Installments :
          holder[g][i] \in Requests \ {r} => received'[g][i] = received[g][i]
    BY <1>2
  <2> QED BY <2>1, ClosedLocks
<1>7. FeesExist'
  <2> SUFFICES ASSUME NEW q \in Requests, req'[q].pc = "open", req'[q].op # "create"
               PROVE  fee'[req'[q].fee] # "none"
    BY DEF FeesExist
  <2>1. q # r /\ req'[q] = req[q]
    BY <1>3
  <2>2. fee[req[q].fee] # "none" /\ req[q].fee \in Fees
    BY <1>1, <2>1 DEF IInv, FeesExist, TypeOK, Request
  <2> QED BY <2>1, <2>2
<1>8. FreshIsEmpty'
  BY <1>2 DEF IInv, FreshIsEmpty
<1>9. IncomeIsReceived' /\ Agreement' /\ WithinAmount' /\ Conserved'
  <2> SUFFICES ASSUME NEW g \in Fees, NEW i \in Installments
               PROVE  /\ revenue'[g][i] > 0 => received'[g][i] > 0
                      /\ edits = 0 => revenue'[g][i] = received'[g][i]
                      /\ received'[g][i] <= amount[g][i]
                      /\ received'[g][i] = collected[g][i] - refunded'[g][i]
    BY <1>3 DEF IncomeIsReceived, Agreement, WithinAmount, Conserved
  <2>1. /\ revenue[g][i] > 0 => received[g][i] > 0
        /\ edits = 0 => revenue[g][i] = received[g][i]
        /\ received[g][i] <= amount[g][i]
        /\ received[g][i] = collected[g][i] - refunded[g][i]
    BY DEF IInv, IncomeIsReceived, Agreement, WithinAmount, Conserved
  <2>2. CASE g = f /\ i \in S
    <3>1. /\ revenue'[g][i] = 0 /\ received'[g][i] = 0
          /\ refunded'[g][i] = refunded[g][i] + received[g][i]
      BY <1>2, <2>2
    <3> QED BY <1>4, <2>1, <3>1
  <2>3. CASE ~ (g = f /\ i \in S)
    <3>1. /\ revenue'[g][i] = revenue[g][i] /\ received'[g][i] = received[g][i]
          /\ refunded'[g][i] = refunded[g][i]
      BY <1>2, <2>3
    <3> QED BY <2>1, <3>1
  <2> QED BY <2>2, <2>3
<1> QED BY <1>5, <1>6, <1>7, <1>8, <1>9 DEF IInv

\* The facts about an open request that holds its rows.
LEMMA HeldRows ==
  ASSUME IInv, NEW r \in Requests, req[r].pc = "open", HasItsRows(r),
         req[r].op \in {"pay", "refund", "cancel"}
  PROVE  /\ req[r].fee \in Fees /\ fee[req[r].fee] # "none" /\ req[r].inst \in Installments
         /\ \A i \in Rows(r) : /\ i \in Installments /\ holder[req[r].fee][i] = r
                               /\ req[r].seen[i] = received[req[r].fee][i]
<1>1. TypeOK /\ LocksAreGood /\ FeesExist
  BY DEF IInv
<1>2. req[r].fee \in Fees /\ req[r].inst \in Installments
  BY <1>1 DEF TypeOK, Request
<1>3. fee[req[r].fee] # "none"
  BY <1>1 DEF FeesExist
<1>4. \A i \in Rows(r) : i \in Installments /\ holder[req[r].fee][i] = r
  BY <1>2 DEF Rows, HasItsRows, Holds
<1> QED BY <1>1, <1>2, <1>3, <1>4 DEF LocksAreGood

LEMMA RefundStep ==
  ASSUME IInv, NEW r \in Requests, CommitRefund(r)
  PROVE  IInv'
<1> DEFINE f == req[r].fee
           i == req[r].inst
<1>1. CASE Reject(r)
  BY <1>1, RejectStep
<1>2. CASE ~ Reject(r)
  <2>1. /\ req[r].pc = "open" /\ req[r].op = "refund" /\ HasItsRows(r)
        /\ Refundable(f, i, req[r].seen) /\ Reverse(f, {i}) /\ Close(r, "accepted")
        /\ UNCHANGED <<fee, amount, collected>>
    BY <1>2 DEF CommitRefund, Is
  <2>2. /\ f \in Fees /\ fee[f] # "none" /\ i \in Installments /\ holder[f][i] = r
        /\ req[r].seen[i] = received[f][i]
    BY <2>1, HeldRows DEF Rows
  <2>3. revenue[f][i] = received[f][i]
    BY <2>1, <2>2 DEF Refundable
  <2>4. fee \in [Fees -> {"none", "active", "cancelled"}]
    BY DEF IInv, TypeOK
  <2> HIDE DEF f, i
  <2> QED BY <2>1, <2>2, <2>3, <2>4, ReversalStep
<1> QED BY <1>1, <1>2

\* What a cancellation reverses is on every installment what was received.
LEMMA CancelFacts ==
  ASSUME IInv, NEW r \in Requests, CommitCancel(r), ~ Reject(r)
  PROVE  /\ req[r].fee \in Fees /\ fee[req[r].fee] = "active"
         /\ \A i \in Installments : /\ holder[req[r].fee][i] = r
                                    /\ revenue[req[r].fee][i] = received[req[r].fee][i]
         /\ Reverse(req[r].fee, Installments) /\ Close(r, "accepted")
         /\ fee' = [fee EXCEPT ![req[r].fee] = "cancelled"] /\ UNCHANGED <<amount, collected>>
<1> DEFINE f == req[r].fee
<1>1. /\ req[r].pc = "open" /\ req[r].op = "cancel" /\ HasItsRows(r) /\ fee[f] = "active"
      /\ \A i \in Installments : req[r].seen[i] > 0 => Refundable(f, i, req[r].seen)
      /\ Reverse(f, Installments) /\ Close(r, "accepted")
      /\ fee' = [fee EXCEPT ![f] = "cancelled"] /\ UNCHANGED <<amount, collected>>
  BY DEF CommitCancel, Is, Cancellable
<1>2. f \in Fees /\ TypeOK
  BY <1>1, HeldRows DEF IInv
<1>3. \A i \in Rows(r) : holder[f][i] = r /\ req[r].seen[i] = received[f][i]
  BY <1>1, HeldRows
<1>4. Rows(r) = Installments
  BY <1>1 DEF Rows
<1>5. \A i \in Installments : revenue[f][i] = received[f][i]
  <2> SUFFICES ASSUME NEW i \in Installments PROVE revenue[f][i] = received[f][i]
    OBVIOUS
  <2>1. req[r].seen[i] = received[f][i] /\ received[f][i] \in Nat /\ revenue[f][i] \in Nat
    BY <1>2, <1>3, <1>4 DEF TypeOK, Ledgers
  <2>2. CASE received[f][i] > 0
    BY <1>1, <2>1, <2>2 DEF Refundable
  <2>3. CASE received[f][i] = 0
    <3>1. ~ revenue[f][i] > 0
      BY <1>2, <2>3 DEF IInv, IncomeIsReceived
    <3> QED BY <2>1, <2>3, <3>1
  <2> QED BY <2>1, <2>2, <2>3
<1> QED BY <1>1, <1>2, <1>3, <1>4, <1>5

LEMMA CancelStep ==
  ASSUME IInv, NEW r \in Requests, CommitCancel(r)
  PROVE  IInv'
<1> DEFINE f == req[r].fee
<1>1. CASE Reject(r)
  BY <1>1, RejectStep
<1>2. CASE ~ Reject(r)
  <2>1. /\ f \in Fees /\ fee[f] = "active" /\ Reverse(f, Installments) /\ Close(r, "accepted")
        /\ fee' = [fee EXCEPT ![f] = "cancelled"] /\ UNCHANGED <<amount, collected>>
        /\ \A i \in Installments : holder[f][i] = r /\ revenue[f][i] = received[f][i]
    BY <1>2, CancelFacts
  <2> HIDE DEF f
  <2>2. /\ fee' \in [Fees -> {"none", "active", "cancelled"}] /\ fee'[f] # "none"
        /\ fee[f] # "none" /\ \A g \in Fees \ {f} : fee'[g] = fee[g]
    BY <2>1 DEF IInv, TypeOK
  <2> QED BY <2>1, <2>2, ReversalStep
<1> QED BY <1>1, <1>2

LEMMA EditStep ==
  ASSUME IInv, NEW f \in Fees, NEW i \in Installments, NEW sum \in EditedRevenues,
         EditRevenue(f, i, sum)
  PROVE  IInv'
<1> USE BasicFacts
<1>1. TypeOK /\ sum \in Nat /\ edits \in Nat /\ MaxEdits \in Nat
  BY ConstantsAssumption DEF ConstantsAssumption, IInv, TypeOK
<1>2. /\ edits < MaxEdits /\ edits' = edits + 1 /\ revenue[f][i] > 0
      /\ revenue' = [revenue EXCEPT ![f][i] = sum]
      /\ UNCHANGED <<fee, amount, received, collected, refunded, holder, req>>
  BY DEF EditRevenue
<1>3. revenue' \in Ledgers
  BY <1>1, <1>2 DEF TypeOK, Ledgers
<1>4. \A g \in Fees, j \in Installments : g # f \/ j # i => revenue'[g][j] = revenue[g][j]
  BY <1>1, <1>2 DEF TypeOK, Ledgers
<1>5. TypeOK'
  BY <1>1, <1>2, <1>3 DEF TypeOK
<1>6. LocksAreGood' /\ FeesExist' /\ WithinAmount' /\ Conserved'
  <2>1. \A r \in Requests : Rows(r)' = Rows(r)
    BY <1>2 DEF Rows
  <2>2. LocksAreGood'
    BY <1>2, <2>1 DEF IInv, LocksAreGood
  <2> QED BY <1>2, <2>2 DEF IInv, FeesExist, WithinAmount, Conserved
<1>7. received[f][i] > 0
  BY <1>2 DEF IInv, IncomeIsReceived
<1>8. FreshIsEmpty'
  <2>1. fee[f] # "none"
    BY <1>7 DEF IInv, FreshIsEmpty
  <2>2. \A g \in Fees : g # f => revenue'[g] = revenue[g]
    BY <1>1, <1>2 DEF TypeOK, Ledgers
  <2> QED BY <1>2, <2>1, <2>2 DEF IInv, FreshIsEmpty
<1>9. IncomeIsReceived'
  BY <1>2, <1>4, <1>7 DEF IInv, IncomeIsReceived
<1>10. Agreement'
  BY <1>1, <1>2 DEF Agreement
<1> QED BY <1>5, <1>6, <1>8, <1>9, <1>10 DEF IInv

LEMMA StutterStep ==
  ASSUME IInv, UNCHANGED vars
  PROVE  IInv'
<1>1. \A r \in Requests : Rows(r)' = Rows(r)
  BY DEF vars, Rows
<1>2. LocksAreGood'
  BY <1>1 DEF IInv, vars, LocksAreGood
<1>3. TypeOK' /\ FeesExist' /\ FreshIsEmpty' /\ IncomeIsReceived'
  BY DEF IInv, vars, TypeOK, FeesExist, FreshIsEmpty, IncomeIsReceived
<1>4. WithinAmount' /\ Agreement' /\ Conserved'
  BY DEF IInv, vars, WithinAmount, Agreement, Conserved
<1> QED BY <1>2, <1>3, <1>4 DEF IInv

THEOREM StepInv == IInv /\ [Next]_vars => IInv'
<1> USE BasicFacts
<1> SUFFICES ASSUME IInv, [Next]_vars PROVE IInv'
  OBVIOUS
<1>1. Payments \subseteq Nat
  BY ConstantsAssumption DEF ConstantsAssumption
<1>2. ASSUME NEW r \in Requests, NEW paid \in Payments \cup {0}, OpenCreate(r, paid)
      PROVE  IInv'
  BY <1>1, <1>2, OpenStep DEF OpenCreate, Operations
<1>3. ASSUME NEW r \in Requests, NEW f \in Fees, NEW i \in Installments, NEW paid \in Payments,
             OpenPay(r, f, i, paid)
      PROVE  IInv'
  BY <1>1, <1>3, OpenStep DEF OpenPay, Operations
<1>4. ASSUME NEW r \in Requests, NEW f \in Fees, NEW i \in Installments, OpenRefund(r, f, i)
      PROVE  IInv'
  BY <1>4, OpenStep DEF OpenRefund, Operations
<1>5. ASSUME NEW r \in Requests, NEW f \in Fees, OpenCancel(r, f)
      PROVE  IInv'
  BY <1>5, OpenStep DEF OpenCancel, Operations
<1>6. ASSUME NEW r \in Requests, LockRow(r) PROVE IInv'
  BY <1>6, LockStep DEF LockRow
<1>7. ASSUME NEW r \in Requests, Commit(r) PROVE IInv'
  BY <1>7, CreateStep, PayStep, RefundStep, CancelStep DEF Commit
<1>8. ASSUME NEW r \in Requests, Fail(r) PROVE IInv'
  BY <1>8, RejectStep DEF Fail
<1>9. CASE BreakDeadlock
  BY <1>9, RejectStep DEF BreakDeadlock
<1>10. ASSUME NEW f \in Fees, NEW i \in Installments, NEW sum \in EditedRevenues,
              EditRevenue(f, i, sum)
       PROVE  IInv'
  BY <1>10, EditStep
<1>11. CASE UNCHANGED vars
  BY <1>11, StutterStep
<1> QED BY <1>2, <1>3, <1>4, <1>5, <1>6, <1>7, <1>8, <1>9, <1>10, <1>11 DEF Next

THEOREM LedgerInv == Spec => []IInv
BY InitInv, StepInv, PTL DEF Spec
-----------------------------------------------------------------------------
\* Every state of the fee tables is well formed (blueprints/fees).
THEOREM TypeCorrect == Spec => []TypeOK
<1>1. IInv => TypeOK
  BY DEF IInv
<1> QED BY <1>1, LedgerInv, PTL

\* Received is collected less refunded on every installment, whatever requests
\* and edits of Revenue rows interleave.
THEOREM MoneyIsConserved == Spec => []Conserved
<1>1. IInv => Conserved
  BY DEF IInv
<1> QED BY <1>1, LedgerInv, PTL

\* No interleaving of payments takes more for an installment than it asks.
THEOREM NobodyOverpays == Spec => []NeverOverpaid
<1>1. IInv => NeverOverpaid
  BY DEF IInv, Conserved, WithinAmount, NeverOverpaid
<1> QED BY <1>1, LedgerInv, PTL

\* Without edits, booked income and received money agree row by row.
THEOREM IncomeAgrees == Spec => []LedgerAgrees
<1>1. IInv => LedgerAgrees
  <2> SUFFICES ASSUME IInv, edits = 0 PROVE revenue = received
    BY DEF LedgerAgrees
  <2>1. revenue \in Ledgers /\ received \in Ledgers
    BY DEF IInv, TypeOK
  <2>2. \A f \in Fees : revenue[f] = received[f]
    BY <2>1 DEF IInv, Agreement, Ledgers
  <2> QED BY <2>1, <2>2 DEF Ledgers
<1> QED BY <1>1, LedgerInv, PTL

\* A cancellation gives back exactly what was received and leaves nothing.
THEOREM CancellationExact == Spec => CancellationIsExact
<1>1. ASSUME IInv, [Next]_vars, NEW f \in Fees, NEW i \in Installments,
             fee[f] = "active", fee'[f] = "cancelled"
      PROVE  /\ received'[f][i] = 0 /\ revenue'[f][i] = 0
             /\ refunded'[f][i] = refunded[f][i] + received[f][i]
  <2>1. TypeOK
    BY <1>1 DEF IInv
  <2>2. PICK r \in Requests : CommitCancel(r) /\ ~ Reject(r)
    <3>1. fee' # fee
      BY <1>1
    <3>2. \A r \in Requests : ~ CommitCreate(r) \/ Reject(r)
      <4> SUFFICES ASSUME NEW r \in Requests, CommitCreate(r), ~ Reject(r) PROVE FALSE
        OBVIOUS
      <4>1. PICK g \in Fees : fee[g] = "none" /\ fee' = [fee EXCEPT ![g] = "active"]
        BY DEF CommitCreate
      <4> QED BY <1>1, <2>1, <4>1 DEF TypeOK
    <3>3. \A r \in Requests : ~ Reject(r)
      BY <3>1 DEF Reject, ledger
    <3> QED BY <1>1, <3>1, <3>2, <3>3 DEF Next, vars, ledger, Commit, CommitPay, CommitRefund,
              LockRow, Lock, Fail, BreakDeadlock, EditRevenue, OpenCreate, OpenPay,
              OpenRefund, OpenCancel
  <2>3. /\ req[r].fee \in Fees
        /\ \A j \in Installments : revenue[req[r].fee][j] = received[req[r].fee][j]
        /\ Reverse(req[r].fee, Installments)
        /\ fee' = [fee EXCEPT ![req[r].fee] = "cancelled"]
    BY <1>1, <2>2, CancelFacts
  <2>4. f = req[r].fee
    BY <1>1, <2>1, <2>3 DEF TypeOK
  <2> QED BY <2>1, <2>3, <2>4, ReverseFacts
<1>2. IInv /\ [Next]_vars =>
        [\A f \in Fees, i \in Installments :
           fee[f] = "active" /\ fee'[f] = "cancelled" =>
             /\ received'[f][i] = 0 /\ revenue'[f][i] = 0
             /\ refunded'[f][i] = refunded[f][i] + received[f][i]]_vars
  BY <1>1
<1> QED BY <1>2, LedgerInv, PTL DEF Spec, CancellationIsExact
-----------------------------------------------------------------------------
(* Sums over finite sets, by induction on the subsets: of those that fail  *)
(* there would be a smallest one.                                          *)

\* The element that a fold takes next, and what it leaves.
Pick(s) == CHOOSE x \in s : TRUE
Rest(s) == s \ {Pick(s)}

\* g sums f over every subset of D, in the order of Pick.
SumsUp(f, D, g) == g = [s \in SUBSET D |-> IF s = {} THEN 0 ELSE f[Pick(s)] + g[s \ {Pick(s)}]]

\* Induction over the subsets of a finite set: of those that fail one is the smallest.
LEMMA SmallestSubset ==
  ASSUME NEW D, IsFiniteSet(D), NEW T, T \subseteq SUBSET D, T # {}
  PROVE  \E x \in T : \A y \in T : y \subseteq x => y = x
<1>1. IsWellFoundedOn(StrictSubsetOrdering(D), SUBSET D)
  BY FS_StrictSubsetOrderingWellFounded, FS_FiniteSubsetsOfFinite
<1>2. PICK x \in T : \A y \in T : ~ (<<y, x>> \in StrictSubsetOrdering(D))
  BY <1>1, WFMin
<1> QED BY <1>2 DEF StrictSubsetOrdering

LEMMA SumIsFold ==
  ASSUME NEW f, NEW E
  PROVE  SumFunctionOnSet(f, E) =
           (CHOOSE g : g = [s \in SUBSET E |-> IF s = {} THEN 0 ELSE f[Pick(s)] + g[s \ {Pick(s)}]])[E]
BY DEF SumFunctionOnSet, FoldFunctionOnSet, MapThenFoldSet, Pick

\* What such a function gives, step by step.
LEMMA SumsUpIs ==
  ASSUME NEW f, NEW D, NEW g, SumsUp(f, D, g), NEW s \in SUBSET D
  PROVE  g[s] = IF s = {} THEN 0 ELSE f[Pick(s)] + g[Rest(s)]
BY DEF SumsUp, Rest

LEMMA PickIs == ASSUME NEW s, s # {} PROVE Pick(s) \in s /\ Rest(s) \subseteq s /\ Rest(s) # s
BY DEF Pick, Rest

LEMMA SumsAgree ==
  ASSUME NEW D, IsFiniteSet(D), NEW E \in SUBSET D, NEW f, NEW g, NEW h,
         SumsUp(f, D, g), SumsUp(f, E, h)
  PROVE  \A s \in SUBSET E : g[s] = h[s]
<1> DEFINE T == {s \in SUBSET E : g[s] # h[s]}
<1> SUFFICES ASSUME T # {} PROVE FALSE
  OBVIOUS
<1>1. PICK x \in T : \A y \in T : y \subseteq x => y = x
  <2> HIDE DEF T
  <2>1. T \subseteq SUBSET D
    BY DEF T
  <2> QED BY <2>1, SmallestSubset
<1>2. x \in SUBSET E /\ x \in SUBSET D /\ g[x] # h[x]
  OBVIOUS
<1>3. x # {}
  BY <1>2, SumsUpIs
<1>4. Rest(x) \in SUBSET E /\ Rest(x) \in SUBSET D /\ g[Rest(x)] = h[Rest(x)]
  BY <1>1, <1>2, <1>3, PickIs
<1>5. g[x] = f[Pick(x)] + g[Rest(x)] /\ h[x] = f[Pick(x)] + h[Rest(x)]
  BY <1>2, <1>3, SumsUpIs
<1> QED BY <1>2, <1>4, <1>5

LEMMA SumsExist == ASSUME NEW D, IsFiniteSet(D), NEW f PROVE \E g : SumsUp(f, D, g)
<1> DEFINE T == {U \in SUBSET D : ~ \E g : SumsUp(f, U, g)}
<1> SUFFICES ASSUME T # {} PROVE FALSE
  OBVIOUS
<1>1. PICK U \in T : \A y \in T : y \subseteq U => y = U
  <2> HIDE DEF T
  <2>1. T \subseteq SUBSET D
    BY DEF T
  <2> QED BY <2>1, SmallestSubset
<1>2. U \in SUBSET D /\ ~ \E g : SumsUp(f, U, g)
  OBVIOUS
<1> DEFINE H(s) == CHOOSE g : SumsUp(f, s, g)
<1>3. \A s \in SUBSET U : s # U => SumsUp(f, s, H(s))
  BY <1>1, <1>2
<1> DEFINE g == [s \in SUBSET U |-> IF s = {} THEN 0 ELSE f[Pick(s)] + H(Rest(s))[Rest(s)]]
<1> HIDE DEF H, T
<1>4. \A s \in SUBSET U : s # U => g[s] = H(s)[s]
  <2> SUFFICES ASSUME NEW s \in SUBSET U, s # U PROVE g[s] = H(s)[s]
    OBVIOUS
  <2>1. SumsUp(f, s, H(s)) /\ s \in SUBSET s
    BY <1>3
  <2>2. CASE s = {}
    <3>1. H(s)[s] = 0
      BY <2>1, <2>2, SumsUpIs
    <3> QED BY <2>2, <3>1
  <2>3. CASE s # {}
    <3>1. Rest(s) \in SUBSET s /\ Rest(s) \in SUBSET U /\ Rest(s) # U /\ IsFiniteSet(s)
      BY <1>2, <2>3, PickIs, FS_Subset
    <3>2. SumsUp(f, Rest(s), H(Rest(s))) /\ Rest(s) \in SUBSET Rest(s)
      BY <1>3, <3>1
    <3>3. H(s)[Rest(s)] = H(Rest(s))[Rest(s)]
      BY <2>1, <3>1, <3>2, SumsAgree
    <3>4. H(s)[s] = f[Pick(s)] + H(s)[Rest(s)]
      BY <2>1, <2>3, SumsUpIs
    <3> QED BY <2>3, <3>3, <3>4
  <2> QED BY <2>2, <2>3
<1>5. SumsUp(f, U, g)
  <2>1. ASSUME NEW s \in SUBSET U, s # {} PROVE H(Rest(s))[Rest(s)] = g[s \ {Pick(s)}]
    <3>1. Rest(s) \in SUBSET U /\ Rest(s) # U
      BY <2>1, PickIs
    <3>2. g[Rest(s)] = H(Rest(s))[Rest(s)]
      BY <1>4, <3>1
    <3> QED BY <3>2 DEF Rest
  <2> DEFINE A(s) == IF s = {} THEN 0 ELSE f[Pick(s)] + H(Rest(s))[Rest(s)]
             B(s) == IF s = {} THEN 0 ELSE f[Pick(s)] + g[s \ {Pick(s)}]
  <2>2. ASSUME NEW s \in SUBSET U PROVE A(s) = B(s)
    BY <2>1, <2>2
  <2>3. g = [s \in SUBSET U |-> A(s)]
    OBVIOUS
  <2> HIDE DEF g, A, B
  <2>4. [s \in SUBSET U |-> A(s)] = [s \in SUBSET U |-> B(s)]
    BY <2>2
  <2>5. g = [s \in SUBSET U |-> B(s)]
    BY <2>3, <2>4
  <2> QED BY <2>5 DEF SumsUp, B
<1> QED BY <1>2, <1>5

\* The sum over a finite set is what the fold takes first and the sum over the rest.
LEMMA SumIs ==
  ASSUME NEW D, IsFiniteSet(D), NEW f
  PROVE  SumFunctionOnSet(f, D) = IF D = {} THEN 0 ELSE f[Pick(D)] + SumFunctionOnSet(f, Rest(D))
<1> DEFINE Fold(E) == CHOOSE g : SumsUp(f, E, g)
<1>1. ASSUME NEW E PROVE SumFunctionOnSet(f, E) = Fold(E)[E]
  BY SumIsFold DEF SumsUp
<1>2. SumsUp(f, D, Fold(D))
  BY SumsExist
<1> HIDE DEF Fold
<1>3. CASE D = {}
  BY <1>1, <1>2, <1>3, SumsUpIs
<1>4. CASE D # {}
  <2>1. Rest(D) \in SUBSET D /\ IsFiniteSet(Rest(D))
    BY <1>4, PickIs, FS_Subset
  <2>2. SumsUp(f, Rest(D), Fold(Rest(D)))
    BY <2>1, SumsExist DEF Fold
  <2>3. Fold(D)[Rest(D)] = Fold(Rest(D))[Rest(D)]
    BY <1>2, <2>1, <2>2, SumsAgree
  <2>4. Fold(D)[D] = f[Pick(D)] + Fold(D)[Rest(D)]
    BY <1>2, <1>4, SumsUpIs
  <2> QED BY <1>1, <1>4, <2>3, <2>4
<1> QED BY <1>3, <1>4

\* A sum of integers is one.
LEMMA SumIsInteger ==
  ASSUME NEW D, IsFiniteSet(D), NEW f, \A x \in D : f[x] \in Int
  PROVE  SumFunctionOnSet(f, D) \in Int
<1> DEFINE T == {s \in SUBSET D : SumFunctionOnSet(f, s) \notin Int}
<1> SUFFICES ASSUME T # {} PROVE FALSE
  OBVIOUS
<1>1. PICK s \in T : \A y \in T : y \subseteq s => y = s
  <2> HIDE DEF T
  <2>1. T \subseteq SUBSET D
    BY DEF T
  <2> QED BY <2>1, SmallestSubset
<1>2. s \in SUBSET D /\ SumFunctionOnSet(f, s) \notin Int /\ IsFiniteSet(s)
  BY FS_Subset
<1>3. SumFunctionOnSet(f, s) = IF s = {} THEN 0 ELSE f[Pick(s)] + SumFunctionOnSet(f, Rest(s))
  BY <1>2, SumIs
<1>4. s # {}
  BY <1>2, <1>3
<1>5. Pick(s) \in D /\ SumFunctionOnSet(f, Rest(s)) \in Int
  BY <1>1, <1>2, <1>4, PickIs
<1> QED BY <1>2, <1>3, <1>4, <1>5

\* The sum of a sum of functions, term by term.
LEMMA SumOfSums ==
  ASSUME NEW D, IsFiniteSet(D), NEW f, NEW g, NEW h,
         \A x \in D : f[x] \in Int /\ g[x] \in Int /\ h[x] = f[x] + g[x]
  PROVE  SumFunctionOnSet(h, D) = SumFunctionOnSet(f, D) + SumFunctionOnSet(g, D)
<1> DEFINE T == {s \in SUBSET D :
                   SumFunctionOnSet(h, s) # SumFunctionOnSet(f, s) + SumFunctionOnSet(g, s)}
<1> SUFFICES ASSUME T # {} PROVE FALSE
  OBVIOUS
<1>1. PICK s \in T : \A y \in T : y \subseteq s => y = s
  <2> HIDE DEF T
  <2>1. T \subseteq SUBSET D
    BY DEF T
  <2> QED BY <2>1, SmallestSubset
<1>2. /\ s \in SUBSET D /\ IsFiniteSet(s)
      /\ SumFunctionOnSet(h, s) # SumFunctionOnSet(f, s) + SumFunctionOnSet(g, s)
  BY FS_Subset
<1>3. /\ SumFunctionOnSet(f, s) = IF s = {} THEN 0 ELSE f[Pick(s)] + SumFunctionOnSet(f, Rest(s))
      /\ SumFunctionOnSet(g, s) = IF s = {} THEN 0 ELSE g[Pick(s)] + SumFunctionOnSet(g, Rest(s))
      /\ SumFunctionOnSet(h, s) = IF s = {} THEN 0 ELSE h[Pick(s)] + SumFunctionOnSet(h, Rest(s))
  BY <1>2, SumIs
<1>4. s # {}
  BY <1>2, <1>3
<1>5. /\ Pick(s) \in D /\ Rest(s) \in SUBSET D /\ IsFiniteSet(Rest(s))
      /\ SumFunctionOnSet(h, Rest(s)) = SumFunctionOnSet(f, Rest(s)) + SumFunctionOnSet(g, Rest(s))
  BY <1>1, <1>2, <1>4, PickIs, FS_Subset
<1>6. SumFunctionOnSet(f, Rest(s)) \in Int /\ SumFunctionOnSet(g, Rest(s)) \in Int
  <2>1. (\A x \in Rest(s) : f[x] \in Int) /\ (\A x \in Rest(s) : g[x] \in Int)
    BY <1>5
  <2> QED BY <1>5, <2>1, SumIsInteger
<1>7. f[Pick(s)] \in Int /\ g[Pick(s)] \in Int /\ h[Pick(s)] = f[Pick(s)] + g[Pick(s)]
  BY <1>5
<1> HIDE DEF T
<1> QED BY <1>2, <1>3, <1>4, <1>5, <1>6, <1>7

\* Terms that are all zero, but perhaps one.
LEMMA SumOfOne ==
  ASSUME NEW D, IsFiniteSet(D), NEW f, NEW k, NEW d \in Int,
         \A x \in D : f[x] = IF x = k THEN d ELSE 0
  PROVE  SumFunctionOnSet(f, D) = IF k \in D THEN d ELSE 0
<1> DEFINE T == {s \in SUBSET D : SumFunctionOnSet(f, s) # IF k \in s THEN d ELSE 0}
<1> SUFFICES ASSUME T # {} PROVE FALSE
  OBVIOUS
<1>1. PICK s \in T : \A y \in T : y \subseteq s => y = s
  <2> HIDE DEF T
  <2>1. T \subseteq SUBSET D
    BY DEF T
  <2> QED BY <2>1, SmallestSubset
<1>2. s \in SUBSET D /\ IsFiniteSet(s) /\ SumFunctionOnSet(f, s) # IF k \in s THEN d ELSE 0
  BY FS_Subset
<1>3. SumFunctionOnSet(f, s) = IF s = {} THEN 0 ELSE f[Pick(s)] + SumFunctionOnSet(f, Rest(s))
  BY <1>2, SumIs
<1>4. s # {}
  BY <1>2, <1>3
<1>5. /\ Pick(s) \in s /\ f[Pick(s)] = IF Pick(s) = k THEN d ELSE 0
      /\ SumFunctionOnSet(f, Rest(s)) = IF k \in Rest(s) THEN d ELSE 0
  BY <1>1, <1>2, <1>4, PickIs
<1>6. k \in s <=> (k = Pick(s) \/ k \in Rest(s))
  BY <1>5 DEF Rest
<1>7. k = Pick(s) => k \notin Rest(s)
  BY DEF Rest
<1> HIDE DEF T
<1> QED BY <1>2, <1>3, <1>4, <1>5, <1>6, <1>7

LEMMA SumOfZeros ==
  ASSUME NEW D, IsFiniteSet(D), NEW f, \A x \in D : f[x] = 0
  PROVE  SumFunctionOnSet(f, D) = 0
<1>1. SumFunctionOnSet(f, D) \in Int
  BY SumIsInteger
<1>2. SumFunctionOnSet(f, D) = SumFunctionOnSet(f, D) + SumFunctionOnSet(f, D)
  BY SumOfSums
<1> DEFINE sum == SumFunctionOnSet(f, D)
<1>3. sum \in Int /\ sum = sum + sum
  BY <1>1, <1>2
<1> HIDE DEF sum
<1>4. sum = 0
  BY <1>3
<1> QED BY <1>4 DEF sum

\* Adding d to one term adds d to the sum.
LEMMA SumGrows ==
  ASSUME NEW D, IsFiniteSet(D), NEW f, NEW h, NEW k \in D, NEW d \in Int,
         \A x \in D : f[x] \in Int, h[k] = f[k] + d, \A x \in D : x # k => h[x] = f[x]
  PROVE  SumFunctionOnSet(h, D) = SumFunctionOnSet(f, D) + d
<1> DEFINE g == [x \in D |-> IF x = k THEN d ELSE 0]
<1>1. \A x \in D : f[x] \in Int /\ g[x] \in Int /\ h[x] = f[x] + g[x]
  OBVIOUS
<1>2. \A x \in D : g[x] = IF x = k THEN d ELSE 0
  OBVIOUS
<1> HIDE DEF g
<1>3. SumFunctionOnSet(h, D) = SumFunctionOnSet(f, D) + SumFunctionOnSet(g, D)
  BY <1>1, SumOfSums
<1>4. SumFunctionOnSet(g, D) = d
  BY <1>2, SumOfOne
<1> QED BY <1>3, <1>4

LEMMA SumIsOverDomain ==
  ASSUME NEW D, NEW f, DOMAIN f = D
  PROVE  SumFunction(f) = SumFunctionOnSet(f, D)
BY DEF SumFunction, SumFunctionOnSet, FoldFunction
-----------------------------------------------------------------------------
(* Payments and what was booked for them. *)

Taken(r) == IF req[r].pc = "accepted" THEN req[r].paid ELSE 0
BookedFor(f) == SumFunction(collected[f])

\* Only payments and new fees bring money.
ReversalsTakeNothing ==
  \A r \in Requests : req[r].op \in {"refund", "cancel"} => req[r].paid = 0

PaymentInv == PaymentsAccounted /\ ReversalsTakeNothing

LEMMA RangesAreFinite == IsFiniteSet(Fees) /\ IsFiniteSet(Requests) /\ IsFiniteSet(Installments)
BY ConstantsAssumption, FS_Interval DEF ConstantsAssumption, Fees, Requests, Installments

LEMMA BooksOf ==
  PaymentsAccounted <=>
    SumFunction([f \in Fees |-> BookedFor(f)]) = SumFunction([r \in Requests |-> Taken(r)])
BY Zenon DEF PaymentsAccounted, BookedFor, Taken

LEMMA BookedIsInteger ==
  ASSUME collected \in Ledgers, NEW f \in Fees
  PROVE  BookedFor(f) \in Int
<1>1. DOMAIN collected[f] = Installments /\ \A i \in Installments : collected[f][i] \in Int
  BY DEF Ledgers
<1>2. BookedFor(f) = SumFunctionOnSet(collected[f], Installments)
  BY <1>1, SumIsOverDomain DEF BookedFor
<1> QED BY <1>1, <1>2, SumIsInteger, RangesAreFinite

LEMMA SplitAdds ==
  ASSUME NEW u \in [Installments -> Nat], NEW v \in [Installments -> Nat],
         NEW a \in [Installments -> Nat], \A i \in Installments : v[i] = u[i] + a[i]
  PROVE  SumFunction(v) = SumFunction(u) + SumFunction(a)
<1>1. /\ SumFunction(v) = SumFunctionOnSet(v, Installments)
      /\ SumFunction(u) = SumFunctionOnSet(u, Installments)
      /\ SumFunction(a) = SumFunctionOnSet(a, Installments)
  BY SumIsOverDomain
<1>2. \A i \in Installments : u[i] \in Int /\ a[i] \in Int /\ v[i] = u[i] + a[i]
  OBVIOUS
<1>3. SumFunctionOnSet(v, Installments) = SumFunctionOnSet(u, Installments) + SumFunctionOnSet(a, Installments)
  BY <1>2, SumOfSums, RangesAreFinite
<1> QED BY <1>1, <1>3

\* An accepted request whose payment was booked adds it to both sides.
LEMMA BooksGrow ==
  ASSUME TypeOK, PaymentsAccounted, NEW f \in Fees, NEW a \in [Installments -> Nat],
         NEW r \in Requests, req[r].pc = "open", SumFunction(a) = req[r].paid,
         collected' \in Ledgers, \A g \in Fees \ {f} : collected'[g] = collected[g],
         \A i \in Installments : collected'[f][i] = collected[f][i] + a[i],
         req'[r].pc = "accepted", req'[r].paid = req[r].paid,
         \A q \in Requests : q # r => req'[q] = req[q]
  PROVE  PaymentsAccounted'
<1> DEFINE before == [g \in Fees |-> BookedFor(g)]
           after == [g \in Fees |-> BookedFor(g)']
           taken == [q \in Requests |-> Taken(q)]
           takenAfter == [q \in Requests |-> Taken(q)']
           d == req[r].paid
<1>1. d \in Nat /\ collected \in Ledgers /\ \A q \in Requests : req[q].paid \in Nat
  BY DEF TypeOK, Request
<1>2. \A g \in Fees : BookedFor(g) \in Int
  BY <1>1, BookedIsInteger
<1>3. BookedFor(f)' = BookedFor(f) + d
  <2>1. collected[f] \in [Installments -> Nat] /\ collected'[f] \in [Installments -> Nat]
    BY <1>1 DEF Ledgers
  <2>2. SumFunction(collected'[f]) = SumFunction(collected[f]) + SumFunction(a)
    BY <2>1, SplitAdds
  <2> QED BY <2>2 DEF BookedFor
<1>4. \A g \in Fees : g # f => BookedFor(g)' = BookedFor(g)
  BY DEF BookedFor
<1>5. /\ \A q \in Requests : Taken(q) \in Int
      /\ Taken(r) = 0 /\ Taken(r)' = d
      /\ \A q \in Requests : q # r => Taken(q)' = Taken(q)
  BY <1>1 DEF Taken
<1>6. /\ \A g \in Fees : before[g] \in Int
      /\ after[f] = before[f] + d /\ \A g \in Fees : g # f => after[g] = before[g]
  BY <1>2, <1>3, <1>4
<1>7. /\ \A q \in Requests : taken[q] \in Int
      /\ takenAfter[r] = taken[r] + d /\ \A q \in Requests : q # r => takenAfter[q] = taken[q]
  BY <1>1, <1>5
<1>8. /\ DOMAIN before = Fees /\ DOMAIN after = Fees
      /\ DOMAIN taken = Requests /\ DOMAIN takenAfter = Requests
  OBVIOUS
<1>9. PaymentsAccounted <=> SumFunction(before) = SumFunction(taken)
  BY BooksOf
<1>10. PaymentsAccounted' <=> SumFunction(after) = SumFunction(takenAfter)
  BY Zenon DEF PaymentsAccounted, BookedFor, Taken
<1> HIDE DEF before, after, taken, takenAfter, d
<1>11. SumFunction(after) = SumFunction(before) + d
  <2>1. \A g \in Fees : before[g] \in Int
    BY <1>6
  <2>2. after[f] = before[f] + d
    BY <1>6
  <2>3. \A g \in Fees : g # f => after[g] = before[g]
    BY <1>6
  <2>4. d \in Int /\ IsFiniteSet(Fees) /\ f \in Fees
    BY <1>1, RangesAreFinite
  <2>5. SumFunctionOnSet(after, Fees) = SumFunctionOnSet(before, Fees) + d
    BY <2>1, <2>2, <2>3, <2>4, SumGrows, Zenon
  <2> QED BY <1>8, <2>5, SumIsOverDomain
<1>12. SumFunction(takenAfter) = SumFunction(taken) + d
  <2>1. \A q \in Requests : taken[q] \in Int
    BY <1>7
  <2>2. takenAfter[r] = taken[r] + d
    BY <1>7
  <2>3. \A q \in Requests : q # r => takenAfter[q] = taken[q]
    BY <1>7
  <2>4. d \in Int /\ IsFiniteSet(Requests) /\ r \in Requests
    BY <1>1, RangesAreFinite
  <2>5. SumFunctionOnSet(takenAfter, Requests) = SumFunctionOnSet(taken, Requests) + d
    BY <2>1, <2>2, <2>3, <2>4, SumGrows, Zenon
  <2> QED BY <1>8, <2>5, SumIsOverDomain
<1> QED BY <1>9, <1>10, <1>11, <1>12

\* Without a booking and without an accepted payment both sides stay.
LEMMA BooksStay ==
  ASSUME PaymentsAccounted, UNCHANGED collected, \A q \in Requests : Taken(q)' = Taken(q)
  PROVE  PaymentsAccounted'
<1>1. \A g \in Fees : BookedFor(g)' = BookedFor(g)
  BY DEF BookedFor
<1>2. /\ [g \in Fees |-> BookedFor(g)'] = [g \in Fees |-> BookedFor(g)]
      /\ [q \in Requests |-> Taken(q)'] = [q \in Requests |-> Taken(q)]
  BY <1>1
<1>3. PaymentsAccounted' <=>
        SumFunction([g \in Fees |-> BookedFor(g)']) = SumFunction([q \in Requests |-> Taken(q)'])
  BY Zenon DEF PaymentsAccounted, BookedFor, Taken
<1> QED BY <1>2, <1>3, BooksOf

\* What a commit or rollback leaves of the request.
LEMMA ClosedRequest ==
  ASSUME TypeOK, NEW r \in Requests, NEW verdict \in {"accepted", "rejected"}, Close(r, verdict)
  PROVE  /\ req'[r].pc = verdict /\ req'[r].paid = req[r].paid /\ req'[r].op = req[r].op
         /\ \A q \in Requests : q # r => req'[q] = req[q]
<1>1. req[r] \in Request /\ DOMAIN req = Requests
  BY DEF TypeOK
<1> QED BY <1>1 DEF Close, Request

LEMMA OpenKeepsBooks ==
  ASSUME TypeOK, PaymentInv, NEW r \in Requests, NEW op \in Operations, NEW f \in Fees,
         NEW i \in Installments, NEW paid \in Nat, op \in {"refund", "cancel"} => paid = 0,
         Open(r, op, f, i, paid), UNCHANGED collected
  PROVE  PaymentInv'
<1>1. /\ req[r] \in Request /\ DOMAIN req = Requests /\ req[r].pc = "new"
      /\ \A q \in Requests : q # r => req'[q] = req[q]
      /\ req'[r].pc = "open" /\ req'[r].op = op /\ req'[r].paid = paid
  BY DEF Open, TypeOK, Request
<1>2. \A q \in Requests : Taken(q)' = Taken(q)
  BY <1>1 DEF Taken
<1>3. PaymentsAccounted'
  BY <1>2, BooksStay DEF PaymentInv
<1>4. ReversalsTakeNothing'
  BY <1>1 DEF PaymentInv, ReversalsTakeNothing
<1> QED BY <1>3, <1>4 DEF PaymentInv

LEMMA RejectKeepsBooks ==
  ASSUME TypeOK, PaymentInv, NEW r \in Requests, req[r].pc = "open", Reject(r)
  PROVE  PaymentInv'
<1>1. /\ req'[r].pc = "rejected" /\ req'[r].paid = req[r].paid /\ req'[r].op = req[r].op
      /\ \A q \in Requests : q # r => req'[q] = req[q]
  BY ClosedRequest DEF Reject
<1>2. UNCHANGED collected
  BY DEF Reject, ledger
<1>3. \A q \in Requests : Taken(q)' = Taken(q)
  BY <1>1 DEF Taken
<1>4. PaymentsAccounted'
  BY <1>2, <1>3, BooksStay DEF PaymentInv
<1>5. ReversalsTakeNothing'
  BY <1>1 DEF PaymentInv, ReversalsTakeNothing
<1> QED BY <1>4, <1>5 DEF PaymentInv

\* A refund or a cancellation is accepted without a payment.
LEMMA ReversalKeepsBooks ==
  ASSUME TypeOK, PaymentInv, NEW r \in Requests, req[r].pc = "open",
         req[r].op \in {"refund", "cancel"}, Close(r, "accepted"), UNCHANGED collected
  PROVE  PaymentInv'
<1>1. /\ req'[r].pc = "accepted" /\ req'[r].paid = req[r].paid /\ req'[r].op = req[r].op
      /\ \A q \in Requests : q # r => req'[q] = req[q]
  BY ClosedRequest
<1>2. req[r].paid = 0
  BY DEF PaymentInv, ReversalsTakeNothing
<1>3. \A q \in Requests : Taken(q)' = Taken(q)
  BY <1>1, <1>2 DEF Taken
<1>4. PaymentsAccounted'
  BY <1>3, BooksStay DEF PaymentInv
<1>5. ReversalsTakeNothing'
  BY <1>1 DEF PaymentInv, ReversalsTakeNothing
<1> QED BY <1>4, <1>5 DEF PaymentInv

\* What was booked is the whole payment.
LEMMA RecordKeepsBooks ==
  ASSUME TypeOK, PaymentInv, NEW r \in Requests, NEW f \in Fees, req[r].pc = "open",
         NEW before, NEW a \in [Installments -> Nat], Record(f, before, a),
         SumFunction(a) = req[r].paid, Close(r, "accepted")
  PROVE  PaymentInv'
<1>1. /\ req'[r].pc = "accepted" /\ req'[r].paid = req[r].paid /\ req'[r].op = req[r].op
      /\ \A q \in Requests : q # r => req'[q] = req[q]
  BY ClosedRequest
<1>2. /\ collected' \in Ledgers
      /\ \A g \in Fees \ {f} : collected'[g] = collected[g]
      /\ \A i \in Installments : collected'[f][i] = collected[f][i] + a[i]
  BY DEF Record, TypeOK, Ledgers
<1>3. PaymentsAccounted'
  BY <1>1, <1>2, BooksGrow DEF PaymentInv
<1>4. ReversalsTakeNothing'
  BY <1>1 DEF PaymentInv, ReversalsTakeNothing
<1> QED BY <1>3, <1>4 DEF PaymentInv

\* A first payment is spread out in full, or there is none.
LEMMA OpeningsAddUp ==
  ASSUME NEW a, NEW paid \in Nat, NEW p \in Openings(a, paid)
  PROVE  p \in [Installments -> Nat] /\ SumFunction(p) = paid
<1>1. CASE paid = 0
  <2>1. p = Zero
    BY <1>1 DEF Openings
  <2>2. p \in [Installments -> Nat] /\ DOMAIN p = Installments
    BY <2>1, BasicFacts
  <2>3. \A i \in Installments : p[i] = 0
    BY <2>1, BasicFacts
  <2>4. SumFunctionOnSet(p, Installments) = 0
    BY <2>3, SumOfZeros, RangesAreFinite
  <2> QED BY <1>1, <2>2, <2>4, SumIsOverDomain
<1>2. CASE paid # 0
  <2>1. PICK i \in FirstDue(a) : p \in Allocations(a, i, paid)
    BY <1>2 DEF Openings
  <2>2. p \in [Installments -> 0 .. paid] /\ SumFunction(p) = paid
    BY <2>1 DEF Allocations
  <2> QED BY <2>2
<1> QED BY <1>1, <1>2

LEMMA CommitKeepsBooks ==
  ASSUME TypeOK, PaymentInv, NEW r \in Requests, Commit(r)
  PROVE  PaymentInv'
<1>1. req[r].pc = "open" /\ req[r].fee \in Fees /\ req[r].paid \in Nat
  BY DEF Commit, CommitCreate, CommitPay, CommitRefund, CommitCancel, Is, TypeOK, Request
<1>2. CASE Reject(r)
  BY <1>1, <1>2, RejectKeepsBooks
<1>3. CASE CommitCreate(r) /\ ~ Reject(r)
  <2>1. PICK f \in Fees, net \in Nets :
          \E a \in Splits(net) : /\ \E p \in Openings(a, req[r].paid) : Record(f, Zero, p)
                                /\ Close(r, "accepted")
    BY <1>3 DEF CommitCreate
  <2>1a. PICK a \in Splits(net) : /\ \E p \in Openings(a, req[r].paid) : Record(f, Zero, p)
                                  /\ Close(r, "accepted")
    BY <2>1
  <2>2. PICK p \in Openings(a, req[r].paid) : Record(f, Zero, p)
    BY <2>1a
  <2>3. p \in [Installments -> Nat] /\ SumFunction(p) = req[r].paid
    BY <1>1, <2>2, OpeningsAddUp
  <2> QED BY <1>1, <2>1a, <2>2, <2>3, RecordKeepsBooks
<1>4. CASE CommitPay(r) /\ ~ Reject(r)
  <2>1. PICK a \in Allocations(Due(r), req[r].inst, req[r].paid) :
          Record(req[r].fee, req[r].seen, a)
    BY <1>4 DEF CommitPay
  <2>2. Close(r, "accepted")
    BY <1>4 DEF CommitPay
  <2>3. a \in [Installments -> 0 .. req[r].paid] /\ SumFunction(a) = req[r].paid
    BY DEF Allocations
  <2>4. a \in [Installments -> Nat]
    BY <1>1, <2>3
  <2> QED BY <1>1, <2>1, <2>2, <2>3, <2>4, RecordKeepsBooks
<1>5. CASE (CommitRefund(r) \/ CommitCancel(r)) /\ ~ Reject(r)
  <2>1. /\ req[r].op \in {"refund", "cancel"} /\ Close(r, "accepted") /\ UNCHANGED collected
    BY <1>5 DEF CommitRefund, CommitCancel, Is
  <2> QED BY <1>1, <2>1, ReversalKeepsBooks
<1> QED BY <1>2, <1>3, <1>4, <1>5 DEF Commit

THEOREM InitPayments == Init => PaymentInv
<1> SUFFICES ASSUME Init PROVE PaymentInv
  OBVIOUS
<1>1. /\ \A f \in Fees : collected[f] = Zero
      /\ \A r \in Requests : req[r].pc = "new" /\ req[r].op = "create" /\ req[r].paid = 0
  BY DEF Init
<1>2. SumFunction(Zero) = 0
  <2>1. Zero \in Openings(Zero, 0) /\ 0 \in Nat
    BY DEF Openings
  <2> QED BY <2>1, OpeningsAddUp
<1> DEFINE booked == [f \in Fees |-> BookedFor(f)]
           taken == [r \in Requests |-> Taken(r)]
<1>3. \A f \in Fees : booked[f] = 0
  BY <1>1, <1>2 DEF BookedFor
<1>4. \A r \in Requests : taken[r] = 0
  BY <1>1 DEF Taken
<1>5. DOMAIN booked = Fees /\ DOMAIN taken = Requests
  OBVIOUS
<1>6. PaymentsAccounted <=> SumFunction(booked) = SumFunction(taken)
  BY BooksOf
<1> HIDE DEF booked, taken
<1>7. SumFunctionOnSet(booked, Fees) = 0
  BY <1>3, SumOfZeros, RangesAreFinite
<1>8. SumFunctionOnSet(taken, Requests) = 0
  BY <1>4, SumOfZeros, RangesAreFinite
<1>9. PaymentsAccounted
  BY <1>5, <1>6, <1>7, <1>8, SumIsOverDomain
<1> QED BY <1>1, <1>9 DEF PaymentInv, ReversalsTakeNothing

THEOREM StepPayments == TypeOK /\ PaymentInv /\ [Next]_vars => PaymentInv'
<1> SUFFICES ASSUME TypeOK, PaymentInv, [Next]_vars PROVE PaymentInv'
  OBVIOUS
<1>0. Payments \subseteq Nat /\ 1 \in Fees /\ 1 \in Installments
  BY ConstantsAssumption, BasicFacts DEF ConstantsAssumption
<1>1. ASSUME NEW r \in Requests, NEW paid \in Payments \cup {0}, OpenCreate(r, paid)
      PROVE  PaymentInv'
  BY <1>0, <1>1, OpenKeepsBooks DEF OpenCreate, Operations, ledger
<1>2. ASSUME NEW r \in Requests, NEW f \in Fees, NEW i \in Installments, NEW paid \in Payments,
             OpenPay(r, f, i, paid)
      PROVE  PaymentInv'
  BY <1>0, <1>2, OpenKeepsBooks DEF OpenPay, Operations, ledger
<1>3. ASSUME NEW r \in Requests, NEW f \in Fees, NEW i \in Installments, OpenRefund(r, f, i)
      PROVE  PaymentInv'
  BY <1>3, OpenKeepsBooks DEF OpenRefund, Operations, ledger
<1>4. ASSUME NEW r \in Requests, NEW f \in Fees, OpenCancel(r, f)
      PROVE  PaymentInv'
  BY <1>0, <1>4, OpenKeepsBooks DEF OpenCancel, Operations, ledger
<1>5. ASSUME NEW r \in Requests, LockRow(r) PROVE PaymentInv'
  <2>1. PICK i \in Installments : Lock(r, i)
    BY <1>5 DEF LockRow
  <2>2. req[r] \in Request /\ DOMAIN req = Requests /\ UNCHANGED collected
    BY <2>1 DEF TypeOK, Lock, ledger
  <2>3. /\ req'[r].pc = req[r].pc /\ req'[r].paid = req[r].paid /\ req'[r].op = req[r].op
        /\ \A q \in Requests : q # r => req'[q] = req[q]
    BY <2>1, <2>2 DEF Lock, Request
  <2>4. \A q \in Requests : Taken(q)' = Taken(q)
    BY <2>3 DEF Taken
  <2>5. PaymentsAccounted'
    BY <2>2, <2>4, BooksStay DEF PaymentInv
  <2>6. ReversalsTakeNothing'
    BY <2>3 DEF PaymentInv, ReversalsTakeNothing
  <2> QED BY <2>5, <2>6 DEF PaymentInv
<1>6. ASSUME NEW r \in Requests, Commit(r) PROVE PaymentInv'
  BY <1>6, CommitKeepsBooks
<1>7. ASSUME NEW r \in Requests, Fail(r) PROVE PaymentInv'
  BY <1>7, RejectKeepsBooks DEF Fail
<1>8. CASE BreakDeadlock
  <2>1. PICK r \in Requests : req[r].pc = "open" /\ Reject(r)
    BY <1>8 DEF BreakDeadlock, Deadlocked
  <2> QED BY <2>1, RejectKeepsBooks
<1>9. ASSUME UNCHANGED <<collected, req>> PROVE PaymentInv'
  <2>1. \A q \in Requests : Taken(q)' = Taken(q)
    BY <1>9 DEF Taken
  <2>2. PaymentsAccounted'
    BY <1>9, <2>1, BooksStay DEF PaymentInv
  <2>3. ReversalsTakeNothing'
    BY <1>9 DEF PaymentInv, ReversalsTakeNothing
  <2> QED BY <2>2, <2>3 DEF PaymentInv
<1>10. ASSUME NEW f \in Fees, NEW i \in Installments, NEW sum \in EditedRevenues,
              EditRevenue(f, i, sum)
       PROVE  PaymentInv'
  BY <1>9, <1>10 DEF EditRevenue
<1>11. CASE UNCHANGED vars
  BY <1>9, <1>11 DEF vars
<1> QED BY <1>1, <1>2, <1>3, <1>4, <1>5, <1>6, <1>7, <1>8, <1>10, <1>11 DEF Next

\* However requests interleave, fail and meet in deadlocks, the money booked on all
\* installments of all fees is the money of the accepted payments, no more and no less.
THEOREM PaymentsAreBooked == Spec => []PaymentsAccounted
<1>1. Init => TypeOK /\ PaymentInv
  <2>1. IInv => TypeOK
    BY DEF IInv
  <2> QED BY <2>1, InitInv, InitPayments
<1>2. IInv /\ PaymentInv /\ [Next]_vars => PaymentInv'
  <2>1. IInv => TypeOK
    BY DEF IInv
  <2> QED BY <2>1, StepPayments
<1>3. PaymentInv => PaymentsAccounted
  BY DEF PaymentInv
<1> QED BY <1>1, <1>2, <1>3, LedgerInv, PTL DEF Spec
=============================================================================
