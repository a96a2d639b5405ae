------------------------------- MODULE PayrollProofs -------------------------------
(***************************************************************************)
(* Proofs about Payroll, for any employees and any number of requests.     *)
(*                                                                         *)
(* What a request is going to write was computed from what it read         *)
(* (PlansAreLegit); unless the record has changed since, which stale       *)
(* remembers, that is what it replaces.                                    *)
(***************************************************************************)
EXTENDS Payroll, FiniteSetTheorems, TLAPS

\* What op may make of the record s of x, when it changes it at all.
Legit(r, x, op, s, p) ==
  /\ s.net = Cardinality(s.items) => p.net = Cardinality(p.items)
  /\ p.status = "none" => p = NoRecord /\ s.status # "none"
  /\ \/ p.net = s.net
     \/ p.status = "none"
     \/ op = "items" /\ ~ Locked(s)
     \/ op = "generate" /\ s.status = "none"
  /\ \/ /\ p.status # "paid"
        /\ p.expense = None \/ (p.expense = s.expense /\ s.status # "paid")
     \/ /\ p.status = "paid" /\ s.status = "approved" /\ p.net = s.net
        /\ p.expense = IF s.expense = None THEN <<r, x>> ELSE s.expense

\* A request in a transaction has a legitimate plan; only pay-all goes on.
PlansAreLegit ==
  \A r \in Requests :
    /\ req[r].pc \in {"open", "unpost"} =>
         \A x \in Employees : req[r].plan[x] # req[r].snap[x] =>
           Legit(r, x, req[r].op, req[r].snap[x], req[r].plan[x])
    /\ req[r].op # "payall" => req[r].todo = {}
    /\ req[r].pc = "idle" => req[r] = Idle

\* Pay-all read the records it has not come to as approved.
TodoIsApproved ==
  \A r \in Requests, x \in Employees :
    x \in req[r].todo => req[r].snap[x].status = "approved"

\* The expense of a salary is one that was created for it.
Own(x, rec) == rec.expense # None => \E q \in Requests : rec.expense = <<q, x>>
ExpensesAreOwn ==
  \A x \in Employees :
    /\ Own(x, records[x])
    /\ \A r \in Requests : Own(x, req[r].snap[x]) /\ Own(x, req[r].plan[x])

IInv == /\ TypeOK /\ PlansAreLegit /\ TodoIsApproved /\ ExpensesAreOwn
        /\ PaidIsInTheLedger
-----------------------------------------------------------------------------
LEMMA ItemsAreFinite ==
  ASSUME NumRequests \in Nat, NEW S \in SUBSET Items
  PROVE  Cardinality(S) \in Nat
<1> DEFINE P == (0 .. NumRequests) \X BOOLEAN
           f == [p \in P |-> [by |-> p[1], auto |-> p[2]]]
<1>1. IsFiniteSet(0 .. NumRequests)
  BY FS_Interval
<1>2. IsFiniteSet(P)
  <2>1. IsFiniteSet({TRUE} \cup {FALSE})
    BY FS_Singleton, FS_AddElement
  <2>2. BOOLEAN = {TRUE} \cup {FALSE}
    OBVIOUS
  <2>3. IsFiniteSet(BOOLEAN)
    BY <2>1, <2>2
  <2> QED BY <1>1, <2>3, FS_Product
<1>3. f \in Surjection(P, Items)
  <2>1. f \in [P -> Items]
    BY DEF Items
  <2>2. ASSUME NEW i \in Items PROVE \E p \in P : f[p] = i
    <3>1. <<i.by, i.auto>> \in P
      BY DEF Items
    <3>2. f[<<i.by, i.auto>>] = i
      BY <3>1 DEF Items
    <3> QED BY <3>1, <3>2
  <2> QED BY <2>1, <2>2 DEF Surjection
<1> HIDE DEF P, f
<1>4. IsFiniteSet(Items)
  BY <1>2, <1>3, FS_Surjection
<1> QED BY <1>4, FS_Subset, FS_CardinalityType

LEMMA NoRecordFacts ==
  ASSUME NumRequests \in Nat
  PROVE  /\ NoRecord \in Record /\ NoRecord.expense = None /\ NoRecord.status = "none"
         /\ NoRecord.items = {} /\ NoRecord.net = 0 /\ Cardinality({}) = 0
BY FS_EmptySet DEF NoRecord, Record, Statuses

LEMMA NoneIsNoExpense == \A q, x : <<q, x>> # None
BY DEF None

LEMMA InitInv == ASSUME NumRequests \in Nat, Init PROVE IInv
<1> DEFINE item == [by |-> 0, auto |-> TRUE]
           open(s) == [NoRecord EXCEPT !.status = s, !.items = {item}, !.net = 1]
<1>0. item \in Items /\ Cardinality({item}) = 1
  <2>1. item \in Items
    BY DEF Items
  <2> QED BY <2>1, FS_Singleton
<1> HIDE DEF item
<1>1. \A s \in {"draft", "approved"} :
        /\ open(s) \in Record /\ open(s).status = s /\ open(s).net = 1
        /\ open(s).items = {item} /\ open(s).expense = None
  BY <1>0, NoRecordFacts DEF NoRecord, Record, Statuses
<1>2. \A x \in Employees :
        records[x] = NoRecord \/ \E s \in {"draft", "approved"} : records[x] = open(s)
  BY DEF Init, item
<1> HIDE DEF open
<1>3. records \in [Employees -> Record]
  <2>1. \A x \in Employees : records[x] \in Record
    BY <1>1, <1>2, NoRecordFacts
  <2> QED BY <2>1 DEF Init
<1>4. Idle \in Request
  BY NoRecordFacts DEF Idle, Request
<1>5. TypeOK
  BY <1>3, <1>4 DEF Init, TypeOK
<1>6. /\ Idle.pc = "idle" /\ Idle.todo = {} /\ Idle.op = "none"
      /\ \A x \in Employees : Idle.snap[x] = NoRecord /\ Idle.plan[x] = NoRecord
  BY DEF Idle
<1>7. PlansAreLegit /\ TodoIsApproved
  BY <1>6 DEF Init, PlansAreLegit, TodoIsApproved
<1>8. ExpensesAreOwn
  BY <1>1, <1>2, <1>6, NoRecordFacts DEF Init, ExpensesAreOwn, Own
<1>9. PaidIsInTheLedger
  <2> SUFFICES ASSUME NEW x \in Employees
               PROVE  /\ records[x].net = Cardinality(records[x].items)
                      /\ records[x].status # "paid" /\ records[x].expense = None
    BY DEF PaidIsInTheLedger
  <2>1. CASE records[x] = NoRecord
    BY <2>1, NoRecordFacts
  <2>2. CASE records[x] # NoRecord
    <3>1. PICK s \in {"draft", "approved"} : records[x] = open(s)
      BY <1>2, <2>2
    <3> QED BY <1>0, <1>1, <3>1
  <2> QED BY <2>1, <2>2
<1> QED BY <1>5, <1>7, <1>8, <1>9 DEF IInv

\* A request that opens a transaction, or a step of one, changes nothing else.
LEMMA RequestStep ==
  ASSUME IInv, NEW r \in Requests, NEW new \in Request, req' = [req EXCEPT ![r] = new],
         UNCHANGED <<records, expenses, stale>>,
         new.pc \in {"open", "unpost"} =>
           \A x \in Employees : new.plan[x] # new.snap[x] =>
             Legit(r, x, new.op, new.snap[x], new.plan[x]),
         new.pc # "idle", new.op # "payall" => new.todo = {},
         \A x \in new.todo : new.snap[x].status = "approved",
         \A x \in Employees : Own(x, new.snap[x]) /\ Own(x, new.plan[x])
  PROVE  IInv'
<1>1. req'[r] = new /\ \A q \in Requests \ {r} : req'[q] = req[q]
  BY DEF IInv, TypeOK
<1>2. TypeOK'
  BY DEF IInv, TypeOK
<1>3. PlansAreLegit'
  BY <1>1 DEF IInv, PlansAreLegit
<1>4. TodoIsApproved'
  BY <1>1 DEF IInv, TodoIsApproved
<1>5. ExpensesAreOwn'
  BY <1>1 DEF IInv, ExpensesAreOwn
<1>6. PaidIsInTheLedger'
  BY DEF IInv, PaidIsInTheLedger
<1> QED BY <1>2, <1>3, <1>4, <1>5, <1>6 DEF IInv

\* The operations that read the salaries S and open a transaction on them.
LEMMA BeginStep ==
  ASSUME IInv, NumRequests \in Nat, NEW r \in Requests,
         NEW op \in {"generate", "items", "status", "delete", "pay"},
         NEW S \in SUBSET Employees, NEW value \in [S -> Record],
         Arrives(r), UNCHANGED <<records, expenses, stale>>,
         req' = [req EXCEPT ![r] =
           [@ EXCEPT !.pc = "open", !.op = op,
                     !.snap = [x \in Employees |-> IF x \in S THEN records[x] ELSE NoRecord],
                     !.plan = [x \in Employees |-> IF x \in S THEN value[x] ELSE NoRecord]]],
         \A x \in S : Legit(r, x, op, records[x], value[x])
  PROVE  IInv'
<1> DEFINE snap == [x \in Employees |-> IF x \in S THEN records[x] ELSE NoRecord]
           plan == [x \in Employees |-> IF x \in S THEN value[x] ELSE NoRecord]
           new == [req[r] EXCEPT !.pc = "open", !.op = op, !.snap = snap, !.plan = plan]
<1>1. snap \in [Employees -> Record] /\ plan \in [Employees -> Record]
  BY NoRecordFacts DEF IInv, TypeOK
<1>2. \A x \in Employees :
        /\ plan[x] # snap[x] => Legit(r, x, op, snap[x], plan[x])
        /\ Own(x, snap[x]) /\ Own(x, plan[x])
  <2> SUFFICES ASSUME NEW x \in Employees
               PROVE  /\ plan[x] # snap[x] => Legit(r, x, op, snap[x], plan[x])
                      /\ Own(x, snap[x]) /\ Own(x, plan[x])
    OBVIOUS
  <2>1. CASE x \notin S
    BY <2>1, NoRecordFacts DEF Own
  <2>2. CASE x \in S
    <3>1. Own(x, records[x]) /\ Legit(r, x, op, records[x], value[x])
      BY <2>2 DEF IInv, ExpensesAreOwn
    <3>2. Own(x, value[x])
      BY <3>1 DEF Legit, Own
    <3> QED BY <2>2, <3>1, <3>2
  <2> QED BY <2>1, <2>2
<1> HIDE DEF snap, plan
<1>3. /\ new \in Request /\ new.pc = "open" /\ new.op = op /\ new.todo = {}
      /\ new.snap = snap /\ new.plan = plan
  <2>1. req[r] \in Request /\ req[r].todo = {}
    BY DEF IInv, TypeOK, PlansAreLegit, Arrives, Idle
  <2> QED BY <1>1, <2>1 DEF Request
<1>4. req' = [req EXCEPT ![r] = new]
  BY DEF snap, plan
<1> HIDE DEF new
<1> QED BY <1>2, <1>3, <1>4, RequestStep

\* What the operations make of a record.
LEMMA RecomputedIsLegit ==
  ASSUME NumRequests \in Nat, NEW r \in Requests, NEW x \in Employees, NEW rec \in Record,
         NEW I \in SUBSET Items, rec.status # "none", ~ Locked(rec)
  PROVE  /\ Recomputed(rec, I) \in Record
         /\ Legit(r, x, "items", rec, Recomputed(rec, I))
<1> DEFINE new == Recomputed(rec, I)
<1>1. /\ new \in Record /\ new.net = Cardinality(new.items)
      /\ new.status = rec.status /\ new.expense = rec.expense
  BY ItemsAreFinite DEF Recomputed, Record
<1> HIDE DEF new
<1>2. Legit(r, x, "items", rec, new)
  BY <1>1 DEF Legit, Locked
<1> QED BY <1>1, <1>2 DEF new

LEMMA GeneratedIsLegit ==
  ASSUME NumRequests \in Nat, NEW r \in Requests, NEW x \in Employees, NEW rec \in Record,
         NEW e \in BOOLEAN, rec.status = "none"
  PROVE  Generated(r, e) \in Record /\ Legit(r, x, "generate", rec, Generated(r, e))
<1> DEFINE draft == [NoRecord EXCEPT !.id = r, !.status = "draft"]
           auto == {i \in draft.items : ~ i.auto}
                     \cup (IF e THEN {[by |-> r, auto |-> TRUE]} ELSE {})
           new == Recomputed(draft, auto)
<1>r. r \in 0 .. NumRequests
  BY DEF Requests
<1>1. draft \in Record /\ draft.status = "draft" /\ draft.expense = None
  BY <1>r, NoRecordFacts DEF NoRecord, Record, Statuses
<1>2. auto \in SUBSET Items
  <2>1. [by |-> r, auto |-> TRUE] \in Items
    BY <1>r DEF Items
  <2>2. draft.items \subseteq Items
    BY <1>1 DEF Record
  <2> QED BY <2>1, <2>2
<1> HIDE DEF draft, auto
<1>3. /\ new \in Record /\ new.net = Cardinality(new.items)
      /\ new.status = "draft" /\ new.expense = None
  BY <1>1, <1>2, ItemsAreFinite DEF Recomputed, Record
<1> HIDE DEF new
<1>4. Legit(r, x, "generate", rec, new)
  BY <1>3 DEF Legit
<1>5. Generated(r, e) = new
  BY DEF Generated, Rebuilt, new, draft, auto
<1> QED BY <1>3, <1>4, <1>5

LEMMA StatusIsLegit ==
  ASSUME NumRequests \in Nat, NEW r \in Requests, NEW x \in Employees, NEW rec \in Record,
         NEW s \in {"approved", "cancelled"}, rec.status \notin {"none", "paid"}
  PROVE  /\ [rec EXCEPT !.status = s] \in Record
         /\ Legit(r, x, "status", rec, [rec EXCEPT !.status = s])
<1> DEFINE new == [rec EXCEPT !.status = s]
<1>1. /\ new \in Record /\ new.net = rec.net /\ new.items = rec.items
      /\ new.status = s /\ new.expense = rec.expense
  BY DEF Record, Statuses
<1> HIDE DEF new
<1>2. Legit(r, x, "status", rec, new)
  BY <1>1 DEF Legit
<1> QED BY <1>1, <1>2 DEF new

LEMMA DeletedIsLegit ==
  ASSUME NumRequests \in Nat, NEW r \in Requests, NEW x \in Employees, NEW rec \in Record,
         rec.status # "none"
  PROVE  Legit(r, x, "delete", rec, NoRecord)
BY NoRecordFacts DEF Legit

LEMMA PostedIsLegit ==
  ASSUME NumRequests \in Nat, NEW r \in Requests, NEW x \in Employees, NEW rec \in Record,
         NEW op, rec.status = "approved"
  PROVE  Posted(r, x, rec) \in Record /\ Legit(r, x, op, rec, Posted(r, x, rec))
<1> DEFINE new == Posted(r, x, rec)
<1>1. <<r, x>> \in Expenses
  BY DEF Expenses
<1>2. /\ new \in Record /\ new.net = rec.net /\ new.items = rec.items /\ new.status = "paid"
      /\ new.expense = IF rec.expense = None THEN <<r, x>> ELSE rec.expense
  BY <1>1 DEF Posted, Record, Statuses
<1> HIDE DEF new
<1>3. Legit(r, x, op, rec, new)
  BY <1>2 DEF Legit
<1> QED BY <1>2, <1>3 DEF new

LEMMA UnpostedIsLegit ==
  ASSUME NumRequests \in Nat, NEW r \in Requests, NEW x \in Employees, NEW rec \in Record
  PROVE  Unposted(rec) \in Record /\ Legit(r, x, "unpay", rec, Unposted(rec))
<1> DEFINE new == Unposted(rec)
<1>1. /\ new \in Record /\ new.net = rec.net /\ new.items = rec.items
      /\ new.status = "approved" /\ new.expense = None
  BY DEF Unposted, Record, Statuses
<1> HIDE DEF new
<1>2. Legit(r, x, "unpay", rec, new)
  BY <1>1 DEF Legit
<1> QED BY <1>1, <1>2 DEF new
-----------------------------------------------------------------------------
(* The steps of the office's requests. *)

LEMMA GenerateStep ==
  ASSUME IInv, NumRequests \in Nat, NEW r \in Requests, NEW e \in BOOLEAN, GeneratePayroll(r, e)
  PROVE  IInv'
<1> DEFINE S == With({"none"})
           value == [x \in S |-> Generated(r, e)]
<1>1. S \in SUBSET Employees /\ \A x \in S : records[x] \in Record /\ records[x].status = "none"
  BY DEF With, IInv, TypeOK
<1>2. \A x \in S : Generated(r, e) \in Record /\ Legit(r, x, "generate", records[x], Generated(r, e))
  BY <1>1, GeneratedIsLegit
<1>3. value \in [S -> Record] /\ \A x \in S : Legit(r, x, "generate", records[x], value[x])
  BY <1>2
<1>4. /\ Arrives(r) /\ UNCHANGED <<records, expenses, stale>>
      /\ req' = [req EXCEPT ![r] =
           [@ EXCEPT !.pc = "open", !.op = "generate",
                     !.snap = [x \in Employees |-> IF x \in S THEN records[x] ELSE NoRecord],
                     !.plan = [x \in Employees |-> IF x \in S THEN value[x] ELSE NoRecord]]]
  BY DEF GeneratePayroll, Begin
<1> HIDE DEF S, value
<1> QED BY <1>1, <1>3, <1>4, BeginStep

\* The operations on the items of one salary.
LEMMA ItemsStep ==
  ASSUME IInv, NumRequests \in Nat, NEW r \in Requests, NEW x \in Employees,
         NEW I \in SUBSET Items, Editable(x),
         Begin(r, "items", {x}, LAMBDA y : Recomputed(records[x], I))
  PROVE  IInv'
<1> DEFINE value == [y \in {x} |-> Recomputed(records[x], I)]
<1>1. /\ Recomputed(records[x], I) \in Record
      /\ Legit(r, x, "items", records[x], Recomputed(records[x], I))
  BY RecomputedIsLegit DEF Editable, IInv, TypeOK
<1>2. value \in [{x} -> Record] /\ \A y \in {x} : Legit(r, y, "items", records[y], value[y])
  BY <1>1
<1>3. /\ Arrives(r) /\ UNCHANGED <<records, expenses, stale>>
      /\ req' = [req EXCEPT ![r] =
           [@ EXCEPT !.pc = "open", !.op = "items",
                     !.snap = [y \in Employees |-> IF y \in {x} THEN records[y] ELSE NoRecord],
                     !.plan = [y \in Employees |-> IF y \in {x} THEN value[y] ELSE NoRecord]]]
  BY DEF Begin
<1> HIDE DEF value
<1> QED BY <1>2, <1>3, BeginStep

LEMMA AddItemStep ==
  ASSUME IInv, NumRequests \in Nat, NEW r \in Requests, NEW x \in Employees, AddItem(r, x)
  PROVE  IInv'
<1> DEFINE I == records[x].items \cup {[by |-> r, auto |-> FALSE]}
<1>1. I \in SUBSET Items
  <2>1. [by |-> r, auto |-> FALSE] \in Items
    BY DEF Items, Requests
  <2> QED BY <2>1 DEF IInv, TypeOK, Record
<1> QED BY <1>1, ItemsStep DEF AddItem

LEMMA DeleteItemStep ==
  ASSUME IInv, NumRequests \in Nat, NEW r \in Requests, NEW x \in Employees, DeleteItem(r, x)
  PROVE  IInv'
<1>1. PICK i \in records[x].items :
        Begin(r, "items", {x}, LAMBDA y : Recomputed(records[x], records[x].items \ {i}))
  BY DEF DeleteItem
<1>2. records[x].items \ {i} \in SUBSET Items
  BY DEF IInv, TypeOK, Record
<1> QED BY <1>1, <1>2, ItemsStep DEF DeleteItem

LEMMA RecalculateStep ==
  ASSUME IInv, NumRequests \in Nat, NEW r \in Requests, NEW x \in Employees, NEW e \in BOOLEAN,
         Recalculate(r, x, e)
  PROVE  IInv'
<1> DEFINE I == {i \in records[x].items : ~ i.auto}
                  \cup (IF e THEN {[by |-> r, auto |-> TRUE]} ELSE {})
<1>1. I \in SUBSET Items
  <2>1. [by |-> r, auto |-> TRUE] \in Items
    BY DEF Items, Requests
  <2> QED BY <2>1 DEF IInv, TypeOK, Record
<1> QED BY <1>1, ItemsStep DEF Recalculate, Rebuilt

LEMMA StatusStep ==
  ASSUME IInv, NumRequests \in Nat, NEW r \in Requests, NEW S \in SUBSET Employees,
         NEW s \in {"approved", "cancelled"},
         \A x \in S : records[x].status \notin {"none", "paid"},
         Begin(r, "status", S, LAMBDA x : [records[x] EXCEPT !.status = s])
  PROVE  IInv'
<1> DEFINE value == [x \in S |-> [records[x] EXCEPT !.status = s]]
<1>1. \A x \in S : /\ [records[x] EXCEPT !.status = s] \in Record
                   /\ Legit(r, x, "status", records[x], [records[x] EXCEPT !.status = s])
  BY StatusIsLegit DEF IInv, TypeOK
<1>2. value \in [S -> Record] /\ \A x \in S : Legit(r, x, "status", records[x], value[x])
  BY <1>1
<1>3. /\ Arrives(r) /\ UNCHANGED <<records, expenses, stale>>
      /\ req' = [req EXCEPT ![r] =
           [@ EXCEPT !.pc = "open", !.op = "status",
                     !.snap = [x \in Employees |-> IF x \in S THEN records[x] ELSE NoRecord],
                     !.plan = [x \in Employees |-> IF x \in S THEN value[x] ELSE NoRecord]]]
  BY DEF Begin
<1> HIDE DEF value
<1> QED BY <1>2, <1>3, BeginStep

LEMMA ApproveStep ==
  ASSUME IInv, NumRequests \in Nat, NEW r \in Requests, NEW S \in SUBSET Employees,
         ApproveThese(r, S)
  PROVE  IInv'
<1>1. \A x \in S \cap With({"draft"}) : records[x].status \notin {"none", "paid"}
  BY DEF With
<1> QED BY <1>1, StatusStep DEF ApproveThese

LEMMA CancelStep ==
  ASSUME IInv, NumRequests \in Nat, NEW r \in Requests, NEW x \in Employees, Cancel(r, x)
  PROVE  IInv'
<1>1. \A y \in {x} \cap With({"draft", "approved"}) : records[y].status \notin {"none", "paid"}
  BY DEF With
<1> QED BY <1>1, StatusStep DEF Cancel

LEMMA DeleteStep ==
  ASSUME IInv, NumRequests \in Nat, NEW r \in Requests, NEW x \in Employees, DeleteRecord(r, x)
  PROVE  IInv'
<1> DEFINE S == {x} \cap With({"draft", "cancelled"})
           value == [y \in S |-> NoRecord]
<1>1. S \in SUBSET Employees /\ \A y \in S : records[y] \in Record /\ records[y].status # "none"
  BY DEF With, IInv, TypeOK
<1>2. \A y \in S : Legit(r, y, "delete", records[y], NoRecord)
  BY <1>1, DeletedIsLegit
<1>3. value \in [S -> Record] /\ \A y \in S : Legit(r, y, "delete", records[y], value[y])
  BY <1>2, NoRecordFacts
<1>4. /\ Arrives(r) /\ UNCHANGED <<records, expenses, stale>>
      /\ req' = [req EXCEPT ![r] =
           [@ EXCEPT !.pc = "open", !.op = "delete",
                     !.snap = [y \in Employees |-> IF y \in S THEN records[y] ELSE NoRecord],
                     !.plan = [y \in Employees |-> IF y \in S THEN value[y] ELSE NoRecord]]]
  BY DEF DeleteRecord, Begin
<1> HIDE DEF S, value
<1> QED BY <1>1, <1>3, <1>4, BeginStep

LEMMA MarkPaidStep ==
  ASSUME IInv, NumRequests \in Nat, NEW r \in Requests, NEW x \in Employees, MarkPaid(r, x)
  PROVE  IInv'
<1> DEFINE S == {x} \cap With({"approved"})
           value == [y \in S |-> Posted(r, y, records[y])]
<1>1. S \in SUBSET Employees /\ \A y \in S : records[y] \in Record /\ records[y].status = "approved"
  BY DEF With, IInv, TypeOK
<1>2. \A y \in S : /\ Posted(r, y, records[y]) \in Record
                   /\ Legit(r, y, "pay", records[y], Posted(r, y, records[y]))
  BY <1>1, PostedIsLegit
<1>3. value \in [S -> Record] /\ \A y \in S : Legit(r, y, "pay", records[y], value[y])
  BY <1>2
<1>4. /\ Arrives(r) /\ UNCHANGED <<records, expenses, stale>>
      /\ req' = [req EXCEPT ![r] =
           [@ EXCEPT !.pc = "open", !.op = "pay",
                     !.snap = [y \in Employees |-> IF y \in S THEN records[y] ELSE NoRecord],
                     !.plan = [y \in Employees |-> IF y \in S THEN value[y] ELSE NoRecord]]]
  BY DEF MarkPaid, Begin
<1> HIDE DEF S, value
<1> QED BY <1>1, <1>3, <1>4, BeginStep

LEMMA PayAllStep ==
  ASSUME IInv, NumRequests \in Nat, NEW r \in Requests, PayAll(r)
  PROVE  IInv'
<1> DEFINE new == [req[r] EXCEPT !.pc = "payall", !.op = "payall",
                                 !.todo = With({"approved"}), !.snap = records]
<1>1. req[r] = Idle /\ Idle \in Request
  BY DEF PayAll, Arrives, IInv, PlansAreLegit, TypeOK
<1>2. /\ new \in Request /\ new.pc = "payall" /\ new.op = "payall"
      /\ new.todo = With({"approved"}) /\ new.snap = records /\ new.plan = Idle.plan
  BY <1>1 DEF Request, With, IInv, TypeOK
<1>3. req' = [req EXCEPT ![r] = new] /\ UNCHANGED <<records, expenses, stale>>
  BY DEF PayAll
<1>4. \A x \in new.todo : new.snap[x].status = "approved"
  BY <1>2 DEF With
<1>5. \A x \in Employees : Own(x, new.snap[x]) /\ Own(x, new.plan[x])
  BY <1>2, NoRecordFacts DEF Idle, Own, IInv, ExpensesAreOwn
<1> HIDE DEF new
<1> QED BY <1>2, <1>3, <1>4, <1>5, RequestStep

LEMMA DoneFacts ==
  ASSUME NumRequests \in Nat
  PROVE  /\ Done \in Request /\ Done.pc = "done" /\ Done.todo = {} /\ Done.op = "none"
         /\ \A x \in Employees : Done.snap[x] = NoRecord /\ Done.plan[x] = NoRecord
BY NoRecordFacts DEF Done, Idle, Request

LEMMA DoneStep ==
  ASSUME IInv, NumRequests \in Nat, NEW r \in Requests, req' = [req EXCEPT ![r] = Done],
         UNCHANGED <<records, expenses, stale>>
  PROVE  IInv'
<1>1. \A x \in Employees : Own(x, Done.snap[x]) /\ Own(x, Done.plan[x])
  BY DoneFacts, NoRecordFacts DEF Own
<1> QED BY <1>1, DoneFacts, RequestStep

LEMMA FailStep ==
  ASSUME IInv, NumRequests \in Nat, NEW r \in Requests, Fail(r)
  PROVE  IInv'
BY DoneStep DEF Fail

LEMMA PayNextStep ==
  ASSUME IInv, NumRequests \in Nat, NEW r \in Requests, PayNext(r)
  PROVE  IInv'
<1> DEFINE Rec(x) == IF req[r].first THEN req[r].snap[x]
                     ELSE [records[x] EXCEPT !.status = "approved"]
           plan(x) == [y \in Employees |->
                        IF y = x THEN Posted(r, x, Rec(x)) ELSE req[r].snap[y]]
           New(x) == [req[r] EXCEPT !.pc = "open", !.todo = @ \ {x}, !.snap[x] = Rec(x),
                                    !.plan = plan(x)]
<1>1. req[r] \in Request /\ records \in [Employees -> Record]
  BY DEF IInv, TypeOK
<1>2. PICK x \in req[r].todo :
        req' = [req EXCEPT ![r] = Done] \/ req' = [req EXCEPT ![r] = New(x)]
  <2> DEFINE gone(x) == ~ req[r].first /\ (records[x].status = "none"
                                             \/ records[x].id # req[r].snap[x].id)
  <2>1. PICK x \in req[r].todo : req' = [req EXCEPT ![r] = IF gone(x) THEN Done ELSE New(x)]
    BY Zenon DEF PayNext
  <2> HIDE DEF gone, New
  <2> QED BY <2>1
<1>3. x \in Employees
  BY <1>1 DEF Request
<1>4. CASE req' = [req EXCEPT ![r] = Done]
  BY <1>4, DoneStep DEF PayNext
<1>5. CASE req' = [req EXCEPT ![r] = New(x)]
  <2>1. Rec(x) \in Record /\ Rec(x).status = "approved" /\ Own(x, Rec(x))
    <3>1. CASE req[r].first
      BY <1>1, <1>3, <3>1 DEF IInv, TodoIsApproved, ExpensesAreOwn, Request
    <3>2. CASE ~ req[r].first
      <4>1. Own(x, records[x])
        BY <1>3 DEF IInv, ExpensesAreOwn
      <4>2. /\ [records[x] EXCEPT !.status = "approved"] \in Record
            /\ [records[x] EXCEPT !.status = "approved"].status = "approved"
            /\ [records[x] EXCEPT !.status = "approved"].expense = records[x].expense
        BY <1>1, <1>3 DEF Record, Statuses
      <4> QED BY <3>2, <4>1, <4>2 DEF Own
    <3> QED BY <3>1, <3>2
  <2> HIDE DEF Rec
  <2>2. /\ Posted(r, x, Rec(x)) \in Record
        /\ \A op : Legit(r, x, op, Rec(x), Posted(r, x, Rec(x)))
    BY <1>3, <2>1, PostedIsLegit
  <2>3. Own(x, Posted(r, x, Rec(x)))
    BY <2>1, <2>2 DEF Legit, Own
  <2>4. plan(x) \in [Employees -> Record]
    BY <1>1, <2>2 DEF Request
  <2>5. plan(x)[x] = Posted(r, x, Rec(x)) /\ \A y \in Employees \ {x} : plan(x)[y] = req[r].snap[y]
    BY <1>3
  <2> HIDE DEF plan
  <2>6. /\ New(x) \in Request /\ New(x).pc = "open" /\ New(x).op = req[r].op
        /\ New(x).todo = req[r].todo \ {x} /\ New(x).plan = plan(x)
        /\ New(x).snap = [req[r].snap EXCEPT ![x] = Rec(x)]
    BY <1>1, <2>1, <2>4 DEF Request
  <2>7. New(x).snap[x] = Rec(x) /\ \A y \in Employees \ {x} : New(x).snap[y] = req[r].snap[y]
    BY <1>1, <1>3, <2>6 DEF Request
  <2> HIDE DEF New
  <2>8. \A y \in Employees : New(x).plan[y] # New(x).snap[y] =>
          Legit(r, y, New(x).op, New(x).snap[y], New(x).plan[y])
    BY <2>2, <2>5, <2>6, <2>7
  <2>9. New(x).op # "payall" => New(x).todo = {}
    BY <2>6 DEF IInv, PlansAreLegit
  <2>10. \A y \in New(x).todo : New(x).snap[y].status = "approved"
    BY <1>1, <2>6, <2>7 DEF IInv, TodoIsApproved, Request
  <2>11. \A y \in Employees : Own(y, New(x).snap[y]) /\ Own(y, New(x).plan[y])
    BY <2>1, <2>3, <2>5, <2>6, <2>7 DEF IInv, ExpensesAreOwn
  <2>12. UNCHANGED <<records, expenses, stale>>
    BY DEF PayNext
  <2> QED BY <1>5, <2>6, <2>8, <2>9, <2>10, <2>11, <2>12, RequestStep
<1> QED BY <1>2, <1>4, <1>5

LEMMA UnpayStep ==
  ASSUME IInv, NumRequests \in Nat, NEW r \in Requests, NEW x \in Employees, Unpay(r, x)
  PROVE  IInv'
<1> DEFINE new == [req[r] EXCEPT !.pc = IF records[x].expense = None THEN "open" ELSE "unpost",
                                 !.op = "unpay", !.snap[x] = records[x],
                                 !.plan[x] = Unposted(records[x])]
<1>1. /\ req[r] = Idle /\ Idle \in Request /\ Idle.todo = {} /\ records[x] \in Record
      /\ \A y \in Employees : Idle.snap[y] = NoRecord /\ Idle.plan[y] = NoRecord
  BY DEF Unpay, Arrives, IInv, PlansAreLegit, TypeOK, Idle
<1>2. Unposted(records[x]) \in Record /\ Legit(r, x, "unpay", records[x], Unposted(records[x]))
  BY <1>1, UnpostedIsLegit
<1>3. /\ new \in Request /\ new.pc # "idle" /\ new.op = "unpay" /\ new.todo = {}
      /\ new.snap = [Idle.snap EXCEPT ![x] = records[x]]
      /\ new.plan = [Idle.plan EXCEPT ![x] = Unposted(records[x])]
  BY <1>1, <1>2 DEF Request
<1>4. /\ new.snap[x] = records[x] /\ new.plan[x] = Unposted(records[x])
      /\ \A y \in Employees \ {x} : new.snap[y] = NoRecord /\ new.plan[y] = NoRecord
  BY <1>1, <1>3 DEF Request
<1>5. req' = [req EXCEPT ![r] = new] /\ UNCHANGED <<records, expenses, stale>>
  BY DEF Unpay
<1> HIDE DEF new
<1>6. \A y \in Employees : new.plan[y] # new.snap[y] => Legit(r, y, new.op, new.snap[y], new.plan[y])
  BY <1>2, <1>3, <1>4
<1>7. \A y \in Employees : Own(y, new.snap[y]) /\ Own(y, new.plan[y])
  BY <1>2, <1>4, NoRecordFacts DEF Legit, Own, IInv, ExpensesAreOwn
<1> QED BY <1>3, <1>5, <1>6, <1>7, RequestStep

\* The expense that is deleted is that of no record.
LEMMA UnpostStep ==
  ASSUME IInv, NumRequests \in Nat, NEW r \in Requests, UnpostSalaryExpense(r)
  PROVE  IInv'
<1> DEFINE new == [req[r] EXCEPT !.pc = "open"]
<1>1. /\ req[r] \in Request /\ req[r].pc = "unpost" /\ req' = [req EXCEPT ![r] = new]
      /\ UNCHANGED <<records, stale>>
  BY DEF UnpostSalaryExpense, IInv, TypeOK
<1>2. /\ new \in Request /\ new.pc = "open" /\ new.op = req[r].op /\ new.todo = req[r].todo
      /\ new.snap = req[r].snap /\ new.plan = req[r].plan
  BY <1>1 DEF Request
<1> HIDE DEF new
<1>3. req'[r] = new /\ \A q \in Requests \ {r} : req'[q] = req[q]
  BY <1>1 DEF IInv, TypeOK
<1>4. /\ expenses' \in [Expenses -> Nat \cup {-1}]
      /\ \A y \in Employees : records[y].expense # None =>
           expenses'[records[y].expense] = expenses[records[y].expense]
  <2>1. expenses' = expenses \/ \E e \in Expenses :
          /\ \A y \in Employees : records[y].expense # e
          /\ expenses' = [expenses EXCEPT ![e] = -1]
    <3>1. PICK x \in Employees :
            LET e == req[r].snap[x].expense
            IN  /\ e # None
                /\ expenses' = IF \E y \in Employees : records[y].expense = e THEN expenses
                               ELSE [expenses EXCEPT ![e] = -1]
      BY DEF UnpostSalaryExpense
    <3>2. req[r].snap[x].expense \in Expenses
      BY <1>1, <3>1 DEF Request, Record
    <3> QED BY <3>1, <3>2
  <2>2. \A y \in Employees : records[y].expense # None => records[y].expense \in Expenses
    BY DEF IInv, TypeOK, Record
  <2> QED BY <2>1, <2>2 DEF IInv, TypeOK
<1>5. TypeOK'
  BY <1>1, <1>2, <1>4 DEF IInv, TypeOK
<1>6. PlansAreLegit'
  BY <1>1, <1>2, <1>3 DEF IInv, PlansAreLegit
<1>7. TodoIsApproved' /\ ExpensesAreOwn'
  BY <1>1, <1>2, <1>3 DEF IInv, TodoIsApproved, ExpensesAreOwn
<1>8. PaidIsInTheLedger'
  BY <1>1, <1>4 DEF IInv, PaidIsInTheLedger
<1> QED BY <1>5, <1>6, <1>7, <1>8 DEF IInv
-----------------------------------------------------------------------------
(* What a commit writes. *)

LEMMA SetKeeps ==
  /\ \A T, now, old, new : now \in T /\ new \in T => Set(now, old, new) \in T
  /\ \A now, old, new : now = old => Set(now, old, new) = new
  /\ \A now, old : Set(now, old, old) = now
BY DEF Set

\* Columns that were not changed stay what another transaction made of them.
LEMMA WrittenFacts ==
  ASSUME NumRequests \in Nat, NEW now \in Record, NEW s \in Record, NEW p \in Record
  PROVE  /\ Written(now, s, p) \in Record
         /\ p = s => Written(now, s, p) = now
         /\ Written(now, s, p).expense \in {now.expense, p.expense, None}
         /\ p.status = "none" => Written(now, s, p) \in {NoRecord, now}
<1> DEFINE items == (now.items \ (s.items \ p.items)) \cup (p.items \ s.items)
           new == [id      |-> Set(now.id, s.id, p.id),
                   status  |-> Set(now.status, s.status, p.status),
                   items   |-> items,
                   net     |-> Set(now.net, s.net, p.net),
                   expense |-> Set(now.expense, s.expense, p.expense)]
<1>1. CASE p = s
  <2>1. Written(now, s, p) = now
    BY <1>1 DEF Written
  <2> QED BY <1>1, <2>1
<1>2. CASE p # s /\ p.status = "none"
  <2>1. Written(now, s, p) = IF now.id = s.id /\ now.status # "none" THEN NoRecord ELSE now
    BY <1>2 DEF Written
  <2> QED BY <1>2, <2>1, NoRecordFacts
<1>3. CASE p # s /\ p.status # "none"
  <2>1. Written(now, s, p) = new
    BY <1>3 DEF Written
  <2>2. items \in SUBSET Items
    BY DEF Record
  <2>3. /\ now.id \in 0 .. NumRequests /\ p.id \in 0 .. NumRequests
        /\ now.status \in Statuses /\ p.status \in Statuses
        /\ now.net \in Nat /\ p.net \in Nat
        /\ now.expense \in Expenses \cup {None} /\ p.expense \in Expenses \cup {None}
    BY DEF Record
  <2> HIDE DEF items
  <2>4. new \in Record
    BY <2>2, <2>3, SetKeeps DEF Record
  <2>5. new.expense \in {now.expense, p.expense}
    BY DEF Set
  <2> HIDE DEF new
  <2> QED BY <1>3, <2>1, <2>4, <2>5
<1> QED BY <1>1, <1>2, <1>3

LEMMA WrittenNet ==
  ASSUME NEW now, NEW s, NEW p, p.status # "none", p.net = s.net
  PROVE  Written(now, s, p).net = now.net
BY DEF Written, Set

\* What nobody has changed since it was read becomes what was planned.
LEMMA WrittenIsPlan ==
  ASSUME NEW s \in Record, NEW p \in Record,
         p.status = "none" => p = NoRecord /\ s.status # "none"
  PROVE  Written(s, s, p) = p
<1>1. CASE p = s
  BY <1>1 DEF Written
<1>2. CASE p # s /\ p.status = "none"
  BY <1>2 DEF Written
<1>3. CASE p # s /\ p.status # "none"
  <2> DEFINE items == (s.items \ (s.items \ p.items)) \cup (p.items \ s.items)
  <2>1. Written(s, s, p) =
          [id |-> Set(s.id, s.id, p.id), status |-> Set(s.status, s.status, p.status),
           items |-> items, net |-> Set(s.net, s.net, p.net),
           expense |-> Set(s.expense, s.expense, p.expense)]
    BY <1>3 DEF Written
  <2>2. items = p.items
    OBVIOUS
  <2>3. p = [id |-> p.id, status |-> p.status, items |-> p.items, net |-> p.net,
             expense |-> p.expense]
    BY DEF Record
  <2> HIDE DEF items
  <2> QED BY <2>1, <2>2, <2>3, SetKeeps
<1> QED BY <1>1, <1>2, <1>3

\* A commit in terms of what it does to the salary x.
LEMMA CommitFacts ==
  ASSUME IInv, NumRequests \in Nat, NEW r \in Requests, Commit(r), NEW x \in Employees
  PROVE  /\ records[x] \in Record /\ req[r].snap[x] \in Record /\ req[r].plan[x] \in Record
         /\ records'[x] = Written(records[x], req[r].snap[x], req[r].plan[x])
         /\ req[r].plan[x] # req[r].snap[x] =>
              Legit(r, x, req[r].op, req[r].snap[x], req[r].plan[x])
         /\ expenses'[<<r, x>>] = IF Created(r, x) THEN req[r].snap[x].net
                                  ELSE expenses[<<r, x>>]
         /\ \A q \in Requests \ {r} : expenses'[<<q, x>>] = expenses[<<q, x>>]
         /\ stale'[x] = (stale[x] \/ (req[r].plan[x] # req[r].snap[x]
                                        /\ req[r].snap[x] # records[x]))
<1>1. req[r] \in Request /\ records \in [Employees -> Record] /\ req[r].pc = "open"
  BY DEF IInv, TypeOK, Commit
<1>2. \A q \in Requests : <<q, x>> \in Expenses
  BY DEF Expenses
<1>3. \A q \in Requests : expenses'[<<q, x>>] =
        IF <<q, x>>[1] = r /\ Created(r, <<q, x>>[2]) THEN req[r].snap[<<q, x>>[2]].net
        ELSE expenses[<<q, x>>]
  BY <1>2 DEF Commit
<1>4. \A q \in Requests : expenses'[<<q, x>>] =
        IF q = r /\ Created(r, x) THEN req[r].snap[x].net ELSE expenses[<<q, x>>]
  BY <1>3
<1>5. stale'[x] = (stale[x] \/ (x \in Touched(r) /\ req[r].snap[x] # records[x]))
  BY DEF Commit
<1>6. x \in Touched(r) <=> req[r].plan[x] # req[r].snap[x]
  BY DEF Touched
<1>7. records'[x] = Written(records[x], req[r].snap[x], req[r].plan[x])
  BY DEF Commit
<1> QED BY <1>1, <1>4, <1>5, <1>6, <1>7 DEF Request, IInv, PlansAreLegit

LEMMA CommitStep ==
  ASSUME IInv, NumRequests \in Nat, NEW r \in Requests, Commit(r)
  PROVE  IInv'
<1>1. /\ req[r] \in Request /\ records \in [Employees -> Record] /\ req[r].pc = "open"
      /\ req' = [req EXCEPT ![r] = After(r)]
  BY DEF IInv, TypeOK, Commit
<1>2. /\ After(r) \in Request /\ After(r).pc \in {"done", "payall"}
      /\ After(r).op # "payall" => After(r).todo = {}
      /\ \A x \in After(r).todo : After(r).snap[x].status = "approved"
      /\ \A x \in Employees : Own(x, After(r).snap[x]) /\ Own(x, After(r).plan[x])
  <2>1. CASE req[r].todo = {}
    <3>1. After(r) = Done
      BY <2>1 DEF After
    <3> QED BY <3>1, DoneFacts, NoRecordFacts DEF Own
  <2>2. CASE req[r].todo # {}
    <3>1. /\ After(r) \in Request /\ After(r).pc = "payall" /\ After(r).op = req[r].op
          /\ After(r).todo = req[r].todo /\ After(r).snap = req[r].snap
          /\ After(r).plan = req[r].plan
      BY <1>1, <2>2 DEF After, Request
    <3>2. \A x \in req[r].todo : x \in Employees
      BY <1>1 DEF Request
    <3> QED BY <3>1, <3>2 DEF IInv, PlansAreLegit, TodoIsApproved, ExpensesAreOwn
  <2> QED BY <2>1, <2>2
<1>3. req'[r] = After(r) /\ \A q \in Requests \ {r} : req'[q] = req[q]
  BY <1>1 DEF IInv, TypeOK
<1>4. TypeOK'
  <2>1. records' \in [Employees -> Record]
    <3>1. \A x \in Employees : Written(records[x], req[r].snap[x], req[r].plan[x]) \in Record
      BY CommitFacts, WrittenFacts
    <3> QED BY <3>1 DEF Commit
  <2>2. expenses' \in [Expenses -> Nat \cup {-1}]
    <3>1. \A e \in Expenses : e[2] \in Employees /\ expenses[e] \in Nat \cup {-1}
      BY DEF Expenses, IInv, TypeOK
    <3>2. \A e \in Expenses : req[r].snap[e[2]].net \in Nat
      BY <3>1, CommitFacts DEF Record
    <3> QED BY <3>1, <3>2 DEF Commit
  <2>3. req' \in [Requests -> Request]
    BY <1>1, <1>2 DEF IInv, TypeOK
  <2>4. stale' \in [Employees -> BOOLEAN]
    BY DEF Commit, IInv, TypeOK
  <2> QED BY <2>1, <2>2, <2>3, <2>4 DEF TypeOK
<1>5. PlansAreLegit'
  BY <1>2, <1>3 DEF IInv, PlansAreLegit
<1>6. TodoIsApproved'
  BY <1>2, <1>3 DEF IInv, TodoIsApproved
<1>7. ExpensesAreOwn'
  <2>1. ASSUME NEW x \in Employees PROVE Own(x, records'[x])
    <3>1. /\ records'[x].expense \in {records[x].expense, req[r].plan[x].expense, None}
      BY CommitFacts, WrittenFacts
    <3>2. Own(x, records[x]) /\ Own(x, req[r].plan[x])
      BY DEF IInv, ExpensesAreOwn
    <3> QED BY <3>1, <3>2 DEF Own
  <2>2. \A x \in Employees, q \in Requests : Own(x, req'[q].snap[x]) /\ Own(x, req'[q].plan[x])
    BY <1>2, <1>3 DEF IInv, ExpensesAreOwn
  <2> QED BY <2>1, <2>2 DEF ExpensesAreOwn, Own
<1>8. PaidIsInTheLedger'
  <2> SUFFICES ASSUME NEW x \in Employees, ~ stale'[x]
               PROVE  /\ records'[x].net = Cardinality(records'[x].items)
                      /\ IF records'[x].status = "paid"
                         THEN /\ records'[x].expense # None
                              /\ expenses'[records'[x].expense] = records'[x].net
                         ELSE records'[x].expense = None
    BY DEF PaidIsInTheLedger
  <2> DEFINE s == req[r].snap[x]
             p == req[r].plan[x]
  <2>1. ~ stale[x] /\ (p # s => s = records[x])
    BY CommitFacts
  <2>2. /\ records[x].net = Cardinality(records[x].items)
        /\ IF records[x].status = "paid"
           THEN records[x].expense # None /\ expenses[records[x].expense] = records[x].net
           ELSE records[x].expense = None
    BY <2>1 DEF IInv, PaidIsInTheLedger
  <2>3. CASE p = s
    <3>1. records'[x] = records[x]
      BY <2>3, CommitFacts, WrittenFacts
    <3>2. ~ Created(r, x)
      BY <2>3 DEF Created
    <3>3. records[x].expense # None => expenses'[records[x].expense] = expenses[records[x].expense]
      <4>1. SUFFICES ASSUME records[x].expense # None
                     PROVE  expenses'[records[x].expense] = expenses[records[x].expense]
        OBVIOUS
      <4>2. PICK q \in Requests : records[x].expense = <<q, x>>
        BY <4>1 DEF IInv, ExpensesAreOwn, Own
      <4>3. expenses'[<<q, x>>] = expenses[<<q, x>>]
        BY <3>2, CommitFacts
      <4> QED BY <4>2, <4>3
    <3> QED BY <2>2, <3>1, <3>3
  <2>4. CASE p # s
    <3>1. s = records[x] /\ Legit(r, x, req[r].op, s, p)
      BY <2>1, <2>4, CommitFacts
    <3>2. records'[x] = p
      <4>1. p.status = "none" => p = NoRecord /\ s.status # "none"
        BY <3>1 DEF Legit
      <4>2. records[x] \in Record /\ s \in Record /\ p \in Record
            /\ records'[x] = Written(records[x], s, p)
        BY CommitFacts
      <4>3. Written(records[x], s, p) = p
        BY <3>1, <4>1, <4>2, WrittenIsPlan
      <4> QED BY <4>2, <4>3
    <3>3. p.net = Cardinality(p.items)
      BY <2>2, <3>1 DEF Legit
    <3>4. CASE p.status = "paid"
      <4>1. s.expense = None /\ p.net = s.net /\ p.expense = <<r, x>>
        BY <2>2, <3>1, <3>4 DEF Legit
      <4>2. Created(r, x)
        BY <4>1, NoneIsNoExpense DEF Created
      <4> QED BY <3>2, <3>3, <3>4, <4>1, <4>2, CommitFacts, NoneIsNoExpense
    <3>5. CASE p.status # "paid"
      <4>1. p.expense = None
        BY <2>2, <3>1, <3>5 DEF Legit
      <4> QED BY <3>2, <3>3, <3>5, <4>1
    <3> QED BY <3>4, <3>5
  <2> QED BY <2>3, <2>4
<1> QED BY <1>4, <1>5, <1>6, <1>7, <1>8 DEF IInv
-----------------------------------------------------------------------------
LEMMA NextInv == ASSUME NumRequests \in Nat, IInv, [Next]_vars PROVE IInv'
<1>1. ASSUME NEW r \in Requests, NEW x \in Employees, AddItem(r, x) PROVE IInv'
  BY <1>1, AddItemStep
<1>2. ASSUME NEW r \in Requests, NEW x \in Employees, DeleteItem(r, x) PROVE IInv'
  BY <1>2, DeleteItemStep
<1>3. ASSUME NEW r \in Requests, NEW x \in Employees, NEW e \in BOOLEAN, Recalculate(r, x, e)
      PROVE  IInv'
  BY <1>3, RecalculateStep
<1>4. ASSUME NEW r \in Requests, NEW x \in Employees, Approve(r, x) PROVE IInv'
  <2>1. {x} \in SUBSET Employees
    OBVIOUS
  <2> QED BY <1>4, <2>1, ApproveStep DEF Approve
<1>5. ASSUME NEW r \in Requests, NEW x \in Employees, Cancel(r, x) PROVE IInv'
  BY <1>5, CancelStep
<1>6. ASSUME NEW r \in Requests, NEW x \in Employees, DeleteRecord(r, x) PROVE IInv'
  BY <1>6, DeleteStep
<1>7. ASSUME NEW r \in Requests, NEW x \in Employees, MarkPaid(r, x) PROVE IInv'
  BY <1>7, MarkPaidStep
<1>8. ASSUME NEW r \in Requests, NEW x \in Employees, Unpay(r, x) PROVE IInv'
  BY <1>8, UnpayStep
<1>9. ASSUME NEW r \in Requests, NEW e \in BOOLEAN, GeneratePayroll(r, e) PROVE IInv'
  BY <1>9, GenerateStep
<1>10. ASSUME NEW r \in Requests, ApproveAll(r) PROVE IInv'
  BY <1>10, ApproveStep DEF ApproveAll
<1>11. ASSUME NEW r \in Requests, PayAll(r) PROVE IInv'
  BY <1>11, PayAllStep
<1>12. ASSUME NEW r \in Requests, PayNext(r) PROVE IInv'
  BY <1>12, PayNextStep
<1>13. ASSUME NEW r \in Requests, UnpostSalaryExpense(r) PROVE IInv'
  BY <1>13, UnpostStep
<1>14. ASSUME NEW r \in Requests, Commit(r) PROVE IInv'
  BY <1>14, CommitStep
<1>15. ASSUME NEW r \in Requests, Fail(r) PROVE IInv'
  BY <1>15, FailStep
<1>16. CASE UNCHANGED vars
  <2>1. TypeOK' /\ TodoIsApproved' /\ ExpensesAreOwn'
    BY <1>16 DEF vars, IInv, TypeOK, TodoIsApproved, ExpensesAreOwn
  <2>2. PlansAreLegit'
    BY <1>16 DEF vars, IInv, PlansAreLegit
  <2>3. PaidIsInTheLedger'
    BY <1>16 DEF vars, IInv, PaidIsInTheLedger
  <2> QED BY <2>1, <2>2, <2>3 DEF IInv
<1> QED BY <1>1, <1>2, <1>3, <1>4, <1>5, <1>6, <1>7, <1>8, <1>9, <1>10, <1>11, <1>12,
           <1>13, <1>14, <1>15, <1>16 DEF Next

\* Only a commit writes records and creates expenses; the deletion of an expense
\* takes one away.
LEMMA OnlyCommitWrites ==
  ASSUME [Next]_vars
  PROVE  \/ \E r \in Requests : Commit(r)
         \/ /\ UNCHANGED records
            /\ UNCHANGED expenses \/ \E r \in Requests : UnpostSalaryExpense(r)
<1>1. ASSUME NEW r \in Requests, NEW x \in Employees,
             \/ AddItem(r, x) \/ DeleteItem(r, x) \/ \E e \in BOOLEAN : Recalculate(r, x, e)
             \/ Approve(r, x) \/ Cancel(r, x) \/ DeleteRecord(r, x)
             \/ MarkPaid(r, x) \/ Unpay(r, x)
      PROVE  UNCHANGED <<records, expenses>>
  BY <1>1 DEF AddItem, DeleteItem, Recalculate, Approve, ApproveThese, Cancel, DeleteRecord,
              MarkPaid, Unpay, Begin
<1>2. ASSUME NEW r \in Requests,
             \/ \E e \in BOOLEAN : GeneratePayroll(r, e)
             \/ ApproveAll(r) \/ PayAll(r) \/ PayNext(r) \/ Fail(r)
      PROVE  UNCHANGED <<records, expenses>>
  BY <1>2 DEF GeneratePayroll, ApproveAll, ApproveThese, PayAll, PayNext, Fail, Begin
<1>3. ASSUME NEW r \in Requests, UnpostSalaryExpense(r) PROVE UNCHANGED records
  BY <1>3 DEF UnpostSalaryExpense
<1> QED BY <1>1, <1>2, <1>3 DEF Next, vars

LEMMA PostingInv == ASSUME NumRequests \in Nat, IInv, [Next]_vars PROVE PostingStep
<1> SUFFICES ASSUME NEW q \in Requests, NEW x \in Employees,
                    expenses[<<q, x>>] = -1, expenses'[<<q, x>>] # -1
             PROVE  /\ records'[x].status = "paid" /\ records'[x].expense = <<q, x>>
                    /\ expenses'[<<q, x>>] = req[q].snap[x].net
                    /\ records[x].expense # None => req[q].snap[x].expense # records[x].expense
  BY DEF PostingStep
<1>1. ~ \E r \in Requests : UnpostSalaryExpense(r)
  <2> SUFFICES ASSUME NEW r \in Requests, UnpostSalaryExpense(r) PROVE FALSE
    OBVIOUS
  <2>1. <<q, x>> \in Expenses
    BY DEF Expenses
  <2>2. expenses' = expenses \/ \E e : expenses' = [expenses EXCEPT ![e] = -1]
    BY DEF UnpostSalaryExpense
  <2> QED BY <2>1, <2>2 DEF IInv, TypeOK
<1>2. PICK r \in Requests : Commit(r)
  BY <1>1, OnlyCommitWrites
<1>3. q = r /\ Created(r, x)
  BY <1>2, CommitFacts
<1> DEFINE s == req[r].snap[x]
           p == req[r].plan[x]
<1>4. Legit(r, x, req[r].op, s, p) /\ p # s
  BY <1>2, <1>3, CommitFacts DEF Created
<1>5. s.expense = None /\ p.expense = <<r, x>> /\ s.status = "approved" /\ p.status = "paid"
  BY <1>3, <1>4 DEF Created, Legit
<1>6. records'[x].status = "paid" /\ records'[x].expense = <<r, x>>
  <2>1. records'[x] = Written(records[x], s, p)
    BY <1>2, CommitFacts
  <2>2. s.expense # p.expense
    BY <1>5, NoneIsNoExpense
  <2>3. /\ Written(records[x], s, p).status = Set(records[x].status, s.status, p.status)
        /\ Written(records[x], s, p).expense = Set(records[x].expense, s.expense, p.expense)
    <3> HIDE DEF s, p
    <3> QED BY <1>4, <1>5 DEF Written
  <2> QED BY <1>5, <2>1, <2>2, <2>3 DEF Set
<1>7. expenses'[<<r, x>>] = s.net
  BY <1>2, <1>3, CommitFacts
<1> QED BY <1>3, <1>5, <1>6, <1>7

LEMMA LockedInv == ASSUME NumRequests \in Nat, IInv, [Next]_vars PROVE LockedNetStep
<1> SUFFICES ASSUME NEW x \in Employees, Locked(records[x]), Locked(records'[x]),
                    records'[x].net # records[x].net
             PROVE  \E r \in Requests : req[r].op = "items" /\ ~ Locked(req[r].snap[x])
                                          /\ req[r].pc = "open" /\ req'[r].pc = "done"
  BY DEF LockedNetStep
<1>1. PICK r \in Requests : Commit(r)
  BY OnlyCommitWrites
<1> DEFINE s == req[r].snap[x]
           p == req[r].plan[x]
<1>2. /\ records[x] \in Record /\ s \in Record /\ p \in Record
      /\ records'[x] = Written(records[x], s, p)
      /\ p # s => Legit(r, x, req[r].op, s, p)
  BY <1>1, CommitFacts
<1>3. p # s /\ p.status # "none" /\ p.net # s.net
  <2>1. p # s
    BY <1>2, WrittenFacts
  <2>2. p.status # "none"
    BY <1>2, WrittenFacts, NoRecordFacts DEF Locked
  <2>3. Written(records[x], s, p).net # records[x].net
    BY <1>2
  <2>4. p.net # s.net
    <3> HIDE DEF s, p
    <3> QED BY <2>2, <2>3, WrittenNet
  <2> QED BY <2>1, <2>2, <2>4
<1>4. (req[r].op = "items" /\ ~ Locked(s)) \/ s.status = "none"
  BY <1>2, <1>3 DEF Legit
<1>5. s.status # "none"
  <2>1. ~ Collides(r) /\ x \in Touched(r)
    BY <1>1, <1>3 DEF Commit, Touched
  <2>2. records[x].status # "none"
    BY DEF Locked
  <2> QED BY <2>1, <2>2 DEF Collides
<1>6. req[r].pc = "open" /\ req'[r].pc = "done"
  <2>1. req[r].todo = {}
    BY <1>4, <1>5 DEF IInv, PlansAreLegit
  <2>2. After(r) = Done
    BY <2>1 DEF After
  <2> QED BY <1>1, <2>2 DEF Commit, IInv, TypeOK, Done, Idle
<1> QED BY <1>4, <1>5, <1>6
-----------------------------------------------------------------------------
(* The theorems, for any employees and any number of requests. *)

\* The inductive invariant.
THEOREM InductiveInvariant == ASSUME NumRequests \in Nat PROVE Spec => []IInv
<1>1. Init => IInv
  BY InitInv
<1>2. IInv /\ [Next]_vars => IInv'
  BY NextInv
<1> QED BY <1>1, <1>2, PTL DEF Spec

\* The records, the expenses and the requests have their types.
THEOREM TypeCorrect == ASSUME NumRequests \in Nat PROVE Spec => []TypeOK
<1>1. IInv => TypeOK
  BY DEF IInv
<1> QED BY <1>1, InductiveInvariant, PTL

\* Unless requests overlapped on the record, the expense that a paid salary links to is
\* in the ledger over the total of its items, and one that is not paid links to none.
THEOREM PaidIsPosted == ASSUME NumRequests \in Nat PROVE Spec => []PaidIsInTheLedger
<1>1. IInv => PaidIsInTheLedger
  BY DEF IInv
<1> QED BY <1>1, InductiveInvariant, PTL

\* An expense is posted by the transaction that pays the salary and links to it, and
\* by none that read the salary after it had its expense; two payments that both read
\* it before are not excluded.
THEOREM NoLatePosting == ASSUME NumRequests \in Nat PROVE Spec => LateReadersPostNothing
<1>1. IInv /\ [Next]_vars => [PostingStep]_vars
  BY PostingInv
<1> QED BY <1>1, InductiveInvariant, PTL DEF Spec, LateReadersPostNothing

\* The total of an approved or paid salary is changed only by a request for its items
\* that read it before the approval.
THEOREM ApprovedIsOwed == ASSUME NumRequests \in Nat PROVE Spec => LockedNetStays
<1>1. IInv /\ [Next]_vars => [LockedNetStep]_vars
  BY LockedInv
<1> QED BY <1>1, InductiveInvariant, PTL DEF Spec, LockedNetStays
=============================================================================
