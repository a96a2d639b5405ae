------------------------------------ MODULE Payroll ------------------------------------
(***************************************************************************)
(* One month's salary records and the expenses that the ledger holds for   *)
(* them (services/payroll, blueprints/salaries). A handler reads the       *)
(* records without a lock, checks their status, and commits the columns it *)
(* changed, whatever happened to the rows in between. log_action commits   *)
(* the session it is called in, and swallows the error if that fails.      *)
(***************************************************************************)
EXTENDS Integers, FiniteSets

CONSTANTS Employees,      \* who gets a salary
          NumRequests     \* bound: requests of the office

Requests == 1 .. NumRequests      \* in the order of their arrival
None == <<0>>
Expenses == Requests \X Employees   \* the expense that a request creates for a salary

VARIABLES
  records,   \* the SalaryRecord of each employee
  expenses,  \* amounts of the Expense rows, -1 where there is none
  req,       \* the requests and their transactions
  stale      \* history: a transaction wrote the record that another had changed

vars == <<records, expenses, req, stale>>

\* Every item is worth one and the base salary nothing; by: the request that
\* created it, auto: recurring or from attendance. net: the cached total.
Items == [by : 0 .. NumRequests, auto : BOOLEAN]
Statuses == {"none", "draft", "approved", "paid", "cancelled"}
Record == [id : 0 .. NumRequests, status : Statuses, items : SUBSET Items, net : Nat,
           expense : Expenses \cup {None}]
NoRecord == [id |-> 0, status |-> "none", items |-> {}, net |-> 0, expense |-> None]

Locked(rec) == rec.status \in {"approved", "paid"}

\* A request: what it read, what it is going to write, and the records pay-all
\* still has to pay.
Request == [pc : {"idle", "open", "unpost", "payall", "done"},
            op : {"none", "generate", "items", "status", "delete", "pay", "payall", "unpay"},
            todo : SUBSET Employees, first : BOOLEAN,
            snap : [Employees -> Record], plan : [Employees -> Record]]

Idle == [pc |-> "idle", op |-> "none", todo |-> {}, first |-> TRUE,
         snap |-> [x \in Employees |-> NoRecord], plan |-> [x \in Employees |-> NoRecord]]
Done == [Idle EXCEPT !.pc = "done"]

\* Salaries not generated yet, or drafts and approved ones.
Init ==
  /\ records \in [Employees ->
       {NoRecord} \cup
       {[NoRecord EXCEPT !.status = s, !.items = {[by |-> 0, auto |-> TRUE]}, !.net = 1] :
          s \in {"draft", "approved"}}]
  /\ expenses = [e \in Expenses |-> -1]
  /\ req = [r \in Requests |-> Idle]
  /\ stale = [x \in Employees |-> FALSE]
-----------------------------------------------------------------------------
(* What the handlers make of a record they have read. *)

\* Mutant: the cached total is left alone.
NotRecomputed(rec, items) == [rec EXCEPT !.items = items]

\* recompute
Recomputed(rec, items) == [rec EXCEPT !.items = items, !.net = Cardinality(items)]

\* rebuild_auto_items: the manual items stay.
Rebuilt(r, rec, earned) ==
  Recomputed(rec, {i \in rec.items : ~ i.auto}
                    \cup (IF earned THEN {[by |-> r, auto |-> TRUE]} ELSE {}))

\* generate_payroll: a draft with the recurring and attendance items.
Generated(r, earned) == Rebuilt(r, [NoRecord EXCEPT !.id = r, !.status = "draft"], earned)

\* Mutant: a linked expense is no reason not to create one.
PostedAgain(r, x, rec) == [rec EXCEPT !.status = "paid", !.expense = <<r, x>>]

\* post_salary_expense: idempotent, if the record read has its expense.
Posted(r, x, rec) ==
  [rec EXCEPT !.status = "paid", !.expense = IF @ = None THEN <<r, x>> ELSE @]

\* Mutant: the link to the expense stays.
UnpostedButLinked(rec) == [rec EXCEPT !.status = "approved"]

Unposted(rec) == [rec EXCEPT !.status = "approved", !.expense = None]
-----------------------------------------------------------------------------
(* Requests. *)

Arrives(r) == req[r].pc = "idle" /\ \A q \in 1 .. r - 1 : req[q].pc # "idle"

Begin(r, op, S, Value(_)) ==
  /\ Arrives(r) /\ S # {}
  /\ req' = [req EXCEPT ![r] =
       [@ EXCEPT !.pc = "open", !.op = op,
                 !.snap = [x \in Employees |-> IF x \in S THEN records[x] ELSE NoRecord],
                 !.plan = [x \in Employees |-> IF x \in S THEN Value(x) ELSE NoRecord]]]
  /\ UNCHANGED <<records, expenses, stale>>

With(S) == {x \in Employees : records[x].status \in S}

GeneratePayroll(r, earned) ==
  Begin(r, "generate", With({"none"}), LAMBDA x : Generated(r, earned))

Editable(x) == records[x].status # "none" /\ ~ Locked(records[x])

AddItem(r, x) ==
  /\ Editable(x)
  /\ Begin(r, "items", {x}, LAMBDA y :
       Recomputed(records[x], records[x].items \cup {[by |-> r, auto |-> FALSE]}))

DeleteItem(r, x) ==
  /\ Editable(x)
  /\ \E i \in records[x].items :
       Begin(r, "items", {x}, LAMBDA y : Recomputed(records[x], records[x].items \ {i}))

Recalculate(r, x, earned) ==
  /\ Editable(x)
  /\ Begin(r, "items", {x}, LAMBDA y : Rebuilt(r, records[x], earned))

ApproveThese(r, S) ==
  Begin(r, "status", S \cap With({"draft"}), LAMBDA x : [records[x] EXCEPT !.status = "approved"])

Approve(r, x) == ApproveThese(r, {x})
ApproveAll(r) == ApproveThese(r, Employees)

Cancel(r, x) ==
  Begin(r, "status", {x} \cap With({"draft", "approved"}),
        LAMBDA y : [records[y] EXCEPT !.status = "cancelled"])

DeleteRecord(r, x) ==
  Begin(r, "delete", {x} \cap With({"draft", "cancelled"}), LAMBDA y : NoRecord)

MarkPaid(r, x) ==
  Begin(r, "pay", {x} \cap With({"approved"}), LAMBDA y : Posted(r, y, records[y]))

\* The records found approved are paid and committed one by one.
PayAll(r) ==
  /\ Arrives(r) /\ With({"approved"}) # {}
  /\ req' = [req EXCEPT ![r] = [@ EXCEPT !.pc = "payall", !.op = "payall",
                                         !.todo = With({"approved"}), !.snap = records]]
  /\ UNCHANGED <<records, expenses, stale>>

\* After the first commit the others are read again, their status is not: it is
\* overwritten. (The write of a record found posted is not delayed here.)
PayNext(r) ==
  /\ req[r].pc = "payall"
  /\ \E x \in req[r].todo :
       LET rec == IF req[r].first THEN req[r].snap[x]
                  ELSE [records[x] EXCEPT !.status = "approved"]
       IN  req' = [req EXCEPT ![r] =
             IF ~ req[r].first /\ (records[x].status = "none" \/ records[x].id # req[r].snap[x].id)
             THEN Done
             ELSE [@ EXCEPT !.pc = "open", !.todo = req[r].todo \ {x}, !.snap[x] = rec,
                     !.plan = [y \in Employees |->
                                 IF y = x THEN Posted(r, x, rec) ELSE req[r].snap[y]]]]
  /\ UNCHANGED <<records, expenses, stale>>

Unpay(r, x) ==
  /\ Arrives(r) /\ records[x].status = "paid"
  /\ req' = [req EXCEPT ![r] =
       [@ EXCEPT !.pc = IF records[x].expense = None THEN "open" ELSE "unpost", !.op = "unpay",
                 !.snap[x] = records[x], !.plan[x] = Unposted(records[x])]]
  /\ UNCHANGED <<records, expenses, stale>>

\* unpost_salary_expense deletes the expense and calls log_action, which commits
\* before the link is cleared: the foreign key of a record that still has it
\* makes the deletion fail, and log_action rolls it back.
UnpostSalaryExpense(r) ==
  /\ req[r].pc = "unpost"
  /\ \E x \in Employees :
       LET e == req[r].snap[x].expense
       IN  /\ e # None
           /\ expenses' = IF \E y \in Employees : records[y].expense = e THEN expenses
                          ELSE [expenses EXCEPT ![e] = -1]
  /\ req' = [req EXCEPT ![r].pc = "open"]
  /\ UNCHANGED <<records, stale>>
-----------------------------------------------------------------------------
(* Commits. *)

Touched(r) == {x \in Employees : req[r].plan[x] # req[r].snap[x]}

\* A second record for the month, or an UPDATE that finds no row.
Collides(r) ==
  \E x \in Touched(r) :
    LET snap == req[r].snap[x]
    IN  \/ snap.status = "none" /\ records[x].status # "none"
        \/ /\ snap.status # "none" /\ req[r].plan[x].status # "none"
           /\ (records[x].status = "none" \/ records[x].id # snap.id)

\* The flush sets the columns that differ from what was read, and deletes and
\* inserts the items.
Set(now, old, new) == IF new # old THEN new ELSE now

Written(now, snap, plan) ==
  CASE plan = snap -> now
    [] plan # snap /\ plan.status = "none" ->
         IF now.id = snap.id /\ now.status # "none" THEN NoRecord ELSE now
    [] OTHER ->
         [id      |-> Set(now.id, snap.id, plan.id),
          status  |-> Set(now.status, snap.status, plan.status),
          items   |-> (now.items \ (snap.items \ plan.items)) \cup (plan.items \ snap.items),
          net     |-> Set(now.net, snap.net, plan.net),
          expense |-> Set(now.expense, snap.expense, plan.expense)]

Created(r, x) == LET e == req[r].plan[x].expense IN e # None /\ e # req[r].snap[x].expense

After(r) == IF req[r].todo = {} THEN Done ELSE [req[r] EXCEPT !.pc = "payall", !.first = FALSE]

Commit(r) ==
  /\ req[r].pc = "open" /\ ~ Collides(r)
  /\ records' = [x \in Employees |-> Written(records[x], req[r].snap[x], req[r].plan[x])]
  /\ expenses' = [e \in Expenses |->
                    IF e[1] = r /\ Created(r, e[2]) THEN req[r].snap[e[2]].net ELSE expenses[e]]
  /\ stale' = [x \in Employees |->
                 stale[x] \/ (x \in Touched(r) /\ req[r].snap[x] # records[x])]
  /\ req' = [req EXCEPT ![r] = After(r)]

\* The constraint is met or the request is killed: what is open is lost.
Fail(r) ==
  /\ req[r].pc \in {"open", "unpost", "payall"}
  /\ req' = [req EXCEPT ![r] = Done]
  /\ UNCHANGED <<records, expenses, stale>>

Next ==
  \E r \in Requests :
    \/ \E x \in Employees :
         \/ AddItem(r, x) \/ DeleteItem(r, x) \/ (\E earned \in BOOLEAN : Recalculate(r, x, earned))
         \/ Approve(r, x) \/ Cancel(r, x) \/ DeleteRecord(r, x)
         \/ MarkPaid(r, x) \/ Unpay(r, x)
    \/ (\E earned \in BOOLEAN : GeneratePayroll(r, earned))
    \/ ApproveAll(r) \/ PayAll(r) \/ PayNext(r) \/ UnpostSalaryExpense(r)
    \/ Commit(r) \/ Fail(r)

Spec == Init /\ [][Next]_vars
-----------------------------------------------------------------------------
TypeOK ==
  /\ records \in [Employees -> Record]
  /\ expenses \in [Expenses -> Nat \cup {-1}]
  /\ req \in [Requests -> Request]
  /\ stale \in [Employees -> BOOLEAN]

\* "Whenever a SalaryRecord transitions to paid ... creates an Expense" (services/
\* payroll): unless requests overlapped on the record, its cached total is that
\* of its items, the expense that a paid one links to is in the ledger over that
\* total, and one that is not paid links to none. It does not say that nothing
\* else is in the ledger: see UnpaidIsNotInTheLedger.
PaidIsInTheLedger ==
  \A x \in Employees : ~ stale[x] =>
    /\ records[x].net = Cardinality(records[x].items)
    /\ IF records[x].status = "paid"
       THEN records[x].expense # None /\ expenses[records[x].expense] = records[x].net
       ELSE records[x].expense = None

\* "Idempotent: if record.expense_id is already set, does nothing" (post_salary_
\* expense): whoever reads a salary after its payment was committed posts no
\* second expense, and that includes pay-all, which reads the link again and the
\* status no more. An expense is posted in the transaction that pays the salary
\* and links to it, over the total that was read.
PostingStep ==
  \A r \in Requests, x \in Employees :
    expenses[<<r, x>>] = -1 /\ expenses'[<<r, x>>] # -1 =>
      /\ records'[x].status = "paid" /\ records'[x].expense = <<r, x>>
      /\ expenses'[<<r, x>>] = req[r].snap[x].net
      /\ records[x].expense # None => req[r].snap[x].expense # records[x].expense
LateReadersPostNothing == [][PostingStep]_vars

\* Two payments that read the salary before either was committed post an expense
\* each, and the record links to the last; so does paying again after a reversal,
\* which leaves its expense. "The financial report isn't double-counted" (services/
\* payroll) is therefore false, also without a reversal.
CountedOnce ==
  \A x \in Employees : Cardinality({r \in Requests : expenses[<<r, x>>] # -1}) <= 1

\* "Approved/Paid records are locked from normal editing" (is_locked): whoever
\* reads a record after its approval was committed leaves its total alone. A
\* request for its items that read it before does not, as nothing locks the row.
LockedNetStep ==
  \A x \in Employees :
    Locked(records[x]) /\ Locked(records'[x]) /\ records'[x].net # records[x].net =>
      \E r \in Requests : req[r].op = "items" /\ ~ Locked(req[r].snap[x])
                            /\ req[r].pc = "open" /\ req'[r].pc = "done"
LockedNetStays == [][LockedNetStep]_vars

\* "Used when a payroll payment is reversed. Deletes the linked Expense"
\* (unpost_salary_expense): what is not paid is not in the ledger.
UnpaidIsNotInTheLedger ==
  \A x \in Employees : records[x].status \in {"draft", "approved"} /\ ~ stale[x] =>
    \A r \in Requests : expenses[<<r, x>>] = -1
=============================================================================
