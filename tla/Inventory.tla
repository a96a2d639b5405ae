----------------------------------- MODULE Inventory -----------------------------------
(***************************************************************************)
(* The stock of one item in the warehouses of a school: movements, counts, *)
(* the edit form, and warehouses that are switched off or deleted          *)
(* (blueprints/inventory). A request reads, then flushes its rows, which   *)
(* locks them, then commits. Quantities are written as they were computed  *)
(* from what was read; the total of the item is what the flushing request  *)
(* sees of the stock rows.                                                 *)
(***************************************************************************)
EXTENDS Integers, FiniteSets, Functions

CONSTANTS Warehouses,
          Default,               \* the warehouse that is never deleted nor switched off
          NumRequests,           \* bound: requests of the office
          Opening                \* units in the default warehouse

Requests == 1 .. NumRequests
NoRow == -1      \* no stock row for the item and the warehouse

VARIABLES
  stock,      \* quantity of the InventoryItemStock rows
  total,      \* InventoryItem.current_quantity
  house,      \* active, inactive or gone
  movements,  \* the InventoryMovement rows
  counted,    \* warehouses that have an InventoryCount
  req,        \* requests; met (history): another one committed meanwhile
  edited,     \* history: warehouses whose stock an edit form has set
  stale       \* history: rows that were written from values that had changed

vars == <<stock, total, house, movements, counted, req, edited, stale>>

Quantities == NoRow .. Opening + NumRequests
Movement == [type : {"in", "out", "transfer"}, from : Warehouses, to : Warehouses, by : Requests]

NoStock == [w \in Warehouses |-> NoRow]
Idle == [pc |-> "idle", op |-> "none", snap |-> NoStock, plan |-> NoStock, rows |-> {},
         lost |-> {}, total |-> 0, sum |-> 0, moves |-> {}, counts |-> {}, met |-> FALSE]
Done == [Idle EXCEPT !.pc = "done"]

Held(w) == IF stock[w] = NoRow THEN 0 ELSE stock[w]
Active(w) == house[w] = "active"

Init ==
  /\ stock = [w \in Warehouses |-> IF w = Default THEN Opening ELSE NoRow]
  /\ total = SumFunction([w \in Warehouses |-> IF w = Default THEN Opening ELSE 0])
  /\ house = [w \in Warehouses |-> "active"]
  /\ movements = {} /\ counted = {}
  /\ req = [r \in Requests |-> Idle]
  /\ edited = {} /\ stale = {}
-----------------------------------------------------------------------------
Arrives(r) == req[r].pc = "idle" /\ \A q \in 1 .. r - 1 : req[q].pc # "idle"

\* A request reads the item and the stock rows, and plans to write some of them.
Begin(r, op, rows, plan, moves, counts) ==
  /\ Arrives(r)
  /\ req' = [req EXCEPT ![r] =
       [@ EXCEPT !.pc = "open", !.op = op, !.snap = stock, !.plan = plan, !.rows = rows,
                 !.total = total, !.moves = moves, !.counts = counts]]
  /\ UNCHANGED <<stock, total, house, movements, counted, edited, stale>>

\* One unit comes or goes; a row is created where there is none.
CreateMovement(r, type, w) ==
  /\ Active(w) /\ type \in {"in", "out"}
  /\ type = "out" => Held(w) >= 1
  /\ Begin(r, "movement", {w}, [stock EXCEPT ![w] = IF type = "in" THEN Held(w) + 1 ELSE Held(w) - 1],
           {[type |-> type, from |-> w, to |-> w, by |-> r]}, {})

\* Mutant: what is sent is not taken from where it was.
TransferWithoutSource(r, v, w) ==
  /\ v # w /\ Active(v) /\ Active(w) /\ Held(v) >= 1
  /\ Begin(r, "movement", {v, w}, [stock EXCEPT ![w] = Held(w) + 1],
           {[type |-> "transfer", from |-> v, to |-> w, by |-> r]}, {})

Transfer(r, v, w) ==
  /\ v # w /\ Active(v) /\ Active(w) /\ Held(v) >= 1
  /\ Begin(r, "movement", {v, w}, [stock EXCEPT ![v] = Held(v) - 1, ![w] = Held(w) + 1],
           {[type |-> "transfer", from |-> v, to |-> w, by |-> r]}, {})

\* A count records a difference and corrects nothing.
CreateCount(r, w) ==
  /\ house[w] # "gone"
  /\ Begin(r, "count", IF stock[w] = NoRow THEN {w} ELSE {}, [stock EXCEPT ![w] = Held(w)], {}, {w})

\* The form holds every row as it was when the page was rendered; one value is
\* changed, or a warehouse added.
EditItem(r, w, q) ==
  /\ stock[w] = NoRow => Active(w)
  /\ Begin(r, "edit", {v \in Warehouses : stock[v] # NoRow} \cup {w}, [stock EXCEPT ![w] = q], {}, {})

Unused(w) ==
  /\ \A m \in movements : w \notin {m.from, m.to}
  /\ w \notin counted

DeleteWarehouse(r, w) ==
  /\ w # Default /\ house[w] # "gone" /\ Held(w) = 0 /\ Unused(w)
  /\ Begin(r, "delete", {w}, [stock EXCEPT ![w] = NoRow], {}, {w})

ToggleWarehouse(w) ==
  /\ w # Default /\ house[w] # "gone"
  /\ house' = [house EXCEPT ![w] = IF Active(w) THEN "inactive" ELSE "active"]
  /\ UNCHANGED <<stock, total, movements, counted, req, edited, stale>>
-----------------------------------------------------------------------------
(* The flush locks rows and computes the total. *)

\* A request that has flushed holds its rows.
Free(r) == \A q \in Requests \ {r} : req[q].pc = "flushed" => req[q].rows \cap req[r].rows = {}

\* A second row for the pair, a row that is gone, or a warehouse that is.
Clash(r) ==
  \E w \in req[r].rows :
    \/ req[r].op = "movement" /\ (req[r].snap[w] = NoRow) # (stock[w] = NoRow)
    \/ req[r].op \in {"count", "edit"} /\ req[r].snap[w] = NoRow /\ stock[w] # NoRow
    \/ req[r].op # "delete" /\ house[w] = "gone"

\* The form skips rows that are gone; a deletion takes the rows as they are.
Rows(r) ==
  CASE req[r].op = "edit" -> {w \in req[r].rows : req[r].snap[w] # NoRow => stock[w] # NoRow}
    [] req[r].op = "delete" -> {w \in req[r].rows : stock[w] # NoRow}
    [] OTHER -> req[r].rows

Totals(r) == req[r].op \in {"movement", "edit"}

\* The sum over the rows it has written and the others' committed ones.
SumWith(r) ==
  SumFunction([w \in Warehouses |-> IF w \in Rows(r) THEN req[r].plan[w] ELSE Held(w)])

Flush(r) ==
  /\ req[r].pc = "open" /\ Free(r) /\ ~ Clash(r)
  /\ req' = [req EXCEPT ![r] = [@ EXCEPT !.pc = "flushed", !.rows = Rows(r),
               !.lost = {w \in Rows(r) : req[r].snap[w] # stock[w]},
               !.sum = IF Totals(r) THEN SumWith(r) ELSE req[r].total]]
  /\ UNCHANGED <<stock, total, house, movements, counted, edited, stale>>

\* The constraint is met, the connection is lost, the request is killed.
Fail(r) ==
  /\ req[r].pc \in {"open", "flushed"}
  /\ req' = [req EXCEPT ![r] = Done]
  /\ UNCHANGED <<stock, total, house, movements, counted, edited, stale>>

\* The foreign keys of stock rows, movements and counts.
Referenced(r) ==
  \E w \in req[r].counts : req[r].op = "delete" /\ (~ Unused(w) \/ (stock[w] # NoRow /\ w \notin req[r].rows))

Commit(r) ==
  /\ req[r].pc = "flushed" /\ ~ Referenced(r)
  /\ \A w \in req[r].counts \cup UNION {{m.from, m.to} : m \in req[r].moves} :
       req[r].op # "delete" => house[w] # "gone"
  /\ stock' = [w \in Warehouses |-> IF w \in req[r].rows THEN req[r].plan[w] ELSE stock[w]]
  /\ total' = IF req[r].sum # req[r].total THEN req[r].sum ELSE total
  /\ movements' = movements \cup req[r].moves
  /\ counted' = IF req[r].op = "count" THEN counted \cup req[r].counts ELSE counted
  /\ house' = [w \in Warehouses |-> IF req[r].op = "delete" /\ w \in req[r].counts THEN "gone" ELSE house[w]]
  /\ edited' = IF req[r].op \in {"edit", "delete"} THEN edited \cup req[r].rows ELSE edited
  /\ stale' = stale \cup req[r].lost
  /\ req' = [q \in Requests |-> CASE q = r -> Done
                                [] q # r /\ req[q].pc \in {"open", "flushed"} -> [req[q] EXCEPT !.met = TRUE]
                                [] OTHER -> req[q]]

Next ==
  \/ \E r \in Requests :
       \/ \E w \in Warehouses :
            \/ CreateMovement(r, "in", w) \/ CreateMovement(r, "out", w)
            \/ (\E v \in Warehouses : Transfer(r, v, w))
            \/ CreateCount(r, w) \/ (\E q \in {0, 1} : EditItem(r, w, q)) \/ DeleteWarehouse(r, w)
       \/ Flush(r) \/ Commit(r) \/ Fail(r)
  \/ \E w \in Warehouses : ToggleWarehouse(w)

Spec == Init /\ [][Next]_vars
-----------------------------------------------------------------------------
\* What warehouses may hold together.
IsSum(n) == \E held \in [Warehouses -> Quantities \ {NoRow}] : n = SumFunction(held)

TypeOK ==
  /\ stock \in [Warehouses -> Quantities]
  /\ IsSum(total)
  /\ house \in [Warehouses -> {"active", "inactive", "gone"}]
  /\ movements \subseteq Movement /\ counted \subseteq Warehouses
  /\ \A r \in Requests : /\ req[r].pc \in {"idle", "open", "flushed", "done"}
                         /\ req[r].snap \in [Warehouses -> Quantities]
                         /\ req[r].plan \in [Warehouses -> Quantities]
                         /\ req[r].pc = "flushed" => IsSum(req[r].sum)
  /\ edited \subseteq Warehouses /\ stale \subseteq Warehouses

In(w) == Cardinality({m \in movements : m.to = w /\ m.type # "out"})
Out(w) == Cardinality({m \in movements : m.from = w /\ m.type # "in"})

\* The movements account for the stock of a warehouse that no edit form has set
\* and no request has overwritten from values that had changed.
StockFollowsMovements ==
  \A w \in Warehouses \ (edited \cup stale) :
    Held(w) = (IF w = Default THEN Opening ELSE 0) + In(w) - Out(w)

\* "Keep InventoryItem.current_quantity in sync as the sum of its per-warehouse
\* stock" (_recompute_item_total): a movement or an edit that no other request
\* overlaps leaves the right total, also when overlapping ones had left a wrong one.
TotalStep ==
  \A r \in Requests :
    Commit(r) /\ Totals(r) /\ ~ req[r].met =>
      total' = SumFunction([w \in Warehouses |-> IF stock'[w] = NoRow THEN 0 ELSE stock'[w]])

\* Both together.
StockIsAccounted == []StockFollowsMovements /\ [][TotalStep]_vars
=============================================================================
