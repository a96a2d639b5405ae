--------------------------------- MODULE ChatProofs ---------------------------------
(***************************************************************************)
(* Proofs about Chat, for any people, pages, phones, requests and bounds.  *)
(*                                                                         *)
(* The lock makes the id of the one message that is being written larger   *)
(* than every committed one (IdsFollowCommits); so a cursor, which is the  *)
(* id of a committed message, never passes one that is still to come.      *)
(***************************************************************************)
EXTENDS Chat, FiniteSetTheorems, FunctionTheorems, TLAPS

\* One sender holds the room, and the id it has taken is the largest.
IdsFollowCommits ==
  /\ \A r, q \in Sends : Locks(r) /\ Locks(q) => r = q
  /\ Committed \subseteq 1 .. nextId - 1
  /\ \A r \in Sends :
       /\ send[r].pc = "inserted" =>
            send[r].id \in 1 .. nextId - 1 /\ \A m \in Committed : m < send[r].id
       /\ send[r].pc = "committed" => send[r].id \in Committed

\* A cursor is the id of a committed message, and a poll asks from it or from before.
CursorsAreIds ==
  \A d \in Devices :
    /\ cursor[d] \in Committed \cup {0}
    /\ dev[d].pc \in {"marking", "asking"} => dev[d].after <= cursor[d]

IInv == TypeOK /\ IdsFollowCommits /\ CursorsAreIds /\ CursorIsExact /\ PageMissesNothing

\* What the steps that only change the room, the people or the receipts leave alone.
Untouched == UNCHANGED <<log, nextId, view>>
-----------------------------------------------------------------------------
LEMMA InitInv == Init => IInv
<1> SUFFICES ASSUME Init PROVE IInv
  OBVIOUS
<1> USE DEF Init
<1>1. Committed = {} /\ Table = {}
  BY DEF Committed, Table
<1>2. TypeOK
  BY DEF TypeOK, NoSend, Quiet
<1>3. IdsFollowCommits
  BY <1>1 DEF IdsFollowCommits, Locks, NoSend
<1>4. CursorsAreIds
  BY DEF CursorsAreIds, Quiet
<1>5. CursorIsExact /\ PageMissesNothing
  BY <1>1, ConstantsAssumption DEF CursorIsExact, PageMissesNothing, Live, ConstantsAssumption, Devices
<1> QED BY <1>2, <1>3, <1>4, <1>5 DEF IInv

LEMMA TableFacts ==
  ASSUME IInv
  PROVE  /\ Committed \subseteq Nat /\ Table \subseteq Committed /\ Live \subseteq Table
         /\ 0 \notin Committed
BY DEF IInv, TypeOK, IdsFollowCommits, Table, Live

\* The first rows of an answer leave nothing out below any of them.
LEMMA FirstIsLow ==
  ASSUME IInv, NEW rows \in SUBSET Committed, NEW m \in First(rows), NEW k \in rows, k <= m
  PROVE  k \in First(rows)
<1>1. IsFiniteSet(rows)
  <2>1. IsFiniteSet(1 .. nextId - 1)
    BY FS_Interval DEF IInv, TypeOK
  <2> QED BY <2>1, FS_Subset DEF IInv, IdsFollowCommits
<1> DEFINE Below(x) == {j \in rows : j < x}
<1>2. rows \subseteq Nat /\ m \in rows /\ Cardinality(Below(m)) < PollLimit
  BY TableFacts DEF First
<1>3. Below(k) \subseteq Below(m)
  <2>1. \A j \in rows : j < k => j < m
    BY <1>2
  <2> QED BY <2>1
<1>4. IsFiniteSet(Below(m)) /\ IsFiniteSet(Below(k))
  BY <1>1, FS_Subset
<1>5. Cardinality(Below(k)) <= Cardinality(Below(m))
  BY <1>3, <1>4, FS_Subset
<1>6. Cardinality(Below(k)) \in Nat /\ Cardinality(Below(m)) \in Nat
  BY <1>4, FS_CardinalityType
<1>7. Cardinality(Below(k)) < PollLimit
  BY <1>2, <1>5, <1>6, ConstantsAssumption DEF ConstantsAssumption
<1> QED BY <1>7 DEF First
-----------------------------------------------------------------------------
\* A step that neither commits a message nor moves a cursor.
LEMMA StillInv ==
  ASSUME IInv, TypeOK', Untouched,
         \A r \in Sends : \/ send'[r] = send[r]
                          \/ send'[r].pc \in {"admitted", "done"}
                          \/ send[r].pc = "admitted" /\ send'[r].pc = "locked" /\ RoomIsFree,
         \A r, q \in Sends : Locks(r)' /\ Locks(q)' => r = q,
         \A d \in Devices : \/ dev'[d] = dev[d] /\ (IsOpen(d)' => IsOpen(d))
                            \/ dev'[d].pc = "idle" /\ IsOpen(d)
                            \/ IsOpen(d) /\ dev'[d].after <= cursor[d],
         Live' \subseteq Live
  PROVE  IInv'
<1>1. /\ log' = log /\ nextId' = nextId /\ cursor' = cursor /\ shown' = shown
      /\ answered' = answered /\ Committed' = Committed
  BY DEF Untouched, view, Committed
<1>2. IdsFollowCommits'
  <2>1. \A r \in Sends : send'[r].pc \in {"inserted", "committed"} => send'[r] = send[r]
    OBVIOUS
  <2> QED BY <1>1, <2>1 DEF IInv, IdsFollowCommits
<1>3. CursorsAreIds'
  BY <1>1 DEF IInv, CursorsAreIds
<1>4. CursorIsExact'
  BY <1>1 DEF IInv, CursorIsExact
<1>5. PageMissesNothing'
  BY <1>1, ConstantsAssumption DEF IInv, PageMissesNothing, IsOpen, Devices
<1> QED BY <1>2, <1>3, <1>4, <1>5 DEF IInv

SendRecord == [pc : {"idle", "admitted", "locked", "inserted", "committed", "done"},
               by : Users \cup {NoOne}, tab : Tabs \cup {NoOne}, id : Nat]
DevRecord == [pc : {"closed", "idle", "marking", "asking"},
              next : {"idle", "asking"}, after : Nat, snap : SUBSET Nat]

LEMMA QuietIsDev ==
  Quiet("idle") \in DevRecord /\ Quiet("closed") \in DevRecord
BY DEF Quiet, DevRecord

LEMMA UnreadIsIds ==
  ASSUME IInv, NEW u \in Users
  PROVE  Unread(u) \in SUBSET Nat
BY TableFacts DEF Unread

LEMMA OwnerIsUser == \A d \in Devices : Owner[d] \in Users
BY ConstantsAssumption DEF ConstantsAssumption, Devices

\* Requests that take no id and write nothing.
LEMMA SendStillInv ==
  ASSUME IInv, NEW r \in Sends,
         \/ \E u \in Users, t \in Tabs \cup {NoOne} : SendBegin(r, u, t)
         \/ LockRoom(r) \/ LockFails(r) \/ AbortSend(r) \/ LoseAnswer(r)
  PROVE  IInv'
<1>1. UNCHANGED <<people, store, dev, view>> /\ changes' = changes
  BY DEF SendBegin, LockRoom, LockFails, AbortSend, LoseAnswer
<1>2. /\ send' \in [Sends -> SendRecord] /\ \A q \in Sends \ {r} : send'[q] = send[q]
      /\ \/ send'[r].pc \in {"admitted", "done"}
         \/ send[r].pc = "admitted" /\ send'[r].pc = "locked" /\ RoomIsFree
  <2>1. send \in [Sends -> SendRecord]
    BY DEF IInv, TypeOK, SendRecord
  <2>2. CASE \E u \in Users, t \in Tabs \cup {NoOne} : SendBegin(r, u, t)
    BY <2>1, <2>2 DEF SendBegin, SendRecord
  <2>3. CASE LockRoom(r)
    BY <2>1, <2>3 DEF LockRoom, SendRecord
  <2>4. CASE LockFails(r) \/ AbortSend(r) \/ LoseAnswer(r)
    BY <2>1, <2>4 DEF LockFails, AbortSend, LoseAnswer, SendRecord
  <2> QED BY <2>2, <2>3, <2>4
<1>3. faults' \in Nat
  BY DEF IInv, TypeOK, SendBegin, LockRoom, LockFails, AbortSend, LoseAnswer, Fault
<1>4. TypeOK'
  BY <1>1, <1>2, <1>3 DEF IInv, TypeOK, people, store, view, SendRecord
<1>5. \A p, q \in Sends : Locks(p)' /\ Locks(q)' => p = q
  BY <1>2 DEF IInv, IdsFollowCommits, Locks, RoomIsFree
<1>6. Untouched /\ Live' = Live /\ dev' = dev
  BY <1>1 DEF Untouched, people, store, Live, Table, Committed
<1>7. \A q \in Sends : \/ send'[q] = send[q]
                       \/ send'[q].pc \in {"admitted", "done"}
                       \/ send[q].pc = "admitted" /\ send'[q].pc = "locked" /\ RoomIsFree
  BY <1>2
<1>8. \A d \in Devices : dev'[d] = dev[d] /\ (IsOpen(d)' => IsOpen(d))
  BY <1>6 DEF IsOpen
<1> QED BY <1>4, <1>5, <1>6, <1>7, <1>8, StillInv

\* Marks and lost answers.
LEMMA DevStillInv ==
  ASSUME IInv, NEW d \in Devices,
         PollBegin(d) \/ PollLost(d) \/ Mark(d) \/ MarkFails(d) \/ PhoneRead(d)
  PROVE  IInv'
<1>1. UNCHANGED <<people, log, nextId, withdrawn, send, view>> /\ changes' = changes
  BY DEF PollBegin, PollLost, Mark, MarkFails, PhoneRead, store
<1>2. /\ dev' \in [Devices -> DevRecord] /\ \A e \in Devices \ {d} : dev'[e] = dev[e]
      /\ IsOpen(d) /\ (dev'[d].pc = "idle" \/ dev'[d].after <= cursor[d])
  <2>1. dev \in [Devices -> DevRecord] /\ cursor[d] \in Nat /\ Unread(Owner[d]) \in SUBSET Nat
    BY UnreadIsIds, OwnerIsUser DEF IInv, TypeOK, DevRecord
  <2>2. CASE PollBegin(d)
    BY <2>1, <2>2 DEF PollBegin, DevRecord, IsOpen
  <2>3. CASE PollLost(d)
    BY <2>1, <2>3, QuietIsDev DEF PollLost, IsOpen, Quiet
  <2>4. CASE Mark(d) \/ MarkFails(d)
    <3>1. dev[d].pc = "marking" /\ dev[d].after <= cursor[d]
      BY <2>4 DEF Mark, MarkFails, IInv, CursorsAreIds
    <3>2. dev' = [dev EXCEPT ![d].pc = dev[d].next, ![d].snap = {}]
      BY <2>4 DEF Mark, MarkFails
    <3> QED BY <2>1, <3>1, <3>2 DEF DevRecord, IsOpen
  <2>5. CASE PhoneRead(d)
    BY <2>1, <2>5 DEF PhoneRead, DevRecord, IsOpen, Quiet
  <2> QED BY <2>2, <2>3, <2>4, <2>5
<1>3. faults' \in Nat /\ reads' \in SUBSET (Users \X Nat)
  <2>1. dev[d].snap \subseteq Nat /\ Owner[d] \in Users
    BY OwnerIsUser DEF IInv, TypeOK
  <2>2. faults \in Nat /\ reads \in SUBSET (Users \X Nat)
    BY DEF IInv, TypeOK
  <2>3. CASE Mark(d)
    <3>1. {<<Owner[d], m>> : m \in dev[d].snap} \subseteq Users \X Nat
      BY <2>1
    <3> QED BY <2>2, <2>3, <3>1 DEF Mark
  <2>4. CASE PollBegin(d) \/ PollLost(d) \/ MarkFails(d) \/ PhoneRead(d)
    BY <2>2, <2>4 DEF PollBegin, PollLost, MarkFails, PhoneRead, Fault, store
  <2> QED BY <2>3, <2>4
<1>4. TypeOK'
  BY <1>1, <1>2, <1>3 DEF IInv, TypeOK, people, view, DevRecord
<1>5. Untouched /\ Live' = Live /\ send' = send
  BY <1>1 DEF Untouched, people, Live, Table, Committed
<1>6. \A p, q \in Sends : Locks(p)' /\ Locks(q)' => p = q
  BY <1>5 DEF IInv, IdsFollowCommits, Locks
<1>7. \A e \in Devices : \/ dev'[e] = dev[e] /\ (IsOpen(e)' => IsOpen(e))
                         \/ dev'[e].pc = "idle" /\ IsOpen(e)
                         \/ IsOpen(e) /\ dev'[e].after <= cursor[e]
  BY <1>2 DEF IsOpen
<1> QED BY <1>4, <1>5, <1>6, <1>7, StillInv

\* The office.
LEMMA OfficeInv ==
  ASSUME IInv,
         \/ CloseRoom \/ ReopenRoom \/ ChangeReplies \/ DeleteRoom
         \/ \E u \in Users, to \in {"none", "member", "blocked"} : ChangeMember(u, to)
         \/ \E m \in Ids : DeleteMessage(m)
  PROVE  IInv'
<1> USE DEF CloseRoom, ReopenRoom, ChangeReplies, DeleteRoom, ChangeMember, DeleteMessage
<1>1. UNCHANGED <<log, nextId, send, dev, view, faults, admins>>
  BY DEF store, people
<1>2. /\ withdrawn' \in SUBSET Nat /\ withdrawn \subseteq withdrawn'
      /\ reads' \in SUBSET (Users \X Nat)
  BY TableFacts DEF IInv, TypeOK, store, people
<1>3. /\ room' \in {"open", "closed", "gone"} /\ (room = "gone" => room' = "gone")
      /\ mayReply' \in BOOLEAN /\ membership' \in [Users -> {"none", "member", "blocked"}]
  <2>1. /\ room \in {"open", "closed", "gone"} /\ mayReply \in BOOLEAN
        /\ membership \in [Users -> {"none", "member", "blocked"}]
    BY DEF IInv, TypeOK
  <2>2. CASE CloseRoom \/ ReopenRoom \/ ChangeReplies
    BY <2>1, <2>2
  <2>3. CASE DeleteRoom
    BY <2>1, <2>3
  <2>4. CASE \E u \in Users, to \in {"none", "member", "blocked"} : ChangeMember(u, to)
    BY <2>1, <2>4
  <2>5. CASE \E m \in Ids : DeleteMessage(m)
    BY <2>1, <2>5 DEF people
  <2> QED BY <2>2, <2>3, <2>4, <2>5
<1>4. changes' \in Nat
  BY DEF IInv, TypeOK, Office
<1>5. TypeOK'
  BY <1>1, <1>2, <1>3, <1>4 DEF IInv, TypeOK, view
<1>6. Untouched /\ send' = send /\ dev' = dev
  BY <1>1 DEF Untouched
<1>7. Live' \subseteq Live
  BY <1>1, <1>2, <1>3 DEF Live, Table, Committed
<1>8. \A p, q \in Sends : Locks(p)' /\ Locks(q)' => p = q
  BY <1>6 DEF IInv, IdsFollowCommits, Locks
<1>9. \A e \in Devices : dev'[e] = dev[e] /\ (IsOpen(e)' => IsOpen(e))
  BY <1>6 DEF IsOpen
<1> QED BY <1>5, <1>6, <1>7, <1>8, <1>9, StillInv
-----------------------------------------------------------------------------
LEMMA InsertInv ==
  ASSUME IInv, NEW r \in Sends, Insert(r)
  PROVE  IInv'
<1>1. /\ UNCHANGED <<people, log, withdrawn, reads, dev, view, changes, faults>>
      /\ nextId' = nextId + 1 /\ nextId \in Nat \ {0} /\ send[r].pc = "locked"
  BY DEF Insert, IInv, TypeOK
<1>2. /\ send' \in [Sends -> SendRecord] /\ send'[r].pc = "inserted" /\ send'[r].id = nextId
      /\ \A q \in Sends \ {r} : send'[q] = send[q]
  <2>1. send \in [Sends -> SendRecord] /\ nextId \in Nat
    BY DEF IInv, TypeOK, SendRecord
  <2> DEFINE new == [send[r] EXCEPT !.pc = "inserted", !.id = nextId]
  <2>2. send' = [send EXCEPT ![r] = new]
    BY DEF Insert
  <2>3. new \in SendRecord /\ new.pc = "inserted" /\ new.id = nextId
    BY <2>1 DEF SendRecord
  <2> HIDE DEF new
  <2> QED BY <2>1, <2>2, <2>3
<1>3. TypeOK'
  BY <1>1, <1>2 DEF IInv, TypeOK, people, view, SendRecord
<1>4. Committed' = Committed /\ Live' = Live /\ cursor' = cursor /\ shown' = shown
      /\ answered' = answered /\ dev' = dev
  BY <1>1 DEF Committed, Live, Table, people, view
<1>5. IdsFollowCommits'
  <2>1. \A p, q \in Sends : Locks(p)' /\ Locks(q)' => p = q
    BY <1>1, <1>2 DEF IInv, IdsFollowCommits, Locks
  <2>2. /\ Committed \subseteq 1 .. nextId - 1
        /\ \A q \in Sends :
             /\ send[q].pc = "inserted" =>
                  send[q].id \in 1 .. nextId - 1 /\ \A m \in Committed : m < send[q].id
             /\ send[q].pc = "committed" => send[q].id \in Committed
    BY DEF IInv, IdsFollowCommits
  <2>3. Committed \subseteq 1 .. nextId' - 1 /\ \A m \in Committed : m < nextId
    BY <1>1, <2>2
  <2>4. \A q \in Sends :
          /\ send'[q].pc = "inserted" =>
               send'[q].id \in 1 .. nextId' - 1 /\ \A m \in Committed : m < send'[q].id
          /\ send'[q].pc = "committed" => send'[q].id \in Committed
    <3> SUFFICES ASSUME NEW q \in Sends
                 PROVE  /\ send'[q].pc = "inserted" =>
                             send'[q].id \in 1 .. nextId' - 1 /\ \A m \in Committed : m < send'[q].id
                        /\ send'[q].pc = "committed" => send'[q].id \in Committed
      OBVIOUS
    <3>1. CASE q = r
      BY <1>1, <1>2, <2>3, <3>1
    <3>2. CASE q # r
      BY <1>1, <1>2, <2>2, <3>2
    <3> QED BY <3>1, <3>2
  <2> QED BY <1>4, <2>1, <2>3, <2>4 DEF IdsFollowCommits
<1>6. CursorsAreIds' /\ CursorIsExact'
  BY <1>4 DEF IInv, CursorsAreIds, CursorIsExact
<1>7. PageMissesNothing'
  BY <1>4 DEF IInv, PageMissesNothing, IsOpen
<1> QED BY <1>3, <1>5, <1>6, <1>7 DEF IInv

\* The message that is committed has an id above every cursor.
LEMMA CommitSendInv ==
  ASSUME IInv, NEW r \in Sends, CommitSend(r)
  PROVE  IInv'
<1> DEFINE i == send[r].id
<1>1. /\ UNCHANGED <<people, nextId, withdrawn, dev, view, changes, faults>>
      /\ log' = Append(log, i) /\ log \in Seq(Nat) /\ i \in Nat
      /\ send[r].pc = "inserted" /\ i \in 1 .. nextId - 1
      /\ \A m \in Committed : m < i
  BY DEF CommitSend, IInv, TypeOK, IdsFollowCommits
<1>2. /\ send' \in [Sends -> SendRecord] /\ send'[r].pc \in {"done", "committed"}
      /\ send'[r].id = i
      /\ \A q \in Sends \ {r} : send'[q] = send[q]
  <2>1. send \in [Sends -> SendRecord]
    BY DEF IInv, TypeOK, SendRecord
  <2>2. PICK pc \in {"done", "committed"} : send' = [send EXCEPT ![r].pc = pc]
    BY DEF CommitSend
  <2>3. [send[r] EXCEPT !.pc = pc] \in SendRecord
    BY <2>1 DEF SendRecord
  <2> QED BY <2>1, <2>2, <2>3 DEF SendRecord
<1>3. Committed' = Committed \cup {i} /\ log' \in Seq(Nat)
  <2>1. log' \in Seq(Nat) /\ DOMAIN log' = DOMAIN log \cup {Len(log) + 1}
    BY <1>1
  <2>2. /\ \A k \in DOMAIN log : log'[k] = log[k] /\ k \in DOMAIN log'
        /\ log'[Len(log) + 1] = i
    BY <1>1
  <2> QED BY <2>1, <2>2 DEF Committed
<1>4. reads' \in SUBSET (Users \X Nat)
  <2>1. send[r].tab \in Tabs \cup {NoOne} /\ reads \in SUBSET (Users \X Nat)
    BY DEF IInv, TypeOK
  <2>2. send[r].tab # NoOne => Owner[send[r].tab] \in Users
    BY <2>1, OwnerIsUser DEF Devices
  <2>3. reads' = IF send[r].tab = NoOne THEN reads ELSE reads \cup {<<Owner[send[r].tab], i>>}
    BY DEF CommitSend
  <2>4. CASE send[r].tab = NoOne
    BY <2>1, <2>3, <2>4
  <2>5. CASE send[r].tab # NoOne
    <3>1. <<Owner[send[r].tab], i>> \in Users \X Nat
      BY <1>1, <2>2, <2>5
    <3> QED BY <2>1, <2>3, <2>5, <3>1
  <2> QED BY <2>4, <2>5
<1>5. TypeOK'
  BY <1>1, <1>2, <1>3, <1>4 DEF IInv, TypeOK, people, view, SendRecord
<1>6. IdsFollowCommits'
  <2>1. \A q \in Sends : Locks(q)' => q # r /\ Locks(q)
    BY <1>2 DEF Locks
  <2>2. \A q \in Sends : q # r => ~ Locks(q)
    BY <1>1 DEF IInv, IdsFollowCommits, Locks
  <2>3. \A q \in Sends : ~ Locks(q)' /\ send'[q].pc # "inserted"
    BY <2>1, <2>2 DEF Locks
  <2>4. Committed' \subseteq 1 .. nextId' - 1
    BY <1>1, <1>3 DEF IInv, IdsFollowCommits
  <2>5. \A q \in Sends : send'[q].pc = "committed" => send'[q].id \in Committed'
    BY <1>2, <1>3 DEF IInv, IdsFollowCommits
  <2> QED BY <2>3, <2>4, <2>5 DEF IdsFollowCommits
<1>7. cursor' = cursor /\ shown' = shown /\ answered' = answered /\ dev' = dev
  BY <1>1 DEF view
<1>8. CursorsAreIds'
  BY <1>3, <1>7 DEF IInv, CursorsAreIds
<1>9. \A d \in Devices : cursor[d] \in Nat /\ cursor[d] < i
  BY <1>1, TableFacts DEF IInv, CursorsAreIds, TypeOK
<1>10. CursorIsExact'
  <2>1. \A p \in Phones : ~ (i <= cursor[p])
    BY <1>1, <1>9 DEF Devices
  <2> QED BY <1>3, <1>7, <2>1 DEF IInv, CursorIsExact
<1>11. PageMissesNothing'
  <2>1. \A d \in Tabs : ~ (i <= cursor[d])
    BY <1>1, <1>9 DEF Devices
  <2>2. Live' \subseteq Live \cup {i}
    BY <1>1, <1>3 DEF Live, Table, people
  <2> QED BY <1>7, <2>1, <2>2 DEF IInv, PageMissesNothing, IsOpen
<1> QED BY <1>5, <1>6, <1>8, <1>10, <1>11 DEF IInv

\* Steps of a page or phone that receives messages: the rest of the room stands still.
LEMMA ViewInv ==
  ASSUME IInv, NEW d \in Devices, UNCHANGED <<log, nextId, withdrawn, room>>,
         TypeOK',
         \A e \in Devices \ {d} : cursor'[e] = cursor[e] /\ shown'[e] = shown[e] /\ dev'[e] = dev[e],
         answered' \ {d} = answered \ {d},
         \A q \in Sends : send'[q] = send[q] \/ send'[q].pc = "done",
         cursor'[d] \in Committed \cup {0},
         dev'[d].pc \in {"marking", "asking"} => dev'[d].after <= cursor'[d],
         d \in Phones => shown'[d] = {m \in Committed : m <= cursor'[d]},
         d \in Tabs /\ IsOpen(d)' /\ d \notin answered' =>
           \A m \in Live : m <= cursor'[d] => m \in shown'[d]
  PROVE  IInv'
<1>1. Committed' = Committed /\ Live' = Live
  BY DEF Committed, Live, Table
<1>2. IdsFollowCommits'
  BY <1>1 DEF IInv, IdsFollowCommits, Locks
<1>3. CursorsAreIds'
  BY <1>1 DEF IInv, CursorsAreIds
<1>4. CursorIsExact'
  BY <1>1 DEF IInv, CursorIsExact, Devices
<1>5. PageMissesNothing'
  BY <1>1 DEF IInv, PageMissesNothing, IsOpen, Devices
<1> QED BY <1>2, <1>3, <1>4, <1>5 DEF IInv

LEMMA TakeAnswerInv ==
  ASSUME IInv, NEW r \in Sends, TakeAnswer(r)
  PROVE  IInv'
<1> DEFINE t == send[r].tab
           i == send[r].id
<1>1. /\ t \in Tabs /\ t \in Devices /\ t \notin Phones /\ i \in Committed /\ i \in Nat
  BY ConstantsAssumption
     DEF TakeAnswer, IInv, TypeOK, IdsFollowCommits, Devices, ConstantsAssumption
<1>2. /\ UNCHANGED <<people, store, dev, changes, faults>>
      /\ answered' = answered \cup {t}
      /\ send' = [send EXCEPT ![r].pc = "done"]
      /\ shown' = [shown EXCEPT ![t] = shown[t] \cup {i}]
      /\ cursor' = [cursor EXCEPT ![t] = IF i > cursor[t] THEN i ELSE cursor[t]]
  BY DEF TakeAnswer
<1>3. TypeOK'
  <2>1. shown' \in [Devices -> SUBSET Nat] /\ cursor' \in [Devices -> Nat] /\ answered' \in SUBSET Tabs
    BY <1>1, <1>2 DEF IInv, TypeOK
  <2>2. send' \in [Sends -> SendRecord]
    <3>1. send \in [Sends -> SendRecord]
      BY DEF IInv, TypeOK, SendRecord
    <3>2. [send[r] EXCEPT !.pc = "done"] \in SendRecord
      BY <3>1 DEF SendRecord
    <3> QED BY <1>2, <3>1, <3>2
  <2> QED BY <1>2, <2>1, <2>2 DEF IInv, TypeOK, people, store, SendRecord
<1>4. cursor'[t] \in Committed \cup {0} /\ cursor[t] <= cursor'[t]
  BY <1>1, <1>2 DEF IInv, TypeOK, CursorsAreIds
<1>5. dev' = dev /\ (dev[t].pc \in {"marking", "asking"} => dev[t].after <= cursor'[t])
  BY <1>1, <1>2, <1>4 DEF IInv, TypeOK, CursorsAreIds
<1>6. \A e \in Devices \ {t} : cursor'[e] = cursor[e] /\ shown'[e] = shown[e] /\ dev'[e] = dev[e]
  BY <1>2 DEF IInv, TypeOK
<1>7. \A q \in Sends : send'[q] = send[q] \/ send'[q].pc = "done"
  BY <1>2 DEF IInv, TypeOK
<1>8. UNCHANGED <<log, nextId, withdrawn, room>> /\ answered' \ {t} = answered \ {t}
      /\ t \in answered'
  BY <1>2 DEF people, store
<1> HIDE DEF t, i
<1> QED BY <1>1, <1>3, <1>4, <1>5, <1>6, <1>7, <1>8, ViewInv

LEMMA OpenTabInv ==
  ASSUME IInv, NEW d \in Tabs, OpenTab(d)
  PROVE  IInv'
<1>1. d \in Devices /\ d \notin Phones /\ Owner[d] \in Users
  BY OwnerIsUser, ConstantsAssumption DEF Devices, ConstantsAssumption
<1>2. /\ UNCHANGED <<room, admins, mayReply, store, send, changes, faults>>
      /\ shown' = [shown EXCEPT ![d] = Table]
      /\ answered' = answered \ {d}
      /\ dev' = [dev EXCEPT ![d] = [pc |-> "marking", next |-> "idle", after |-> 0,
                                   snap |-> Unread(Owner[d])]]
  BY DEF OpenTab
<1>3. PICK top \in Table \cup {0} :
        (\A m \in Table : m <= top) /\ cursor' = [cursor EXCEPT ![d] = top]
  BY DEF OpenTab
<1>4. top \in Nat /\ top \in Committed \cup {0} /\ Table \in SUBSET Nat
  BY TableFacts
<1>5. TypeOK'
  <2>1. shown' \in [Devices -> SUBSET Nat] /\ cursor' \in [Devices -> Nat] /\ answered' \in SUBSET Tabs
    BY <1>2, <1>3, <1>4 DEF IInv, TypeOK
  <2>2. dev' \in [Devices -> DevRecord]
    <3>1. [pc |-> "marking", next |-> "idle", after |-> 0, snap |-> Unread(Owner[d])] \in DevRecord
      BY <1>1, UnreadIsIds DEF DevRecord
    <3> QED BY <1>2, <3>1 DEF IInv, TypeOK, DevRecord
  <2>3. membership' \in [Users -> {"none", "member", "blocked"}]
    BY <1>1 DEF OpenTab, IInv, TypeOK
  <2> QED BY <1>2, <2>1, <2>2, <2>3 DEF IInv, TypeOK, store, DevRecord
<1>6. /\ cursor'[d] = top /\ shown'[d] = Table /\ dev'[d].after = 0
      /\ \A e \in Devices \ {d} : cursor'[e] = cursor[e] /\ shown'[e] = shown[e] /\ dev'[e] = dev[e]
  BY <1>1, <1>2, <1>3 DEF IInv, TypeOK
<1>7. UNCHANGED <<log, nextId, withdrawn, room>> /\ answered' \ {d} = answered \ {d}
      /\ \A q \in Sends : send'[q] = send[q]
  BY <1>2 DEF store
<1>8. \A m \in Live : m <= cursor'[d] => m \in shown'[d]
  BY <1>6, TableFacts
<1>9. dev'[d].after <= cursor'[d]
  BY <1>4, <1>6
<1> QED BY <1>1, <1>4, <1>5, <1>6, <1>7, <1>8, <1>9, ViewInv

LEMMA CloseTabInv ==
  ASSUME IInv, NEW d \in Tabs, CloseTab(d)
  PROVE  IInv'
<1>1. d \in Devices /\ d \notin Phones
  BY ConstantsAssumption DEF Devices, ConstantsAssumption
<1>2. /\ UNCHANGED <<people, store, faults>>
      /\ shown' = [shown EXCEPT ![d] = {}] /\ cursor' = [cursor EXCEPT ![d] = 0]
      /\ answered' = answered \ {d} /\ dev' = [dev EXCEPT ![d] = Quiet("closed")]
      /\ changes' = changes + 1
  BY DEF CloseTab
<1>3. /\ send' \in [Sends -> SendRecord]
      /\ \A q \in Sends : send'[q] = send[q] \/ send'[q].pc = "done"
  <2>1. \A q \in Sends : send[q] \in SendRecord
    BY DEF IInv, TypeOK, SendRecord
  <2>2. \A q \in Sends : [send[q] EXCEPT !.pc = "done"] \in SendRecord
                         /\ [send[q] EXCEPT !.pc = "done"].pc = "done"
    BY <2>1 DEF SendRecord
  <2> QED BY <2>1, <2>2 DEF CloseTab
<1>4. TypeOK'
  <2>1. shown' \in [Devices -> SUBSET Nat] /\ cursor' \in [Devices -> Nat] /\ answered' \in SUBSET Tabs
        /\ changes' \in Nat
    <3>1. /\ shown \in [Devices -> SUBSET Nat] /\ cursor \in [Devices -> Nat]
          /\ answered \in SUBSET Tabs /\ changes \in Nat
      BY DEF IInv, TypeOK
    <3>2. {} \in SUBSET Nat /\ 0 \in Nat
      OBVIOUS
    <3>3. shown' \in [Devices -> SUBSET Nat] /\ cursor' \in [Devices -> Nat]
      BY <1>2, <3>1, <3>2
    <3> QED BY <1>2, <3>1, <3>3
  <2>2. dev' \in [Devices -> DevRecord]
    BY <1>2, QuietIsDev DEF IInv, TypeOK, DevRecord
  <2> QED BY <1>2, <1>3, <2>1, <2>2 DEF IInv, TypeOK, people, store, DevRecord, SendRecord
<1>5. /\ cursor'[d] = 0 /\ dev'[d].pc = "closed"
      /\ \A e \in Devices \ {d} : cursor'[e] = cursor[e] /\ shown'[e] = shown[e] /\ dev'[e] = dev[e]
  BY <1>1, <1>2 DEF IInv, TypeOK, Quiet
<1>6. UNCHANGED <<log, nextId, withdrawn, room>> /\ answered' \ {d} = answered \ {d}
  BY <1>2 DEF people, store
<1>7. ~ IsOpen(d)'
  BY <1>5 DEF IsOpen
<1> QED BY <1>1, <1>3, <1>4, <1>5, <1>6, <1>7, ViewInv
-----------------------------------------------------------------------------
\* What an answer brings is everything between the cursor and the new cursor.
LEMMA ReceiveFacts ==
  ASSUME IInv, NEW d \in Devices, NEW rows \in SUBSET Committed, Receive(d, First(rows))
  PROVE  /\ shown' \in [Devices -> SUBSET Nat] /\ cursor' \in [Devices -> Nat]
         /\ answered' = answered /\ cursor[d] <= cursor'[d]
         /\ shown'[d] = shown[d] \cup First(rows)
         /\ cursor'[d] \in First(rows) \cup {cursor[d]}
         /\ \A m \in First(rows) : m <= cursor'[d]
         /\ \A e \in Devices \ {d} : cursor'[e] = cursor[e] /\ shown'[e] = shown[e]
         /\ \A m \in rows : cursor[d] < m /\ m <= cursor'[d] => m \in First(rows)
<1> DEFINE batch == First(rows)
<1>1. batch \subseteq rows /\ batch \subseteq Nat /\ rows \subseteq Nat
  BY TableFacts DEF First
<1>2. PICK top \in batch \cup {cursor[d]} :
        /\ \A m \in batch \cup {cursor[d]} : m <= top
        /\ cursor' = [cursor EXCEPT ![d] = top]
  BY DEF Receive
<1>3. /\ shown' = [shown EXCEPT ![d] = shown[d] \cup batch] /\ answered' = answered
      /\ cursor \in [Devices -> Nat] /\ shown \in [Devices -> SUBSET Nat] /\ top \in Nat
  BY <1>1, <1>2 DEF Receive, IInv, TypeOK
<1>4. cursor'[d] = top /\ shown'[d] = shown[d] \cup batch
  BY <1>2, <1>3
<1>5. \A m \in rows : cursor[d] < m /\ m <= top => m \in batch
  <2> SUFFICES ASSUME NEW m \in rows, cursor[d] < m, m <= top PROVE m \in batch
    OBVIOUS
  <2>1. top \in batch
    BY <1>1, <1>2, <1>3
  <2> QED BY <2>1, FirstIsLow
<1> HIDE DEF batch
<1>6. shown' \in [Devices -> SUBSET Nat] /\ cursor' \in [Devices -> Nat]
  BY <1>1, <1>2, <1>3
<1>7. \A e \in Devices \ {d} : cursor'[e] = cursor[e] /\ shown'[e] = shown[e]
  BY <1>2, <1>3
<1> QED BY <1>2, <1>3, <1>4, <1>5, <1>6, <1>7 DEF batch

LEMMA PollAnswerInv ==
  ASSUME IInv, NEW d \in Tabs, PollAnswer(d)
  PROVE  IInv'
<1> DEFINE rows == {m \in Live : m > dev[d].after}
<1>1. d \in Devices /\ d \notin Phones
  BY ConstantsAssumption DEF Devices, ConstantsAssumption
<1>2. /\ dev[d].pc = "asking" /\ Receive(d, First(rows))
      /\ dev' = [dev EXCEPT ![d] = Quiet("idle")]
      /\ UNCHANGED <<people, store, send, changes, faults>>
      /\ rows \in SUBSET Committed /\ dev[d].after <= cursor[d]
  BY <1>1, TableFacts DEF PollAnswer, IInv, CursorsAreIds
<1>3. /\ shown' \in [Devices -> SUBSET Nat] /\ cursor' \in [Devices -> Nat]
      /\ answered' = answered
      /\ shown'[d] = shown[d] \cup First(rows)
      /\ cursor'[d] \in First(rows) \cup {cursor[d]}
      /\ \A e \in Devices \ {d} : cursor'[e] = cursor[e] /\ shown'[e] = shown[e]
      /\ \A m \in rows : cursor[d] < m /\ m <= cursor'[d] => m \in First(rows)
  BY <1>1, <1>2, ReceiveFacts
<1>4. TypeOK'
  <2>1. dev' \in [Devices -> DevRecord]
    BY <1>2, QuietIsDev DEF IInv, TypeOK, DevRecord
  <2> QED BY <1>2, <1>3, <2>1 DEF IInv, TypeOK, people, store, DevRecord
<1>5. cursor'[d] \in Committed \cup {0}
  <2>1. First(rows) \subseteq rows
    BY DEF First
  <2>2. cursor[d] \in Committed \cup {0}
    BY <1>1 DEF IInv, CursorsAreIds
  <2> QED BY <1>2, <1>3, <2>1, <2>2
<1>6. IsOpen(d) /\ dev'[d].pc = "idle" /\ \A e \in Devices \ {d} : dev'[e] = dev[e]
  BY <1>1, <1>2 DEF IInv, TypeOK, IsOpen, Quiet
<1>7. d \notin answered' => \A m \in Live : m <= cursor'[d] => m \in shown'[d]
  <2> SUFFICES ASSUME d \notin answered, NEW m \in Live, m <= cursor'[d] PROVE m \in shown'[d]
    BY <1>3
  <2>1. CASE m <= cursor[d]
    BY <1>3, <1>6, <2>1 DEF IInv, PageMissesNothing
  <2>2. CASE ~ (m <= cursor[d])
    <3>1. m \in Nat /\ cursor[d] \in Nat /\ dev[d].after \in Nat
      BY <1>1, TableFacts DEF IInv, TypeOK
    <3>2. cursor[d] < m /\ m > dev[d].after
      BY <1>2, <2>2, <3>1
    <3> QED BY <1>3, <3>2
  <2> QED BY <2>1, <2>2
<1>8. UNCHANGED <<log, nextId, withdrawn, room>> /\ \A q \in Sends : send'[q] = send[q]
  BY <1>2 DEF people, store
<1> HIDE DEF rows
<1> QED BY <1>1, <1>3, <1>4, <1>5, <1>6, <1>7, <1>8, ViewInv

LEMMA FetchInv ==
  ASSUME IInv, NEW p \in Phones, Fetch(p)
  PROVE  IInv'
<1> DEFINE rows == {m \in Table : m > cursor[p]}
<1>1. p \in Devices /\ p \notin Tabs /\ room # "gone"
  BY ConstantsAssumption DEF Devices, ConstantsAssumption, Fetch, PhoneMayRead
<1>2. /\ Receive(p, First(rows)) /\ rows \in SUBSET Committed
      /\ UNCHANGED <<people, store, send, dev, changes, faults>> /\ Table = Committed
  BY <1>1, TableFacts DEF Fetch, Table
<1>3. /\ shown' \in [Devices -> SUBSET Nat] /\ cursor' \in [Devices -> Nat]
      /\ answered' = answered /\ cursor[p] <= cursor'[p]
      /\ shown'[p] = shown[p] \cup First(rows)
      /\ cursor'[p] \in First(rows) \cup {cursor[p]}
      /\ \A m \in First(rows) : m <= cursor'[p]
      /\ \A e \in Devices \ {p} : cursor'[e] = cursor[e] /\ shown'[e] = shown[e]
      /\ \A m \in rows : cursor[p] < m /\ m <= cursor'[p] => m \in First(rows)
  BY <1>1, <1>2, ReceiveFacts
<1>4. TypeOK'
  BY <1>2, <1>3 DEF IInv, TypeOK, people, store
<1>5. First(rows) \subseteq rows
  BY DEF First
<1>6. cursor'[p] \in Committed \cup {0} /\ cursor[p] \in Nat /\ cursor'[p] \in Nat
  BY <1>1, <1>2, <1>3, <1>5 DEF IInv, CursorsAreIds, TypeOK
<1>7. shown'[p] = {m \in Committed : m <= cursor'[p]}
  <2>1. shown[p] = {m \in Committed : m <= cursor[p]}
    BY DEF IInv, CursorIsExact
  <2>2. Committed \subseteq Nat
    BY TableFacts
  <2>3. \A m \in Committed : m <= cursor'[p] => m \in shown[p] \cup First(rows)
    BY <1>2, <1>3, <1>6, <2>1, <2>2
  <2>4. \A m \in First(rows) : m \in Committed /\ m <= cursor'[p]
    BY <1>2, <1>3, <1>5
  <2>5. \A m \in shown[p] : m \in Committed /\ m <= cursor'[p]
    <3> HIDE DEF rows
    <3>1. cursor[p] <= cursor'[p]
      BY <1>3
    <3>2. cursor[p] \in Nat /\ cursor'[p] \in Nat
      BY <1>6
    <3> SUFFICES ASSUME NEW m \in shown[p] PROVE m \in Committed /\ m <= cursor'[p]
      OBVIOUS
    <3>3. m \in Committed /\ m <= cursor[p]
      BY <2>1
    <3>4. m \in Nat
      BY <2>2, <3>3
    <3> QED BY <3>1, <3>2, <3>3, <3>4
  <2> QED BY <2>5, <1>3, <2>3, <2>4
<1>8. dev'[p].pc \in {"marking", "asking"} => dev'[p].after <= cursor'[p]
  BY <1>1, <1>2, <1>3, <1>6 DEF IInv, CursorsAreIds, TypeOK
<1>9. /\ UNCHANGED <<log, nextId, withdrawn, room>> /\ dev' = dev
      /\ \A q \in Sends : send'[q] = send[q]
  BY <1>2 DEF people, store
<1>10. /\ \A e \in Devices \ {p} : cursor'[e] = cursor[e] /\ shown'[e] = shown[e] /\ dev'[e] = dev[e]
       /\ answered' \ {p} = answered \ {p}
  <2> HIDE DEF rows
  <2>1. answered' = answered
    BY <1>3
  <2>2. \A e \in Devices \ {p} : cursor'[e] = cursor[e] /\ shown'[e] = shown[e]
    BY <1>3
  <2>3. \A e \in Devices : dev'[e] = dev[e]
    BY <1>9
  <2>4. answered' \ {p} = answered \ {p}
    BY <2>1
  <2> QED BY <2>2, <2>3, <2>4
<1> HIDE DEF rows
<1> QED BY <1>1, <1>4, <1>6, <1>7, <1>8, <1>9, <1>10, ViewInv
-----------------------------------------------------------------------------
LEMMA NextInv == IInv /\ [Next]_vars => IInv'
<1> SUFFICES ASSUME IInv, [Next]_vars PROVE IInv'
  OBVIOUS
<1>1. ASSUME NEW r \in Sends,
             \/ \E u \in Users, t \in Tabs \cup {NoOne} : SendBegin(r, u, t)
             \/ LockRoom(r) \/ LockFails(r) \/ Insert(r) \/ CommitSend(r)
             \/ AbortSend(r) \/ TakeAnswer(r) \/ LoseAnswer(r)
      PROVE  IInv'
  BY <1>1, SendStillInv, InsertInv, CommitSendInv, TakeAnswerInv
<1>2. ASSUME NEW d \in Tabs,
             OpenTab(d) \/ CloseTab(d) \/ PollBegin(d) \/ PollAnswer(d) \/ PollLost(d)
      PROVE  IInv'
  <2>1. d \in Devices
    BY DEF Devices
  <2> QED BY <1>2, <2>1, OpenTabInv, CloseTabInv, DevStillInv, PollAnswerInv
<1>3. ASSUME NEW d \in Devices, Mark(d) \/ MarkFails(d)
      PROVE  IInv'
  BY <1>3, DevStillInv
<1>4. ASSUME NEW p \in Phones, Fetch(p) \/ PhoneRead(p)
      PROVE  IInv'
  <2>1. p \in Devices
    BY DEF Devices
  <2> QED BY <1>4, <2>1, FetchInv, DevStillInv
<1>5. CASE \/ CloseRoom \/ ReopenRoom \/ ChangeReplies \/ DeleteRoom
           \/ \E u \in Users, to \in {"none", "member", "blocked"} : ChangeMember(u, to)
           \/ \E m \in Ids : DeleteMessage(m)
  BY <1>5, OfficeInv
<1>6. CASE UNCHANGED vars
  <2>1. /\ UNCHANGED <<people, store, send, dev, view, changes, faults>>
    BY <1>6 DEF vars
  <2>2. TypeOK'
    BY <2>1 DEF IInv, TypeOK, people, store, view
  <2> QED BY <2>1, <2>2 DEF IInv, people, store, view, IdsFollowCommits, Locks, CursorsAreIds,
                CursorIsExact, PageMissesNothing, IsOpen, Live, Table, Committed
<1> QED BY <1>1, <1>2, <1>3, <1>4, <1>5, <1>6 DEF Next

LEMMA Invariance == Spec => []IInv
BY InitInv, NextInv, PTL DEF Spec

\* Every variable keeps its type.
THEOREM TypeCorrect == Spec => []TypeOK
<1>1. IInv => TypeOK
  BY DEF IInv
<1> QED BY Invariance, <1>1, PTL

\* A phone that drains the room with after_id has, up to its cursor, every message
\* that was ever committed: nothing is committed below a cursor.
THEOREM CursorsAreExact == Spec => []CursorIsExact
<1>1. IInv => CursorIsExact
  BY DEF IInv
<1> QED BY Invariance, <1>1, PTL

\* A page that has sent nothing since it was opened shows every message it has passed.
THEOREM PagesMissNothing == Spec => []PageMissesNothing
<1>1. IInv => PageMissesNothing
  BY DEF IInv
<1> QED BY Invariance, <1>1, PTL

\* Within the room the order of the ids is the order of the commits (chat_send_lock.py):
\* the message that is being written has the largest id.
THEOREM IdOrderIsCommitOrder == Spec => []IdsFollowCommits
<1>1. IInv => IdsFollowCommits
  BY DEF IInv
<1> QED BY Invariance, <1>1, PTL
-----------------------------------------------------------------------------
(* The refinement of RoomLog. Two facts more about the ids: the log is in   *)
(* their order, and no request takes a second one, so that NumSends are     *)
(* enough.                                                                  *)

Numbered == {r \in Sends : send[r].id # 0}

LogInv ==
  /\ \A i, j \in DOMAIN log : i < j => log[i] < log[j]
  /\ \A r \in Sends : send[r].pc \in {"idle", "admitted", "locked"} => send[r].id = 0
  /\ Cardinality(Numbered) = nextId - 1

LEMMA SendsAreFinite == IsFiniteSet(Sends) /\ Cardinality(Sends) = NumSends
BY FS_Interval, ConstantsAssumption DEF Sends, ConstantsAssumption

LEMMA InitLog == Init => LogInv
<1> SUFFICES ASSUME Init PROVE LogInv
  OBVIOUS
<1>1. Numbered = {}
  BY DEF Init, NoSend, Numbered
<1>2. Cardinality(Numbered) = nextId - 1
  BY <1>1, FS_EmptySet DEF Init
<1> QED BY <1>2 DEF Init, LogInv, NoSend

\* What a step does to the ids of the requests and to the log.
LEMMA SameIds ==
  ASSUME LogInv, UNCHANGED <<log, nextId>>,
         \A r \in Sends : /\ send'[r].id = send[r].id
                          /\ send'[r].pc \in {"idle", "admitted", "locked"} =>
                               send[r].pc \in {"idle", "admitted", "locked"}
  PROVE  LogInv'
<1>1. Numbered' = Numbered
  BY DEF Numbered
<1> QED BY <1>1 DEF LogInv

LEMMA SameSends ==
  ASSUME LogInv, UNCHANGED store \/ UNCHANGED <<log, nextId>>, send' = send
  PROVE  LogInv'
BY SameIds DEF store

LEMMA SendLog ==
  ASSUME IInv, LogInv, NEW r \in Sends,
         \/ \E u \in Users, t \in Tabs \cup {NoOne} : SendBegin(r, u, t)
         \/ LockRoom(r) \/ LockFails(r) \/ AbortSend(r) \/ TakeAnswer(r) \/ LoseAnswer(r)
  PROVE  LogInv' /\ log' = log
<1>1. send \in [Sends -> SendRecord]
  BY DEF IInv, TypeOK, SendRecord
<1>2. UNCHANGED <<log, nextId>>
  BY DEF SendBegin, LockRoom, LockFails, AbortSend, TakeAnswer, LoseAnswer, store
<1>3. \A q \in Sends : /\ send'[q].id = send[q].id
                       /\ send'[q].pc \in {"idle", "admitted", "locked"} =>
                            send[q].pc \in {"idle", "admitted", "locked"}
  <2>1. ASSUME NEW u \in Users, NEW t \in Tabs \cup {NoOne}, SendBegin(r, u, t)
        PROVE  /\ send[r].pc = "idle" /\ send'[r].id = 0
               /\ \A q \in Sends \ {r} : send'[q] = send[q]
    BY <1>1, <2>1 DEF SendBegin
  <2>2. ASSUME LockRoom(r) \/ LockFails(r) \/ AbortSend(r) \/ TakeAnswer(r) \/ LoseAnswer(r)
        PROVE  /\ send'[r].id = send[r].id
               /\ send'[r].pc = "locked" => send[r].pc = "admitted"
               /\ send'[r].pc \in {"locked", "done"}
               /\ \A q \in Sends \ {r} : send'[q] = send[q]
    BY <1>1, <2>2 DEF LockRoom, LockFails, AbortSend, TakeAnswer, LoseAnswer, SendRecord
  <2> QED BY <2>1, <2>2 DEF LogInv
<1> QED BY <1>2, <1>3, SameIds

LEMMA InsertLog ==
  ASSUME IInv, LogInv, NEW r \in Sends, Insert(r)
  PROVE  LogInv' /\ log' = log
<1>1. send \in [Sends -> SendRecord] /\ nextId \in Nat \ {0}
  BY DEF IInv, TypeOK, SendRecord
<1>2. /\ log' = log /\ nextId' = nextId + 1 /\ send[r].pc = "locked"
      /\ send'[r].pc = "inserted" /\ send'[r].id = nextId
      /\ \A q \in Sends \ {r} : send'[q] = send[q]
  BY <1>1 DEF Insert, SendRecord
<1>3. r \notin Numbered /\ Numbered' = Numbered \cup {r}
  BY <1>1, <1>2 DEF Numbered, LogInv
<1>4. IsFiniteSet(Numbered)
  BY SendsAreFinite, FS_Subset DEF Numbered
<1>5. Cardinality(Numbered') = Cardinality(Numbered) + 1
  BY <1>3, <1>4, FS_AddElement
<1>6. Cardinality(Numbered') = nextId' - 1
  BY <1>1, <1>2, <1>5 DEF LogInv
<1>7. \A q \in Sends : send'[q].pc \in {"idle", "admitted", "locked"} => send'[q].id = 0
  BY <1>2 DEF LogInv
<1> QED BY <1>2, <1>6, <1>7 DEF LogInv

\* The id of a request is one of the ids that the requests are enough for.
LEMMA IdsSuffice == ASSUME IInv, LogInv PROVE nextId - 1 <= NumSends
<1>1. Cardinality(Numbered) <= Cardinality(Sends)
  BY SendsAreFinite, FS_Subset DEF Numbered
<1> QED BY <1>1, SendsAreFinite DEF LogInv

LEMMA CommitLog ==
  ASSUME IInv, LogInv, NEW r \in Sends, CommitSend(r)
  PROVE  /\ LogInv' /\ shown' = shown
         /\ \E m \in Ids : /\ \A i \in DOMAIN log : log[i] # m
                           /\ log' = Append(log, m)
<1> DEFINE m == send[r].id
<1>1. /\ send \in [Sends -> SendRecord] /\ log \in Seq(Nat) /\ nextId \in Nat
      /\ send[r].pc = "inserted" /\ m \in 1 .. nextId - 1 /\ m \in Nat
      /\ log' = Append(log, m) /\ nextId' = nextId /\ shown' = shown
      /\ \A k \in Committed : k < m
  BY DEF CommitSend, IInv, TypeOK, IdsFollowCommits, SendRecord, view
<1>2. /\ send'[r].id = send[r].id /\ send'[r].pc \in {"done", "committed"}
      /\ \A q \in Sends \ {r} : send'[q] = send[q]
  BY <1>1 DEF CommitSend, SendRecord
<1>3. Numbered' = Numbered /\ Cardinality(Numbered') = nextId' - 1
  BY <1>1, <1>2 DEF Numbered, LogInv
<1>4. \A q \in Sends : send'[q].pc \in {"idle", "admitted", "locked"} => send'[q].id = 0
  BY <1>2 DEF LogInv
<1>5. \A i \in DOMAIN log : log[i] \in Nat /\ log[i] < m
  BY <1>1 DEF Committed
<1> HIDE DEF m
<1>6. \A i, j \in DOMAIN log' : i < j => log'[i] < log'[j]
  <2>1. /\ DOMAIN log' = 1 .. Len(log) + 1 /\ DOMAIN log = 1 .. Len(log) /\ Len(log) \in Nat
        /\ \A i \in DOMAIN log : log'[i] = log[i]
        /\ log'[Len(log) + 1] = m
    BY <1>1
  <2> SUFFICES ASSUME NEW i \in DOMAIN log', NEW j \in DOMAIN log', i < j
               PROVE  log'[i] < log'[j]
    OBVIOUS
  <2>2. i \in DOMAIN log
    BY <2>1
  <2>3. CASE j \in DOMAIN log
    BY <2>1, <2>2, <2>3 DEF LogInv
  <2>4. CASE j = Len(log) + 1
    BY <1>5, <2>1, <2>2, <2>4
  <2> QED BY <2>1, <2>3, <2>4
<1>7. LogInv'
  BY <1>3, <1>4, <1>6 DEF LogInv
<1>8. m \in Ids /\ \A i \in DOMAIN log : log[i] # m
  BY <1>1, <1>5, IdsSuffice, ConstantsAssumption DEF Ids, ConstantsAssumption
<1> QED BY <1>1, <1>7, <1>8

\* Everything else but a phone's fetch leaves the log and what the phones hold alone.
LEMMA TabLog ==
  ASSUME IInv, LogInv, NEW d \in Tabs,
         OpenTab(d) \/ CloseTab(d) \/ PollBegin(d) \/ PollAnswer(d) \/ PollLost(d)
  PROVE  LogInv' /\ log' = log /\ \A p \in Phones : shown'[p] = shown[p]
<1>1. send \in [Sends -> SendRecord] /\ shown \in [Devices -> SUBSET Nat]
  BY DEF IInv, TypeOK, SendRecord
<1>2. UNCHANGED <<log, nextId>>
  BY DEF OpenTab, CloseTab, PollBegin, PollAnswer, PollLost, store
<1>3. \A q \in Sends : /\ send'[q].id = send[q].id
                       /\ send'[q].pc \in {"idle", "admitted", "locked"} =>
                            send[q].pc \in {"idle", "admitted", "locked"}
  <2>1. CASE CloseTab(d)
    BY <1>1, <2>1 DEF CloseTab, SendRecord
  <2>2. CASE OpenTab(d) \/ PollBegin(d) \/ PollAnswer(d) \/ PollLost(d)
    BY <2>2 DEF OpenTab, PollBegin, PollAnswer, PollLost
  <2> QED BY <2>1, <2>2
<1>4. \A p \in Phones : p \in Devices /\ p # d
  BY ConstantsAssumption DEF ConstantsAssumption, Devices
<1>5. \A p \in Phones : shown'[p] = shown[p]
  BY <1>1, <1>4 DEF OpenTab, CloseTab, PollBegin, PollAnswer, PollLost, Receive, view
<1> QED BY <1>2, <1>3, <1>5, SameIds

LEMMA OtherLog ==
  ASSUME LogInv,
         \/ \E d \in Devices : Mark(d) \/ MarkFails(d)
         \/ \E p \in Phones : PhoneRead(p)
         \/ CloseRoom \/ ReopenRoom \/ ChangeReplies \/ DeleteRoom
         \/ \E u \in Users, to \in {"none", "member", "blocked"} : ChangeMember(u, to)
         \/ \E m \in Ids : DeleteMessage(m)
         \/ UNCHANGED vars
  PROVE  LogInv' /\ log' = log /\ shown' = shown
<1>1. UNCHANGED <<log, nextId, send, shown>>
  BY DEF Mark, MarkFails, PhoneRead, CloseRoom, ReopenRoom, ChangeReplies, DeleteRoom,
         ChangeMember, DeleteMessage, vars, store, view
<1> QED BY <1>1, SameSends

LEMMA AnswerShows ==
  ASSUME IInv, NEW r \in Sends,
         \/ \E u \in Users, t \in Tabs \cup {NoOne} : SendBegin(r, u, t)
         \/ LockRoom(r) \/ LockFails(r) \/ Insert(r) \/ AbortSend(r)
         \/ TakeAnswer(r) \/ LoseAnswer(r)
  PROVE  \A p \in Phones : shown'[p] = shown[p]
<1>1. send[r].tab \in Tabs \cup {NoOne} /\ shown \in [Devices -> SUBSET Nat]
  BY DEF IInv, TypeOK
<1>2. \A p \in Phones : p \in Devices /\ p \notin Tabs
  BY ConstantsAssumption DEF ConstantsAssumption, Devices
<1>3. CASE TakeAnswer(r)
  BY <1>1, <1>2, <1>3 DEF TakeAnswer
<1>4. CASE ~ TakeAnswer(r)
  BY <1>4 DEF SendBegin, LockRoom, LockFails, Insert, AbortSend, LoseAnswer, view
<1> QED BY <1>3, <1>4

\* The messages of the first n places of the log, and their order.
Below(n) == {log[i] : i \in 1 .. n}

LEMMA BelowIsCounted ==
  ASSUME LogInv, log \in Seq(Nat), NEW n \in 0 .. Len(log)
  PROVE  IsFiniteSet(Below(n)) /\ Cardinality(Below(n)) = n
<1> DEFINE place == [i \in 1 .. n |-> log[i]]
<1>1. IsFiniteSet(1 .. n) /\ Cardinality(1 .. n) = n
  BY FS_Interval
<1>2. place \in Bijection(1 .. n, Below(n))
  <2>1. place \in [1 .. n -> Below(n)]
    BY DEF Below
  <2>2. \A i, j \in 1 .. n : i # j => log[i] # log[j]
    <3> SUFFICES ASSUME NEW i \in 1 .. n, NEW j \in 1 .. n, i # j PROVE log[i] # log[j]
      OBVIOUS
    <3>1. i \in DOMAIN log /\ j \in DOMAIN log /\ log[i] \in Nat /\ log[j] \in Nat
      OBVIOUS
    <3>2. i < j \/ j < i
      OBVIOUS
    <3> QED BY <3>1, <3>2 DEF LogInv
  <2>3. \A m \in Below(n) : \E i \in 1 .. n : place[i] = m
    BY DEF Below
  <2> QED BY <2>1, <2>2, <2>3, Fun_IsBij
<1> QED BY <1>1, <1>2, FS_Bijection DEF ExistsBijection

LEMMA BelowInOrder ==
  ASSUME LogInv, log \in Seq(Nat), NEW n \in 0 .. Len(log)
  PROVE  InOrder(Below(n)) = SubSeq(log, 1, n)
<1>1. \A i \in 1 .. n : i \in DOMAIN log /\ log[i] \in Below(n) /\ log[i] \in Nat
  BY DEF Below
<1>2. \A i \in 1 .. n : {k \in Below(n) : k < log[i]} = Below(i - 1)
  <2> SUFFICES ASSUME NEW i \in 1 .. n PROVE {k \in Below(n) : k < log[i]} = Below(i - 1)
    OBVIOUS
  <2>1. \A j \in 1 .. n : log[j] < log[i] <=> j \in 1 .. i - 1
    <3> SUFFICES ASSUME NEW j \in 1 .. n PROVE log[j] < log[i] <=> j < i
      OBVIOUS
    <3>1. (j < i => log[j] < log[i]) /\ (i < j => log[i] < log[j])
      BY <1>1 DEF LogInv
    <3>2. log[i] \in Nat /\ log[j] \in Nat
      BY <1>1
    <3>3. i = j => log[i] = log[j]
      OBVIOUS
    <3> QED BY <3>1, <3>2, <3>3
  <2> QED BY <2>1 DEF Below
<1>3. \A i \in 1 .. n : Cardinality({k \in Below(n) : k < log[i]}) = i - 1
  <2> SUFFICES ASSUME NEW i \in 1 .. n PROVE Cardinality(Below(i - 1)) = i - 1
    BY <1>2
  <2>1. i - 1 \in 0 .. Len(log)
    OBVIOUS
  <2> QED BY <2>1, BelowIsCounted
<1>4. \A i \in 1 .. n : (CHOOSE m \in Below(n) : Cardinality({k \in Below(n) : k < m}) = i - 1) = log[i]
  <2> SUFFICES ASSUME NEW i \in 1 .. n,
                      NEW m \in Below(n), Cardinality({k \in Below(n) : k < m}) = i - 1
               PROVE  m = log[i]
    BY <1>1, <1>3
  <2>1. PICK j \in 1 .. n : m = log[j]
    BY DEF Below
  <2>2. i - 1 = j - 1
    BY <1>3, <2>1
  <2> QED BY <2>1, <2>2
<1>5. InOrder(Below(n)) = [i \in 1 .. n |-> log[i]]
  BY <1>4, BelowIsCounted DEF InOrder
<1>6. SubSeq(log, 1, n) = [i \in 1 .. n |-> log[i]]
  BY <1>1
<1> QED BY <1>5, <1>6

\* What a phone has received are the messages of the first places of the log.
LEMMA ShownIsBelow ==
  ASSUME IInv, LogInv, NEW p \in Phones
  PROVE  \E n \in 0 .. Len(log) : shown[p] = Below(n) /\ InOrder(shown[p]) = SubSeq(log, 1, n)
<1>1. /\ log \in Seq(Nat) /\ p \in Devices /\ cursor[p] \in Nat
      /\ shown[p] = {m \in Committed : m <= cursor[p]}
      /\ cursor[p] \in Committed \cup {0}
  BY DEF IInv, TypeOK, CursorIsExact, CursorsAreIds, Devices
<1>2. CASE cursor[p] = 0
  <2>1. shown[p] = {} /\ Below(0) = {}
    BY <1>1, <1>2, TableFacts DEF Below
  <2>2. 0 \in 0 .. Len(log)
    BY <1>1
  <2>3. InOrder(Below(0)) = SubSeq(log, 1, 0)
    BY <1>1, <2>2, BelowInOrder
  <2> QED BY <2>1, <2>2, <2>3, Zenon
<1>3. CASE cursor[p] \in Committed
  <2>1. PICK n \in DOMAIN log : cursor[p] = log[n]
    BY <1>3 DEF Committed
  <2>2. \A i \in DOMAIN log : log[i] \in Nat /\ (log[i] <= log[n] <=> i <= n)
    <3> SUFFICES ASSUME NEW i \in DOMAIN log PROVE log[i] \in Nat /\ (log[i] <= log[n] <=> i <= n)
      OBVIOUS
    <3>1. log[i] \in Nat /\ log[n] \in Nat /\ i \in Nat /\ n \in Nat
      BY <1>1
    <3>2. (i < n => log[i] < log[n]) /\ (n < i => log[n] < log[i]) /\ (i = n => log[i] = log[n])
      BY DEF LogInv
    <3> QED BY <3>1, <3>2
  <2>3. n \in 1 .. Len(log) /\ DOMAIN log = 1 .. Len(log)
    BY <1>1
  <2>4. shown[p] = Below(n)
    BY <1>1, <2>1, <2>2, <2>3 DEF Below, Committed
  <2>5. n \in 0 .. Len(log)
    BY <1>1, <2>3
  <2>6. InOrder(Below(n)) = SubSeq(log, 1, n)
    BY <1>1, <2>5, BelowInOrder
  <2> QED BY <2>4, <2>5, <2>6, Zenon
<1> QED BY <1>1, <1>2, <1>3

PhonesHoldPrefixes ==
  \A p \in Phones :
    \E n \in 0 .. Len(log) : shown[p] = Below(n) /\ InOrder(shown[p]) = SubSeq(log, 1, n)

LEMMA ShownStaysBelow == IInv' /\ LogInv' => PhonesHoldPrefixes'
<1>1. IInv /\ LogInv => PhonesHoldPrefixes
  BY ShownIsBelow DEF PhonesHoldPrefixes
<1> QED BY <1>1, PTL

Received == [p \in Phones |-> InOrder(shown[p])]

LEMMA FetchLog ==
  ASSUME IInv, LogInv, IInv', NEW p \in Phones, Fetch(p)
  PROVE  LogInv' /\ (Log!Read(p) \/ UNCHANGED <<log, Received>>)
<1>1. /\ UNCHANGED <<log, nextId, send>>
      /\ \A q \in Phones \ {p} : shown'[q] = shown[q]
      /\ shown[p] \subseteq shown'[p]
  BY DEF Fetch, store, Receive, IInv, TypeOK, Devices
<1>2. LogInv'
  BY <1>1, SameSends
<1>3. PICK n \in 0 .. Len(log) : shown[p] = Below(n) /\ InOrder(shown[p]) = SubSeq(log, 1, n)
  BY ShownIsBelow
<1>4. PICK k \in 0 .. Len(log) :
        shown'[p] = Below(k) /\ InOrder(shown'[p]) = SubSeq(log, 1, k)
  <2>1. PICK k \in 0 .. Len(log') :
          shown'[p] = Below(k)' /\ InOrder(shown'[p]) = SubSeq(log', 1, k)
    BY <1>2, ShownStaysBelow DEF PhonesHoldPrefixes
  <2>2. log' = log /\ Below(k)' = Below(k)
    BY <1>1 DEF Below
  <2> QED BY <2>1, <2>2
<1>5. log \in Seq(Nat) /\ Len(log) \in Nat
  BY DEF IInv, TypeOK
<1>6. n <= k
  <2>1. IsFiniteSet(Below(k)) /\ Cardinality(Below(k)) = k /\ Cardinality(Below(n)) = n
    BY <1>5, BelowIsCounted
  <2>2. Below(n) \subseteq Below(k)
    BY <1>1, <1>3, <1>4
  <2>3. Cardinality(Below(n)) <= Cardinality(Below(k))
    BY <2>1, <2>2, FS_Subset
  <2> QED BY <2>1, <2>3
<1>7. Received' = [Received EXCEPT ![p] = SubSeq(log, 1, k)]
  <2>1. Received'[p] = SubSeq(log, 1, k)
    BY <1>4 DEF Received
  <2>2. \A q \in Phones \ {p} : Received'[q] = Received[q]
    BY <1>1 DEF Received
  <2> QED BY <2>1, <2>2, Zenon DEF Received
<1>8. CASE n = k
  <2>1. shown'[p] = shown[p]
    BY <1>3, <1>4, <1>8
  <2>2. \A q \in Phones : shown'[q] = shown[q]
    BY <1>1, <2>1
  <2> QED BY <1>1, <1>2, <2>2 DEF Received
<1>9. CASE n # k
  <2>1. Len(Received[p]) = n
    BY <1>3, <1>5 DEF Received
  <2>2. k \in Len(Received[p]) + 1 .. Len(log)
    BY <1>6, <1>9, <2>1
  <2>3. Log!Read(p)
    BY <1>1, <1>7, <2>2 DEF Log!Read, Received
  <2> QED BY <1>2, <2>3
<1> QED BY <1>8, <1>9

\* Every step of the room is one of the log, or none at all.
LEMMA StepLog ==
  IInv /\ LogInv /\ IInv' /\ [Next]_vars => LogInv' /\ [Log!Next]_(Log!vars)
<1> SUFFICES ASSUME IInv, LogInv, IInv', [Next]_vars
             PROVE  LogInv' /\ (Log!Next \/ UNCHANGED <<log, Received>>)
  BY DEF Log!vars, Received
<1>1. (log' = log /\ \A p \in Phones : shown'[p] = shown[p]) => UNCHANGED <<log, Received>>
  BY DEF Received
<1>2. ASSUME NEW r \in Sends,
             \/ \E u \in Users, t \in Tabs \cup {NoOne} : SendBegin(r, u, t)
             \/ LockRoom(r) \/ LockFails(r) \/ Insert(r) \/ AbortSend(r)
             \/ TakeAnswer(r) \/ LoseAnswer(r)
      PROVE  LogInv' /\ UNCHANGED <<log, Received>>
  BY <1>1, <1>2, SendLog, InsertLog, AnswerShows
<1>3. ASSUME NEW r \in Sends, CommitSend(r)
      PROVE  LogInv' /\ Log!Next
  <2>1. LogInv' /\ Received' = Received
    BY <1>3, CommitLog DEF Received
  <2>2. Log!Write
    BY <1>3, <2>1, CommitLog DEF Log!Write, Received
  <2> QED BY <2>1, <2>2 DEF Log!Next
<1>4. ASSUME NEW d \in Tabs,
             OpenTab(d) \/ CloseTab(d) \/ PollBegin(d) \/ PollAnswer(d) \/ PollLost(d)
      PROVE  LogInv' /\ UNCHANGED <<log, Received>>
  BY <1>1, <1>4, TabLog
<1>5. ASSUME NEW p \in Phones, Fetch(p)
      PROVE  LogInv' /\ (Log!Next \/ UNCHANGED <<log, Received>>)
  BY <1>5, FetchLog DEF Log!Next
<1>6. CASE \/ \E d \in Devices : Mark(d) \/ MarkFails(d)
           \/ \E p \in Phones : PhoneRead(p)
           \/ CloseRoom \/ ReopenRoom \/ ChangeReplies \/ DeleteRoom
           \/ \E u \in Users, to \in {"none", "member", "blocked"} : ChangeMember(u, to)
           \/ \E m \in Ids : DeleteMessage(m)
           \/ UNCHANGED vars
  BY <1>1, <1>6, OtherLog
<1> QED BY <1>2, <1>3, <1>4, <1>5, <1>6 DEF Next

\* What a phone has received, listed by id, is at every moment a prefix of one log that
\* only grows: a room keeps what RoomLog promises to a reader with a cursor.
THEOREM RefinesLog == Spec => KeepsLog
<1>1. Init => Log!Init
  <2> SUFFICES ASSUME Init PROVE Log!Init
    OBVIOUS
  <2>1. \A p \in Phones : shown[p] = {}
    BY DEF Init, Devices
  <2>2. InOrder({}) = <<>>
    BY FS_EmptySet DEF InOrder
  <2> QED BY <2>1, <2>2 DEF Init, Log!Init
<1> QED BY <1>1, InitLog, InitInv, NextInv, StepLog, PTL DEF Spec, KeepsLog, Log!Spec
=============================================================================
