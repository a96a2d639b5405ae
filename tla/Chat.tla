------------------------------------ MODULE Chat ------------------------------------
(***************************************************************************)
(* One chat room: messages sent from web pages and phones, pages that poll *)
(* with a cursor and mark the room read as they do, phones that drain with *)
(* a cursor and mark read on their own, and the office that closes, edits  *)
(* and deletes (blueprints/chat, mobile_api/chat.py, utils/chat_send_lock, *)
(* and the script of templates/chat/user_room.html).                       *)
(***************************************************************************)
EXTENDS Integers, Sequences, FiniteSets

CONSTANTS Users, Tabs, Phones, Owner,
          NoOne,
          NumSends,      \* bound: requests that send a message
          PollLimit,     \* rows of an answer
          MaxChanges,    \* bound: acts of the office
          MaxFaults      \* bound: requests and answers that are lost

ASSUME ConstantsAssumption ==
  /\ Owner \in [Tabs \cup Phones -> Users] /\ NoOne \notin Users \cup Tabs
  /\ Tabs \cap Phones = {}
  /\ NumSends \in Nat /\ PollLimit \in Nat /\ MaxChanges \in Nat /\ MaxFaults \in Nat

Devices == Tabs \cup Phones
Sends == 1 .. NumSends
Ids == 1 .. NumSends

VARIABLES
  room,        \* the ChatRoom row: open, closed or gone
  admins,      \* users with manage_chat
  membership,  \* the ChatRoomMember rows: none, member or blocked
  mayReply,    \* allow_replies, announcement mode and today's schedule, for members
  log,         \* the ChatMessage rows of the room, in the order they were committed
  nextId,      \* the sequence of ChatMessage.id
  withdrawn,   \* messages with is_deleted
  reads,       \* the ChatMessageRead rows, <<user, message>>
  send,        \* requests that send
  dev,         \* what each page or phone is asking
  cursor,      \* the largest id a page or phone holds (lastMsgId, after_id)
  shown,       \* the messages it has received
  answered,    \* history: pages that took the answer to a message of their own
  changes, faults

store == <<log, nextId, withdrawn, reads>>
people == <<room, admins, membership, mayReply>>
view == <<cursor, shown, answered>>
vars == <<people, store, send, dev, view, changes, faults>>

Committed == {log[i] : i \in DOMAIN log}
Table == IF room = "gone" THEN {} ELSE Committed    \* deleted with the room
Live == Table \ withdrawn

NoSend == [pc |-> "idle", by |-> NoOne, tab |-> NoOne, id |-> 0]
Quiet(pc) == [pc |-> pc, next |-> "idle", after |-> 0, snap |-> {}]

\* An empty room, which may have been closed before anybody wrote.
Init ==
  /\ room \in {"open", "closed"} /\ mayReply = TRUE /\ admins \in SUBSET Users
  /\ membership = [u \in Users |-> "member"]
  /\ log = <<>> /\ nextId = 1 /\ withdrawn = {} /\ reads = {}
  /\ send = [r \in Sends |-> NoSend]
  /\ dev = [d \in Devices |-> Quiet(IF d \in Tabs THEN "closed" ELSE "idle")]
  /\ cursor = [d \in Devices |-> 0] /\ shown = [d \in Devices |-> {}]
  /\ answered = {}
  /\ changes = 0 /\ faults = 0

Fault == faults < MaxFaults /\ faults' = faults + 1
-----------------------------------------------------------------------------
(* Sending: the checks, the row lock, the id, the commit, the answer. *)

IsOpen(d) == dev[d].pc # "closed"

Admitted(u) ==
  /\ room = "open"
  /\ u \in admins \/ (membership[u] = "member" /\ mayReply)

\* A page's form, or the mobile endpoint (parents and teachers only).
SendBegin(r, u, t) ==
  /\ send[r].pc = "idle" /\ \A q \in 1 .. r - 1 : send[q].pc # "idle"
  /\ Admitted(u)
  /\ IF t = NoOne THEN u \notin admins ELSE Owner[t] = u /\ IsOpen(t)
  /\ send' = [send EXCEPT ![r] = [pc |-> "admitted", by |-> u, tab |-> t, id |-> 0]]
  /\ UNCHANGED <<people, store, dev, view, changes, faults>>

Locks(r) == send[r].pc \in {"locked", "inserted"}
RoomIsFree == \A r \in Sends : ~ Locks(r)

\* Mutant: nobody waits for the room.
LockWithoutWaiting(r) ==
  /\ send[r].pc = "admitted" /\ room # "gone"
  /\ send' = [send EXCEPT ![r].pc = "locked"]
  /\ UNCHANGED <<people, store, dev, view, changes, faults>>

\* lock_room_for_message_insert: SELECT ... FOR NO KEY UPDATE, which reads only the id.
LockRoom(r) ==
  /\ send[r].pc = "admitted" /\ room # "gone" /\ RoomIsFree
  /\ send' = [send EXCEPT ![r].pc = "locked"]
  /\ UNCHANGED <<people, store, dev, view, changes, faults>>

\* ChatRoomLockError.
LockFails(r) ==
  /\ send[r].pc = "admitted" /\ room = "gone"
  /\ send' = [send EXCEPT ![r].pc = "done"]
  /\ UNCHANGED <<people, store, dev, view, changes, faults>>

\* The flush takes the id from the sequence, which never goes back.
Insert(r) ==
  /\ send[r].pc = "locked"
  /\ send' = [send EXCEPT ![r] = [@ EXCEPT !.pc = "inserted", !.id = nextId]]
  /\ nextId' = nextId + 1
  /\ UNCHANGED <<people, log, withdrawn, reads, dev, view, changes, faults>>

\* The web routes also write the sender's own receipt.
CommitSend(r) ==
  /\ send[r].pc = "inserted"
  /\ log' = Append(log, send[r].id)
  /\ reads' = IF send[r].tab = NoOne THEN reads ELSE reads \cup {<<Owner[send[r].tab], send[r].id>>}
  /\ send' = [send EXCEPT ![r].pc = IF send[r].tab = NoOne THEN "done" ELSE "committed"]
  /\ UNCHANGED <<people, nextId, withdrawn, dev, view, changes, faults>>

\* The transaction is rolled back; its id, if it has one, is burned.
AbortSend(r) ==
  /\ send[r].pc \in {"admitted", "locked", "inserted"}
  /\ Fault
  /\ send' = [send EXCEPT ![r].pc = "done"]
  /\ UNCHANGED <<people, store, dev, view, changes>>

\* The script shows the message and moves the cursor to it.
TakeAnswer(r) ==
  LET t == send[r].tab IN
  /\ send[r].pc = "committed" /\ t # NoOne
  /\ shown' = [shown EXCEPT ![t] = @ \cup {send[r].id}]
  /\ cursor' = [cursor EXCEPT ![t] = IF send[r].id > @ THEN send[r].id ELSE @]
  /\ answered' = answered \cup {t}
  /\ send' = [send EXCEPT ![r].pc = "done"]
  /\ UNCHANGED <<people, store, dev, changes, faults>>

LoseAnswer(r) ==
  /\ send[r].pc = "committed"
  /\ Fault
  /\ send' = [send EXCEPT ![r].pc = "done"]
  /\ UNCHANGED <<people, store, dev, view, changes>>
-----------------------------------------------------------------------------
(* Pages. *)

Own(u) == {send[r].id : r \in {q \in Sends : send[q].by = u}}
Unread(u) == {m \in Live \ Own(u) : <<u, m>> \notin reads}

MayRead(d) ==
  room # "gone" /\ (Owner[d] \in admins \/ membership[Owner[d]] # "none")

\* The page is rendered with the messages of the room, and begins to mark them
\* read; an administrator becomes a member.
OpenTab(d) ==
  /\ dev[d].pc = "closed" /\ MayRead(d)
  /\ shown' = [shown EXCEPT ![d] = Table]
  /\ \E top \in Table \cup {0} :
       /\ \A m \in Table : m <= top
       /\ cursor' = [cursor EXCEPT ![d] = top]
  /\ answered' = answered \ {d}
  /\ dev' = [dev EXCEPT ![d] = [pc |-> "marking", next |-> "idle", after |-> 0,
                                snap |-> Unread(Owner[d])]]
  /\ membership' = IF membership[Owner[d]] = "none"
                   THEN [membership EXCEPT ![Owner[d]] = "member"] ELSE membership
  /\ UNCHANGED <<room, admins, mayReply, store, send, changes, faults>>

\* Answers to a page that has been left are heard by nobody.
CloseTab(d) ==
  /\ dev[d].pc \in {"idle", "asking"}
  /\ dev' = [dev EXCEPT ![d] = Quiet("closed")]
  /\ shown' = [shown EXCEPT ![d] = {}] /\ cursor' = [cursor EXCEPT ![d] = 0]
  /\ answered' = answered \ {d}
  /\ send' = [r \in Sends |-> IF send[r].tab = d /\ send[r].pc = "committed"
                              THEN [send[r] EXCEPT !.pc = "done"] ELSE send[r]]
  /\ changes < MaxChanges /\ changes' = changes + 1
  /\ UNCHANGED <<people, store, faults>>

\* Mutant: only what lies beyond the cursor is marked.
PollBeginAfterCursor(d) ==
  /\ dev[d].pc = "idle" /\ MayRead(d)
  /\ dev' = [dev EXCEPT ![d] = [pc |-> "marking", next |-> "asking", after |-> cursor[d],
                                snap |-> {m \in Unread(Owner[d]) : m > cursor[d]}]]
  /\ UNCHANGED <<people, store, send, view, changes, faults>>

\* The request of a poll marks first and asks afterwards.
PollBegin(d) ==
  /\ dev[d].pc = "idle" /\ MayRead(d)
  /\ dev' = [dev EXCEPT ![d] = [pc |-> "marking", next |-> "asking", after |-> cursor[d],
                                snap |-> Unread(Owner[d])]]
  /\ UNCHANGED <<people, store, send, view, changes, faults>>

\* All the receipts, or none: one that exists, or a message that does not, undoes them.
Mark(d) ==
  LET u == Owner[d]
      Refused == \E m \in dev[d].snap : <<u, m>> \in reads \/ m \notin Table
  IN
  /\ dev[d].pc = "marking"
  /\ reads' = IF Refused THEN reads ELSE reads \cup {<<u, m>> : m \in dev[d].snap}
  /\ dev' = [dev EXCEPT ![d].pc = dev[d].next, ![d].snap = {}]
  /\ UNCHANGED <<people, log, nextId, withdrawn, send, view, changes, faults>>

MarkFails(d) ==
  /\ dev[d].pc = "marking" /\ dev[d].snap # {}
  /\ Fault
  /\ dev' = [dev EXCEPT ![d].pc = dev[d].next, ![d].snap = {}]
  /\ UNCHANGED <<people, store, send, view, changes>>

\* Mutant: the newest rows first.
Newest(rows) == {m \in rows : Cardinality({k \in rows : k > m}) < PollLimit}

\* ORDER BY id ASC LIMIT n.
First(rows) == {m \in rows : Cardinality({k \in rows : k < m}) < PollLimit}

Receive(d, batch) ==
  /\ shown' = [shown EXCEPT ![d] = @ \cup batch]
  /\ \E top \in batch \cup {cursor[d]} :
       /\ \A m \in batch \cup {cursor[d]} : m <= top
       /\ cursor' = [cursor EXCEPT ![d] = top]
  /\ UNCHANGED answered

PollAnswer(d) ==
  /\ dev[d].pc = "asking"
  /\ Receive(d, First({m \in Live : m > dev[d].after}))
  /\ dev' = [dev EXCEPT ![d] = Quiet("idle")]
  /\ UNCHANGED <<people, store, send, changes, faults>>

\* The answer is lost, or is an error; the loop goes on.
PollLost(d) ==
  /\ dev[d].pc = "asking"
  /\ Fault
  /\ dev' = [dev EXCEPT ![d] = Quiet("idle")]
  /\ UNCHANGED <<people, store, send, view, changes>>
-----------------------------------------------------------------------------
(* Phones. *)

PhoneMayRead(p) ==
  room # "gone" /\ Owner[p] \notin admins /\ membership[Owner[p]] # "none"

\* GET messages?after_id=: deleted messages are among the rows.
Fetch(p) ==
  /\ PhoneMayRead(p)
  /\ Receive(p, First({m \in Table : m > cursor[p]}))
  /\ UNCHANGED <<people, store, send, dev, changes, faults>>

\* POST read.
PhoneRead(p) ==
  /\ dev[p].pc = "idle" /\ PhoneMayRead(p) /\ Unread(Owner[p]) # {}
  /\ dev' = [dev EXCEPT ![p] = [Quiet("marking") EXCEPT !.snap = Unread(Owner[p])]]
  /\ UNCHANGED <<people, store, send, view, changes, faults>>
-----------------------------------------------------------------------------
(* The office. Closing, editing and deleting write the room's row, so they *)
(* wait for a sender that has locked it.                                   *)

Office == changes < MaxChanges /\ changes' = changes + 1

CloseRoom ==
  /\ Office /\ room = "open" /\ RoomIsFree
  /\ room' = "closed"
  /\ UNCHANGED <<admins, membership, mayReply, store, send, dev, view, faults>>

ReopenRoom ==
  /\ Office /\ room = "closed" /\ RoomIsFree
  /\ room' = "open"
  /\ UNCHANGED <<admins, membership, mayReply, store, send, dev, view, faults>>

\* The schedule of the day, or edit_room.
ChangeReplies ==
  /\ Office /\ room # "gone"
  /\ mayReply' = ~ mayReply
  /\ UNCHANGED <<room, admins, membership, store, send, dev, view, faults>>

\* block_member, unblock_member, remove_member, add_member.
ChangeMember(u, to) ==
  /\ Office /\ room # "gone"
  /\ <<membership[u], to>> \in {<<"member", "blocked">>, <<"blocked", "member">>,
        <<"member", "none">>, <<"blocked", "none">>, <<"none", "member">>}
  /\ membership' = [membership EXCEPT ![u] = to]
  /\ UNCHANGED <<room, admins, mayReply, store, send, dev, view, faults>>

DeleteMessage(m) ==
  /\ Office /\ m \in Live
  /\ withdrawn' = withdrawn \cup {m}
  /\ UNCHANGED <<people, log, nextId, reads, send, dev, view, faults>>

DeleteRoom ==
  /\ Office /\ room # "gone" /\ RoomIsFree
  /\ room' = "gone" /\ membership' = [u \in Users |-> "none"] /\ reads' = {}
  /\ UNCHANGED <<admins, mayReply, log, nextId, withdrawn, send, dev, view, faults>>

Next ==
  \/ \E r \in Sends :
       \/ \E u \in Users, t \in Tabs \cup {NoOne} : SendBegin(r, u, t)
       \/ LockRoom(r) \/ LockFails(r) \/ Insert(r) \/ CommitSend(r)
       \/ AbortSend(r) \/ TakeAnswer(r) \/ LoseAnswer(r)
  \/ \E d \in Tabs :
       OpenTab(d) \/ CloseTab(d) \/ PollBegin(d) \/ PollAnswer(d) \/ PollLost(d)
  \/ \E d \in Devices : Mark(d) \/ MarkFails(d)
  \/ \E p \in Phones : Fetch(p) \/ PhoneRead(p)
  \/ CloseRoom \/ ReopenRoom \/ ChangeReplies \/ DeleteRoom
  \/ \E u \in Users, to \in {"none", "member", "blocked"} : ChangeMember(u, to)
  \/ \E m \in Ids : DeleteMessage(m)

Spec == Init /\ [][Next]_vars

\* The page polls for as long as it is open, and a phone that follows the room
\* asks again; what the server has begun it ends.
Fairness ==
  /\ \A d \in Tabs : WF_vars(PollBegin(d)) /\ WF_vars(PollAnswer(d))
  /\ \A d \in Devices : WF_vars(Mark(d))
  /\ \A p \in Phones : WF_vars(Fetch(p))

LiveSpec == Spec /\ Fairness
-----------------------------------------------------------------------------
TypeOK ==
  /\ room \in {"open", "closed", "gone"} /\ mayReply \in BOOLEAN
  /\ admins \subseteq Users /\ membership \in [Users -> {"none", "member", "blocked"}]
  /\ log \in Seq(Nat) /\ nextId \in Nat \ {0}
  /\ withdrawn \subseteq Nat /\ reads \subseteq Users \X Nat
  /\ send \in [Sends -> [pc : {"idle", "admitted", "locked", "inserted", "committed", "done"},
                         by : Users \cup {NoOne}, tab : Tabs \cup {NoOne}, id : Nat]]
  /\ dev \in [Devices -> [pc : {"closed", "idle", "marking", "asking"},
                          next : {"idle", "asking"}, after : Nat, snap : SUBSET Nat]]
  /\ cursor \in [Devices -> Nat] /\ shown \in [Devices -> SUBSET Nat]
  /\ answered \subseteq Tabs
  /\ changes \in Nat /\ faults \in Nat

\* "once a reader can see message id H, every lower id of that room that will ever
\* commit is already visible" (chat_send_lock.py): what a phone has received is all
\* that was ever committed up to its cursor, and nothing else.
CursorIsExact ==
  \A p \in Phones : shown[p] = {m \in Committed : m <= cursor[p]}

\* A page that has sent nothing since it was opened shows all it has passed.
PageMissesNothing ==
  \A d \in Tabs : IsOpen(d) /\ d \notin answered =>
    \A m \in Live : m <= cursor[d] => m \in shown[d]

\* A poll marks "messages delivered via polling" (user_room_poll): a message of
\* somebody else that is marked for the reader of a page has been shown there, or is still to come.
NothingIsReadUnseen ==
  \A d \in Tabs : IsOpen(d) =>
    \A m \in Live \ Own(Owner[d]) :
      <<Owner[d], m>> \in reads /\ m <= cursor[d] => m \in shown[d]

\* A device lists what it has received by id.
InOrder(ids) ==
  [i \in 1 .. Cardinality(ids) |->
     CHOOSE m \in ids : Cardinality({k \in ids : k < m}) = i - 1]

\* A phone receives the messages in the order they were committed, without gaps.
Log == INSTANCE RoomLog WITH
  Messages <- Ids, Readers <- Phones, got <- [p \in Phones |-> InOrder(shown[p])]
KeepsLog == Log!Spec

\* Whoever follows the room gets every message.
EventuallyFetched ==
  \A p \in Phones, m \in Ids :
    m \in Committed ~> (m \in shown[p] \/ ~ PhoneMayRead(p))

\* An open page ends up with everything marked read, whatever marks were refused
\* because another device of the same person was faster.
EventuallyRead ==
  \A d \in Tabs, m \in Ids :
    (IsOpen(d) /\ m \in Unread(Owner[d]))
      ~> (~ IsOpen(d) \/ ~ MayRead(d) \/ m \notin Unread(Owner[d]))
=============================================================================
