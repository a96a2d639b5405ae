-------------------------- MODULE HomeworkPublishProofs --------------------------
(***************************************************************************)
(* Proofs about HomeworkPublish, for any homework, requests, workers,      *)
(* operators, sweep batch, days and number of edits and faults.            *)
(*                                                                         *)
(* A row is announced by the transaction that holds it (ClaimsAreGood), or *)
(* by the one request that created it without a marker (InlineIsOnce).     *)
(***************************************************************************)
EXTENDS HomeworkPublish, TLAPS

FanOutModes == {"request", "sweep", "flush"}

\* What was never created was never touched; only deferred rows are pending.
RowsAreHonest ==
  \A h \in Homeworks :
    /\ homework[h].state = "none" =>
         h \notin deferred /\ h \notin skipped /\ announced[h] = 0
    /\ homework[h].pending => h \in deferred

\* A request that announces inline is the only one to announce that row.
InlineIsOnce ==
  \A a \in Actors : mode[a] = "inline" =>
    \A h \in todo[a] :
      /\ h \notin deferred /\ announced[h] = 0 /\ homework[h].state # "none"
      /\ \A b \in Actors : mode[b] = "inline" /\ h \in todo[b] => b = a

\* A claimed row is pending, has one holder, and is what the verdict says of it.
ClaimIsGood(a, h) ==
  /\ mode[a] \in FanOutModes /\ verdict[a] \in {"skip", "stage"}
  /\ homework[h].pending /\ homework[h].state # "none"
  /\ verdict[a] = "stage" => homework[h].state = "active"
  /\ homework[h].publish <= today \/ a \in Operators
  /\ \A b \in Actors : claimed[b] = h => b = a

ClaimsAreGood ==
  /\ \A a \in Actors : claimed[a] # NoHomework => ClaimIsGood(a, claimed[a])
  /\ \A a \in Actors : mode[a] = "flush" => a \in Operators

IInv == /\ TypeOK /\ RowsAreHonest /\ InlineIsOnce /\ ClaimsAreGood
        /\ MarkerIsTruthful /\ AnnouncedAtMostOnce

\* What an actor does without a row in its hands leaves these alone.
Quiet == UNCHANGED <<homework, deferred, announced, skipped>>

-----------------------------------------------------------------------------
LEMMA DayFacts == Days \subseteq Nat /\ 0 \in Days /\ NoHomework \notin Homeworks
BY ConstantsAssumption DEF ConstantsAssumption, Days

LEMMA InitInv == Init => IInv
<1> SUFFICES ASSUME Init PROVE IInv
  OBVIOUS
<1> USE DEF Init
<1>1. NoRow \in Row
  BY DayFacts DEF NoRow, Row
<1>2. TypeOK
  BY <1>1, DayFacts, ConstantsAssumption DEF TypeOK, Modes, ConstantsAssumption
<1>3. RowsAreHonest /\ InlineIsOnce /\ ClaimsAreGood
  BY DEF RowsAreHonest, InlineIsOnce, ClaimsAreGood, NoRow
<1>4. MarkerIsTruthful /\ AnnouncedAtMostOnce
  BY DEF MarkerIsTruthful, AnnouncedAtMostOnce
<1> QED BY <1>2, <1>3, <1>4 DEF IInv

\* Whoever takes up work had none: the claims are those of the others.
LEMMA BeginFacts ==
  ASSUME IInv, NEW a \in Actors, NEW m \in Modes, NEW S \in SUBSET Homeworks,
         mode[a] = "none", Begin(a, m, S)
  PROVE  /\ mode' \in [Actors -> Modes] /\ todo' \in [Actors -> SUBSET Homeworks]
         /\ claimed[a] = NoHomework /\ claimed' = claimed /\ verdict' = verdict
         /\ mode'[a] = m /\ todo'[a] = S
         /\ \A b \in Actors \ {a} : mode'[b] = mode[b] /\ todo'[b] = todo[b]
<1>1. claimed[a] = NoHomework
  BY DEF IInv, ClaimsAreGood, ClaimIsGood, FanOutModes
<1> QED BY <1>1 DEF IInv, TypeOK, Begin

LEMMA CreateInv ==
  ASSUME IInv, NEW r \in Requests, NEW h \in Homeworks, NEW p \in Days, NEW d \in Days,
         NEW defer \in BOOLEAN, Create(r, h, p, d, defer)
  PROVE  IInv'
<1> DEFINE m == IF defer THEN "request" ELSE "inline"
<1> DEFINE row == [state |-> "active", publish |-> p, due |-> d, pending |-> defer]
<1>1. r \in Actors /\ m \in Modes /\ row \in Row
  BY DEF Actors, Modes, Row
<1>2. /\ mode' \in [Actors -> Modes] /\ todo' \in [Actors -> SUBSET Homeworks]
      /\ claimed[r] = NoHomework /\ claimed' = claimed /\ verdict' = verdict
      /\ mode'[r] = m /\ todo'[r] = {h}
      /\ \A b \in Actors \ {r} : mode'[b] = mode[b] /\ todo'[b] = todo[b]
  BY <1>1, BeginFacts DEF Create
<1>3. /\ homework' \in [Homeworks -> Row] /\ homework'[h] = row
      /\ \A i \in Homeworks \ {h} : homework'[i] = homework[i]
  BY <1>1 DEF Create, IInv, TypeOK
<1>4. /\ homework[h].state = "none" /\ h \notin deferred /\ h \notin skipped /\ announced[h] = 0
      /\ deferred' = (IF defer THEN deferred \cup {h} ELSE deferred)
      /\ announced' = announced /\ skipped' = skipped /\ today' = today
  BY DEF Create, IInv, RowsAreHonest, outcomeVars, clockVars
<1>5. TypeOK'
  BY <1>2, <1>3, <1>4 DEF Create, IInv, TypeOK, clockVars
<1>6. RowsAreHonest'
  BY <1>3, <1>4 DEF IInv, RowsAreHonest
<1>7. InlineIsOnce'
  BY <1>1, <1>2, <1>3, <1>4 DEF IInv, InlineIsOnce, TypeOK
<1>8. ClaimsAreGood'
  <2>1. \A a \in Actors : claimed[a] # NoHomework => claimed[a] # h /\ a # r
    BY <1>2, <1>4 DEF IInv, ClaimsAreGood, ClaimIsGood
  <2> QED BY <1>2, <1>3, <1>4, <2>1 DEF IInv, ClaimsAreGood, ClaimIsGood, TypeOK
<1>9. MarkerIsTruthful' /\ AnnouncedAtMostOnce'
  BY <1>3, <1>4 DEF IInv, MarkerIsTruthful, AnnouncedAtMostOnce, TypeOK
<1> QED BY <1>5, <1>6, <1>7, <1>8, <1>9 DEF IInv

\* An edit or a deletion of a row that nobody holds.
LEMMA ChangeInv ==
  ASSUME IInv, NEW h \in Homeworks, Change(h),
         NEW row \in Row, row.state # "none", row.pending = homework[h].pending,
         homework' = [homework EXCEPT ![h] = row],
         \/ UNCHANGED actorVars
         \/ \E r \in Requests : mode[r] = "none" /\ Begin(r, "request", {h})
  PROVE  IInv'
<1>1. /\ homework' \in [Homeworks -> Row] /\ homework'[h] = row
      /\ \A i \in Homeworks \ {h} : homework'[i] = homework[i]
  BY DEF IInv, TypeOK
<1>2. /\ \A a \in Actors : claimed[a] # h
      /\ homework[h].state = "active"
      /\ deferred' = deferred /\ announced' = announced /\ skipped' = skipped /\ today' = today
  BY DEF Change, Locked, outcomeVars, clockVars
<1>3. /\ mode' \in [Actors -> Modes] /\ todo' \in [Actors -> SUBSET Homeworks]
      /\ claimed' = claimed /\ verdict' = verdict
      /\ \A a \in Actors :
           \/ mode'[a] = mode[a] /\ todo'[a] = todo[a]
           \/ mode'[a] = "request" /\ claimed[a] = NoHomework
  <2>1. CASE UNCHANGED actorVars
    BY <2>1 DEF actorVars, IInv, TypeOK
  <2>2. CASE \E r \in Requests : mode[r] = "none" /\ Begin(r, "request", {h})
    <3>1. PICK r \in Requests : mode[r] = "none" /\ Begin(r, "request", {h})
      BY <2>2
    <3>2. r \in Actors /\ "request" \in Modes
      BY DEF Actors, Modes
    <3> QED BY <3>1, <3>2, BeginFacts
  <2> QED BY <2>1, <2>2
<1>4. TypeOK'
  BY <1>1, <1>2, <1>3, ConstantsAssumption
     DEF IInv, TypeOK, Change, clockVars, ConstantsAssumption
<1>5. RowsAreHonest' /\ MarkerIsTruthful' /\ AnnouncedAtMostOnce'
  BY <1>1, <1>2 DEF IInv, RowsAreHonest, MarkerIsTruthful, AnnouncedAtMostOnce
<1>6. InlineIsOnce'
  BY <1>1, <1>2, <1>3 DEF IInv, InlineIsOnce, TypeOK
<1>7. ClaimsAreGood'
  BY <1>1, <1>2, <1>3 DEF IInv, ClaimsAreGood, ClaimIsGood, TypeOK, FanOutModes
<1> QED BY <1>4, <1>5, <1>6, <1>7 DEF IInv

LEMMA EditInv ==
  ASSUME IInv, NEW h \in Homeworks,
         \/ \E r \in Requests, p \in Days, d \in Days : Edit(r, h, p, d)
         \/ Delete(h) \/ \E d \in Days : EditOnPhone(h, d)
  PROVE  IInv'
<1> homework \in [Homeworks -> Row]
  BY DEF IInv, TypeOK
<1>1. ASSUME NEW r \in Requests, NEW p \in Days, NEW d \in Days, Edit(r, h, p, d)
      PROVE  IInv'
  <2> DEFINE row == [homework[h] EXCEPT !.publish = p, !.due = d]
  <2>1. homework' = [homework EXCEPT ![h] = row] /\ row \in Row
    BY <1>1 DEF Edit, Row
  <2>2. row.state # "none" /\ row.pending = homework[h].pending
    BY <1>1 DEF Edit, Change, Row
  <2> HIDE DEF row
  <2>3. Change(h) /\ (UNCHANGED actorVars \/ (mode[r] = "none" /\ Begin(r, "request", {h})))
    BY <1>1 DEF Edit
  <2> QED BY <2>1, <2>2, <2>3, ChangeInv
<1>2. ASSUME Delete(h) PROVE IInv'
  <2>1. PICK s \in {"gone", "inactive"} : homework' = [homework EXCEPT ![h].state = s]
    BY <1>2 DEF Delete
  <2> DEFINE row == [homework[h] EXCEPT !.state = s]
  <2>2. homework' = [homework EXCEPT ![h] = row] /\ row \in Row
    BY <2>1 DEF Row
  <2>3. row.state # "none" /\ row.pending = homework[h].pending
    BY DEF Row
  <2> HIDE DEF row
  <2> QED BY <1>2, <2>2, <2>3, ChangeInv DEF Delete
<1>3. ASSUME NEW d \in Days, EditOnPhone(h, d) PROVE IInv'
  <2> DEFINE row == [homework[h] EXCEPT !.due = d]
  <2>1. homework' = [homework EXCEPT ![h] = row] /\ row \in Row
    BY <1>3 DEF EditOnPhone, Row
  <2>2. row.state # "none" /\ row.pending = homework[h].pending
    BY <1>3 DEF EditOnPhone, Change, Row
  <2> HIDE DEF row
  <2> QED BY <1>3, <2>1, <2>2, ChangeInv DEF EditOnPhone
<1> QED BY <1>1, <1>2, <1>3

LEMMA InlineInv ==
  ASSUME IInv, NEW r \in Requests, AnnounceInline(r)
  PROVE  IInv'
<1>1. r \in Actors /\ "none" \in Modes /\ mode[r] = "inline"
  BY DEF Actors, Modes, AnnounceInline
<1>2. PICK h \in todo[r] : announced' = [announced EXCEPT ![h] = @ + 1]
  BY DEF AnnounceInline
<1>3. h \in Homeworks /\ h \notin deferred /\ announced[h] = 0 /\ homework[h].state # "none"
  BY <1>1, <1>2 DEF IInv, TypeOK, InlineIsOnce
<1>4. /\ homework' = homework /\ deferred' = deferred /\ skipped' = skipped /\ today' = today
      /\ claimed' = claimed /\ verdict' = verdict
      /\ mode' = [mode EXCEPT ![r] = "none"] /\ todo' = [todo EXCEPT ![r] = {}]
  BY DEF AnnounceInline, Begin, clockVars
<1>5. /\ announced' \in [Homeworks -> Nat] /\ announced'[h] = 1
      /\ \A i \in Homeworks \ {h} : announced'[i] = announced[i]
  BY <1>2, <1>3 DEF IInv, TypeOK
<1>6. TypeOK'
  BY <1>1, <1>4, <1>5 DEF IInv, TypeOK, AnnounceInline, clockVars
<1>7. RowsAreHonest' /\ MarkerIsTruthful' /\ AnnouncedAtMostOnce'
  BY <1>3, <1>4, <1>5 DEF IInv, RowsAreHonest, MarkerIsTruthful, AnnouncedAtMostOnce, TypeOK
<1>8. InlineIsOnce'
  BY <1>1, <1>2, <1>3, <1>4, <1>5 DEF IInv, InlineIsOnce, TypeOK
<1>9. ClaimsAreGood'
  BY <1>1, <1>4 DEF IInv, ClaimsAreGood, ClaimIsGood, TypeOK, FanOutModes
<1> QED BY <1>6, <1>7, <1>8, <1>9 DEF IInv

\* The sweep and the flush choose what to go through, and write nothing.
LEMMA ChooseInv ==
  ASSUME IInv, NEW a \in Actors, NEW m \in {"sweep", "flush"}, NEW S \in SUBSET Homeworks,
         mode[a] = "none", Begin(a, m, S), m = "flush" => a \in Operators,
         UNCHANGED <<clockVars, open, homework, deferred, outcomeVars, edits, faults>>
  PROVE  IInv'
<1>1. m \in Modes
  BY DEF Modes
<1>2. /\ mode' \in [Actors -> Modes] /\ todo' \in [Actors -> SUBSET Homeworks]
      /\ claimed[a] = NoHomework /\ claimed' = claimed /\ verdict' = verdict
      /\ mode'[a] = m
      /\ \A b \in Actors \ {a} : mode'[b] = mode[b] /\ todo'[b] = todo[b]
  BY <1>1, BeginFacts
<1>3. TypeOK' /\ Quiet /\ today' = today
  BY <1>2 DEF IInv, TypeOK, Quiet, clockVars, outcomeVars
<1>4. RowsAreHonest' /\ MarkerIsTruthful' /\ AnnouncedAtMostOnce'
  BY <1>3 DEF IInv, RowsAreHonest, MarkerIsTruthful, AnnouncedAtMostOnce, Quiet
<1>5. InlineIsOnce'
  BY <1>2, <1>3 DEF IInv, InlineIsOnce, Quiet
<1>6. ClaimsAreGood'
  BY <1>2, <1>3 DEF IInv, ClaimsAreGood, ClaimIsGood, Quiet
<1> QED BY <1>3, <1>4, <1>5, <1>6 DEF IInv

\* Whoever goes on with less, or stops, without having written anything.
LEMMA LessToDoInv ==
  ASSUME IInv, NEW a \in Actors, Quiet, UNCHANGED <<clockVars, open, edits>>,
         faults' \in 0 .. MaxFaults,
         mode' \in [Actors -> Modes], todo' \in [Actors -> SUBSET Homeworks],
         mode'[a] \in {"none", mode[a]}, todo'[a] \subseteq todo[a],
         \A b \in Actors \ {a} : mode'[b] = mode[b] /\ todo'[b] = todo[b],
         \/ claimed[a] = NoHomework /\ UNCHANGED <<claimed, verdict>>
         \/ /\ claimed' = [claimed EXCEPT ![a] = NoHomework]
            /\ verdict' = [verdict EXCEPT ![a] = "none"]
  PROVE  IInv'
<1>1. /\ claimed' \in [Actors -> Homeworks \cup {NoHomework}]
      /\ verdict' \in [Actors -> {"none", "skip", "stage"}]
      /\ claimed'[a] = NoHomework
      /\ \A b \in Actors \ {a} : claimed'[b] = claimed[b] /\ verdict'[b] = verdict[b]
  BY DEF IInv, TypeOK
<1>2. TypeOK' /\ today' = today
  BY <1>1 DEF IInv, TypeOK, Quiet, clockVars
<1>3. RowsAreHonest' /\ MarkerIsTruthful' /\ AnnouncedAtMostOnce'
  BY DEF IInv, RowsAreHonest, MarkerIsTruthful, AnnouncedAtMostOnce, Quiet
<1>4. InlineIsOnce'
  BY DEF IInv, InlineIsOnce, Quiet
<1>5. ClaimsAreGood'
  <2>1. ASSUME NEW b \in Actors, claimed'[b] # NoHomework
        PROVE  ClaimIsGood(b, claimed[b])'
    <3>1. b # a /\ claimed'[b] = claimed[b] /\ ClaimIsGood(b, claimed[b])
      BY <1>1, <2>1 DEF IInv, ClaimsAreGood
    <3>2. \A c \in Actors : claimed'[c] = claimed[b] => claimed[c] = claimed[b]
      BY <1>1, <2>1, <3>1
    <3> QED BY <1>1, <1>2, <3>1, <3>2 DEF ClaimIsGood, Quiet
  <2>2. \A b \in Actors : mode'[b] = "flush" => b \in Operators
    BY DEF IInv, ClaimsAreGood
  <2> QED BY <2>1, <2>2 DEF ClaimsAreGood
<1> QED BY <1>2, <1>3, <1>4, <1>5 DEF IInv

LEMMA WithoutFacts ==
  ASSUME IInv, NEW a \in Actors, NEW h \in Homeworks, Without(a, h)
  PROVE  /\ mode' \in [Actors -> Modes] /\ todo' \in [Actors -> SUBSET Homeworks]
         /\ mode'[a] \in {"none", mode[a]} /\ todo'[a] \subseteq todo[a]
         /\ \A b \in Actors \ {a} : mode'[b] = mode[b] /\ todo'[b] = todo[b]
<1>1. "none" \in Modes
  BY DEF Modes
<1> QED BY <1>1 DEF IInv, TypeOK, Without

LEMMA PassOverInv ==
  ASSUME IInv, NEW a \in Actors, PassOver(a)
  PROVE  IInv'
<1>1. PICK h \in todo[a] : Without(a, h)
  BY DEF PassOver
<1>2. h \in Homeworks
  BY <1>1 DEF IInv, TypeOK
<1>3. /\ Quiet /\ UNCHANGED <<clockVars, open, edits>> /\ faults' \in 0 .. MaxFaults
      /\ claimed[a] = NoHomework /\ UNCHANGED <<claimed, verdict>>
  BY DEF PassOver, Quiet, outcomeVars, IInv, TypeOK
<1> QED BY <1>1, <1>2, <1>3, WithoutFacts, LessToDoInv

LEMMA ClaimInv ==
  ASSUME IInv, NEW a \in Actors, Claim(a)
  PROVE  IInv'
<1>1. PICK h \in todo[a] :
        /\ Claimable(h) /\ ~ NotDue(a, h)
        /\ claimed' = [claimed EXCEPT ![a] = h]
        /\ verdict' = [verdict EXCEPT ![a] = IF IneligibleReason(h) THEN "skip" ELSE "stage"]
  BY DEF Claim
<1>2. h \in Homeworks /\ h # NoHomework
  BY <1>1, DayFacts DEF IInv, TypeOK
<1>3. Quiet /\ UNCHANGED <<clockVars, open, mode, todo, edits, faults>>
  BY DEF Claim, Quiet, outcomeVars
<1>4. /\ claimed' \in [Actors -> Homeworks \cup {NoHomework}]
      /\ verdict' \in [Actors -> {"none", "skip", "stage"}]
      /\ claimed'[a] = h
      /\ \A b \in Actors \ {a} : claimed'[b] = claimed[b] /\ verdict'[b] = verdict[b]
  BY <1>1, <1>2 DEF IInv, TypeOK
<1>5. TypeOK' /\ today' = today
  BY <1>3, <1>4 DEF IInv, TypeOK, Quiet, clockVars
<1>6. RowsAreHonest' /\ MarkerIsTruthful' /\ AnnouncedAtMostOnce' /\ InlineIsOnce'
  BY <1>3 DEF IInv, RowsAreHonest, MarkerIsTruthful, AnnouncedAtMostOnce, InlineIsOnce, Quiet
<1>7. ClaimIsGood(a, h)'
  <2>1. mode[a] \in FanOutModes /\ homework[h].pending
        /\ homework[h].state \in {"active", "inactive"} /\ \A b \in Actors : claimed[b] # h
    BY <1>1 DEF Claim, Claimable, Locked, FanOutModes
  <2>2. homework[h].publish \in Nat /\ today \in Nat
    BY <1>2, DayFacts DEF IInv, TypeOK, Row
  <2>3. homework[h].publish <= today \/ a \in Operators
    BY <1>1, <2>2 DEF NotDue, IInv, ClaimsAreGood
  <2>4. verdict'[a] \in {"skip", "stage"}
        /\ (verdict'[a] = "stage" => homework[h].state = "active")
    BY <1>1, <2>1 DEF IneligibleReason, IInv, TypeOK
  <2> QED BY <1>3, <1>4, <1>5, <2>1, <2>3, <2>4 DEF ClaimIsGood, Quiet
<1>8. ClaimsAreGood'
  <2>1. ASSUME NEW b \in Actors, b # a, claimed'[b] # NoHomework
        PROVE  ClaimIsGood(b, claimed[b])'
    <3>1. claimed'[b] = claimed[b] /\ ClaimIsGood(b, claimed[b])
      BY <1>4, <2>1 DEF IInv, ClaimsAreGood
    <3>2. claimed[b] # h
      BY <1>1, <2>1 DEF Claimable, Locked
    <3> QED BY <1>3, <1>4, <1>5, <3>1, <3>2 DEF ClaimIsGood, Quiet
  <2> QED BY <1>3, <1>4, <1>7, <2>1 DEF IInv, ClaimsAreGood
<1> QED BY <1>5, <1>6, <1>8 DEF IInv

\* Lost work leaves the row as it was before the claim.
LEMMA GiveUpInv ==
  ASSUME IInv, NEW a \in Actors, FailToFanOut(a) \/ Crash(a)
  PROVE  IInv'
<1>1. faults' \in 0 .. MaxFaults
  BY ConstantsAssumption DEF FailToFanOut, Crash, Fault, IInv, TypeOK, ConstantsAssumption
<1>2. Quiet /\ UNCHANGED <<clockVars, open, edits>>
  BY DEF FailToFanOut, Crash, Quiet, outcomeVars
<1>3. CASE FailToFanOut(a)
  <2>1. claimed[a] \in Homeworks /\ Without(a, claimed[a])
    BY <1>3 DEF FailToFanOut, Release, IInv, TypeOK
  <2>2. /\ claimed' = [claimed EXCEPT ![a] = NoHomework]
        /\ verdict' = [verdict EXCEPT ![a] = "none"]
    BY <1>3 DEF FailToFanOut, Release
  <2> QED BY <1>1, <1>2, <2>1, <2>2, WithoutFacts, LessToDoInv
<1>4. CASE Crash(a)
  <2>1. "none" \in Modes
    BY DEF Modes
  <2>2. /\ mode' \in [Actors -> Modes] /\ todo' \in [Actors -> SUBSET Homeworks]
        /\ mode'[a] = "none" /\ todo'[a] = {}
        /\ \A b \in Actors \ {a} : mode'[b] = mode[b] /\ todo'[b] = todo[b]
    BY <1>4, <2>1 DEF Crash, IInv, TypeOK
  <2>3. /\ claimed' = [claimed EXCEPT ![a] = NoHomework]
        /\ verdict' = [verdict EXCEPT ![a] = "none"]
    BY <1>4 DEF Crash
  <2> QED BY <1>1, <1>2, <2>2, <2>3, LessToDoInv
<1> QED BY <1>3, <1>4

\* The commit stamps the marker of the row it holds and tells its parents, or not.
LEMMA CommitInv ==
  ASSUME IInv, NEW a \in Actors, Commit(a)
  PROVE  IInv'
<1> DEFINE h == claimed[a]
<1>1. h \in Homeworks /\ ClaimIsGood(a, h)
  BY DEF Commit, IInv, TypeOK, ClaimsAreGood
<1>2. h \in deferred /\ announced[h] = 0 /\ h \notin skipped
  BY <1>1 DEF ClaimIsGood, IInv, RowsAreHonest, MarkerIsTruthful
<1>3. /\ homework' \in [Homeworks -> Row] /\ homework'[h].pending = FALSE
      /\ homework'[h].state = homework[h].state
      /\ \A i \in Homeworks \ {h} : homework'[i] = homework[i]
  BY <1>1 DEF Commit, IInv, TypeOK, Row
<1>4. /\ announced' \in [Homeworks -> Nat]
      /\ \A i \in Homeworks \ {h} : announced'[i] = announced[i]
      /\ \/ verdict[a] = "stage" /\ announced'[h] = 1 /\ skipped' = skipped
         \/ verdict[a] = "skip" /\ announced'[h] = 0 /\ skipped' = skipped \cup {h}
  BY <1>1, <1>2 DEF Commit, IInv, TypeOK, ClaimIsGood
<1>5. /\ Without(a, h)
      /\ claimed' = [claimed EXCEPT ![a] = NoHomework]
      /\ verdict' = [verdict EXCEPT ![a] = "none"]
      /\ deferred' = deferred /\ UNCHANGED <<clockVars, open, edits, faults>>
  BY DEF Commit, Release
<1>6. /\ mode' \in [Actors -> Modes] /\ todo' \in [Actors -> SUBSET Homeworks]
      /\ mode'[a] \in {"none", mode[a]} /\ todo'[a] \subseteq todo[a]
      /\ \A b \in Actors \ {a} : mode'[b] = mode[b] /\ todo'[b] = todo[b]
  BY <1>1, <1>5, WithoutFacts
<1>7. /\ claimed' \in [Actors -> Homeworks \cup {NoHomework}]
      /\ verdict' \in [Actors -> {"none", "skip", "stage"}]
      /\ claimed'[a] = NoHomework
      /\ \A b \in Actors \ {a} : claimed'[b] = claimed[b] /\ verdict'[b] = verdict[b]
  BY <1>5 DEF IInv, TypeOK
<1>8. TypeOK' /\ today' = today
  BY <1>1, <1>3, <1>4, <1>5, <1>6, <1>7 DEF IInv, TypeOK, clockVars
<1>9. RowsAreHonest' /\ MarkerIsTruthful' /\ AnnouncedAtMostOnce'
  <2> HIDE DEF h
  <2>1. /\ homework[h].state # "none" /\ homework'[h].state # "none"
        /\ \A i \in Homeworks \ {h} : i \in skipped' <=> i \in skipped
    BY <1>1, <1>3, <1>4 DEF ClaimIsGood
  <2>2. RowsAreHonest'
    BY <1>2, <1>3, <1>4, <1>5, <2>1 DEF IInv, RowsAreHonest
  <2>3. MarkerIsTruthful'
    BY <1>2, <1>3, <1>4, <1>5, <2>1 DEF IInv, MarkerIsTruthful, TypeOK
  <2>4. AnnouncedAtMostOnce'
    BY <1>1, <1>4 DEF IInv, AnnouncedAtMostOnce
  <2> QED BY <2>2, <2>3, <2>4
<1>10. InlineIsOnce'
  <2>1. \A b \in Actors : mode'[b] = "inline" => mode[b] = "inline" /\ todo'[b] \subseteq todo[b]
    BY <1>6
  <2>2. \A b \in Actors : mode[b] = "inline" => h \notin todo[b]
    BY <1>2 DEF IInv, InlineIsOnce
  <2> QED BY <1>3, <1>4, <1>5, <2>1, <2>2 DEF IInv, InlineIsOnce, TypeOK
<1>11. ClaimsAreGood'
  <2>1. ASSUME NEW b \in Actors, claimed'[b] # NoHomework
        PROVE  ClaimIsGood(b, claimed[b])'
    <3>1. b # a /\ claimed'[b] = claimed[b] /\ ClaimIsGood(b, claimed[b])
      BY <1>7, <2>1 DEF IInv, ClaimsAreGood
    <3>2. claimed[b] # h /\ claimed[b] \in Homeworks
      BY <1>1, <2>1, <3>1 DEF ClaimIsGood, IInv, TypeOK
    <3>3. \A c \in Actors : claimed'[c] = claimed[b] => claimed[c] = claimed[b]
      BY <1>7, <2>1, <3>1
    <3> QED BY <1>3, <1>6, <1>7, <1>8, <3>1, <3>2, <3>3 DEF ClaimIsGood
  <2>2. \A b \in Actors : mode'[b] = "flush" => b \in Operators
    BY <1>6 DEF IInv, ClaimsAreGood
  <2> QED BY <2>1, <2>2 DEF ClaimsAreGood
<1> QED BY <1>8, <1>9, <1>10, <1>11 DEF IInv

LEMMA WorldInv ==
  ASSUME IInv, SendHour \/ Midnight \/ SwitchSchoolOrYear
  PROVE  IInv'
<1>1. TypeOK' /\ today <= today' /\ today \in Nat /\ today' \in Nat
  <2>1. today \in Nat /\ LastDay \in Nat
    BY ConstantsAssumption, DayFacts DEF IInv, TypeOK, ConstantsAssumption
  <2>2. today' \in Days /\ today <= today'
    BY <2>1 DEF SendHour, Midnight, SwitchSchoolOrYear, clockVars, Days, IInv, TypeOK
  <2>4. sendTime' \in BOOLEAN /\ open' \in BOOLEAN
    BY Zenon DEF SendHour, Midnight, SwitchSchoolOrYear, clockVars, IInv, TypeOK
  <2>3. edits' \in 0 .. MaxEdits
    BY ConstantsAssumption
       DEF SendHour, Midnight, SwitchSchoolOrYear, IInv, TypeOK, ConstantsAssumption
  <2> QED BY <2>1, <2>2, <2>3, <2>4, DayFacts
          DEF SendHour, Midnight, SwitchSchoolOrYear, outcomeVars, actorVars, IInv, TypeOK
<1>2. Quiet /\ UNCHANGED actorVars
  BY DEF SendHour, Midnight, SwitchSchoolOrYear, outcomeVars, Quiet
<1>3. RowsAreHonest' /\ MarkerIsTruthful' /\ AnnouncedAtMostOnce' /\ InlineIsOnce'
  BY <1>2 DEF IInv, RowsAreHonest, MarkerIsTruthful, AnnouncedAtMostOnce, InlineIsOnce,
              Quiet, actorVars
<1>4. ClaimsAreGood'
  <2>1. ASSUME NEW a \in Actors, claimed[a] # NoHomework
        PROVE  ClaimIsGood(a, claimed[a])'
    <3>1. ClaimIsGood(a, claimed[a]) /\ homework[claimed[a]].publish \in Nat
      BY <2>1, DayFacts DEF IInv, ClaimsAreGood, TypeOK, Row
    <3> QED BY <1>1, <1>2, <3>1 DEF ClaimIsGood, Quiet, actorVars
  <2> QED BY <1>2, <2>1 DEF IInv, ClaimsAreGood, actorVars
<1> QED BY <1>1, <1>3, <1>4 DEF IInv

LEMMA NextInv == IInv /\ [Next]_vars => IInv'
<1> SUFFICES ASSUME IInv, [Next]_vars PROVE IInv'
  OBVIOUS
<1>1. CASE UNCHANGED vars
  BY <1>1 DEF vars, IInv, TypeOK, RowsAreHonest, InlineIsOnce, ClaimsAreGood, ClaimIsGood,
              MarkerIsTruthful, AnnouncedAtMostOnce
<1>2. CASE \E r \in Requests, h \in Homeworks, p \in Days, d \in Days, defer \in BOOLEAN :
             Create(r, h, p, d, defer)
  BY <1>2, CreateInv
<1>3. CASE \E h \in Homeworks :
             \/ \E r \in Requests, p \in Days, d \in Days : Edit(r, h, p, d)
             \/ Delete(h) \/ \E d \in Days : EditOnPhone(h, d)
  BY <1>3, EditInv
<1>4. CASE \E r \in Requests : AnnounceInline(r)
  BY <1>4, InlineInv
<1>5. ASSUME NEW w \in Workers, SweepDue(w) PROVE IInv'
  <2> DEFINE S == {h \in Due : Cardinality({i \in Due : Before(i, h)}) < SweepBatch}
  <2>1. S \in SUBSET Homeworks /\ w \in Actors
    BY DEF Due, Actors
  <2>2. /\ mode[w] = "none" /\ Begin(w, "sweep", S)
        /\ UNCHANGED <<clockVars, open, homework, deferred, outcomeVars, edits, faults>>
    BY <1>5 DEF SweepDue
  <2> HIDE DEF S
  <2> QED BY <2>1, <2>2, ChooseInv
<1>6. ASSUME NEW o \in Operators, FlushPending(o) PROVE IInv'
  <2> DEFINE S == {h \in Homeworks : Pending(h)}
  <2>1. S \in SUBSET Homeworks /\ o \in Actors
    BY DEF Actors
  <2>2. /\ mode[o] = "none" /\ Begin(o, "flush", S)
        /\ UNCHANGED <<clockVars, open, homework, deferred, outcomeVars, edits, faults>>
    BY <1>6 DEF FlushPending
  <2> HIDE DEF S
  <2> QED BY <2>1, <2>2, ChooseInv
<1>7. CASE \E a \in Actors : FanOutStep(a) \/ FailToFanOut(a) \/ Crash(a)
  BY <1>7, PassOverInv, ClaimInv, CommitInv, GiveUpInv DEF FanOutStep
<1>8. CASE SendHour \/ Midnight \/ SwitchSchoolOrYear
  BY <1>8, WorldInv
<1> QED BY <1>1, <1>2, <1>3, <1>4, <1>5, <1>6, <1>7, <1>8 DEF Next

THEOREM InductiveInvariant == Spec => []IInv
BY InitInv, NextInv, PTL DEF Spec
-----------------------------------------------------------------------------
\* Every variable keeps its type.
THEOREM TypeCorrect == Spec => []TypeOK
<1>1. IInv => TypeOK
  BY DEF IInv
<1> QED BY <1>1, InductiveInvariant, PTL

\* No homework is announced twice, by however many requests, sweeps and flushes.
THEOREM OneAnnouncement == Spec => []AnnouncedAtMostOnce
<1>1. IInv => AnnouncedAtMostOnce
  BY DEF IInv
<1> QED BY <1>1, InductiveInvariant, PTL

\* The marker of a deferred row says whether it was handled.
THEOREM HonestMarker == Spec => []MarkerIsTruthful
<1>1. IInv => MarkerIsTruthful
  BY DEF IInv
<1> QED BY <1>1, InductiveInvariant, PTL

\* A deferred row is announced by the commit that holds it, and by nothing else.
LEMMA AnnouncedByCommit ==
  ASSUME IInv, [Next]_vars, NEW h \in deferred, announced'[h] # announced[h]
  PROVE  \E a \in Actors : claimed[a] = h /\ verdict[a] = "stage" /\ ClaimIsGood(a, h)
<1>1. h \in Homeworks
  BY DEF IInv, TypeOK
<1>2. ASSUME NEW r \in Requests, AnnounceInline(r) PROVE FALSE
  <2>1. PICK i \in todo[r] : announced' = [announced EXCEPT ![i] = @ + 1]
    BY <1>2 DEF AnnounceInline
  <2>2. i \in Homeworks /\ i \notin deferred
    BY <1>2, <2>1 DEF AnnounceInline, IInv, InlineIsOnce, TypeOK, Actors
  <2> QED BY <1>1, <2>1, <2>2 DEF IInv, TypeOK
<1>3. ASSUME NEW a \in Actors, Commit(a)
      PROVE  claimed[a] = h /\ verdict[a] = "stage" /\ ClaimIsGood(a, h)
  <2>1. claimed[a] \in Homeworks /\ ClaimIsGood(a, claimed[a])
    BY <1>3 DEF Commit, IInv, TypeOK, ClaimsAreGood
  <2>2. verdict[a] = "stage" /\ announced' = [announced EXCEPT ![claimed[a]] = @ + 1]
    BY <1>3 DEF Commit
  <2>3. claimed[a] = h
    BY <1>1, <2>1, <2>2 DEF IInv, TypeOK
  <2> QED BY <2>1, <2>2, <2>3
<1>4. \/ announced' = announced
      \/ \E r \in Requests : AnnounceInline(r)
      \/ \E a \in Actors : Commit(a)
  <2>1. \A r \in Requests, i \in Homeworks, p \in Days, d \in Days, defer \in BOOLEAN :
          Create(r, i, p, d, defer) => announced' = announced
    BY Zenon DEF Create, outcomeVars
  <2>2. \A i \in Homeworks : Change(i) => announced' = announced
    BY DEF Change, outcomeVars
  <2>3. \A r \in Requests, i \in Homeworks, p \in Days, d \in Days :
          Edit(r, i, p, d) \/ Delete(i) \/ EditOnPhone(i, d) => announced' = announced
    BY <2>2, Zenon DEF Edit, Delete, EditOnPhone
  <2>4. \A a \in Actors :
          PassOver(a) \/ Claim(a) \/ FailToFanOut(a) \/ Crash(a) => announced' = announced
    BY Zenon DEF PassOver, Claim, FailToFanOut, Crash, outcomeVars
  <2>5. (\E w \in Workers : SweepDue(w)) \/ (\E o \in Operators : FlushPending(o))
          => announced' = announced
    BY Zenon DEF SweepDue, FlushPending, outcomeVars
  <2>6. SendHour \/ Midnight \/ SwitchSchoolOrYear \/ UNCHANGED vars => announced' = announced
    BY DEF SendHour, Midnight, SwitchSchoolOrYear, outcomeVars, vars
  <2>7. (\E i \in Homeworks : Delete(i)) => announced' = announced
    BY <2>2, Zenon DEF Delete
  <2>8. (\E i \in Homeworks, d \in Days : EditOnPhone(i, d)) => announced' = announced
    BY <2>2, Zenon DEF EditOnPhone
  <2> QED BY <2>1, <2>3, <2>4, <2>5, <2>6, <2>7, <2>8, Zenon DEF Next, FanOutStep
<1> QED BY <1>2, <1>3, <1>4

\* Only an operator tells the parents of a deferred homework before its day.
THEOREM NobodyIsEarly == Spec => NeverEarly
<1>1. ASSUME IInv, [Next]_vars, NEW h \in deferred, announced'[h] # announced[h]
      PROVE  homework[h].publish <= today \/ \E o \in Operators : claimed[o] = h
  <2>1. PICK a \in Actors : claimed[a] = h /\ ClaimIsGood(a, h)
    BY <1>1, AnnouncedByCommit
  <2> QED BY <2>1 DEF ClaimIsGood
<1>2. IInv /\ [Next]_vars => NeverEarlyStep
  BY <1>1 DEF NeverEarlyStep
<1> QED BY <1>2, InductiveInvariant, PTL DEF Spec, NeverEarly

\* A row that was deleted before the claim is not announced, nor is it deleted
\* under the claim.
THEOREM DeletedStaysQuiet == Spec => NeverAfterDeletion
<1>1. ASSUME IInv, [Next]_vars, NEW h \in deferred, announced'[h] # announced[h]
      PROVE  homework[h].state = "active"
  <2>1. PICK a \in Actors : claimed[a] = h /\ verdict[a] = "stage" /\ ClaimIsGood(a, h)
    BY <1>1, AnnouncedByCommit
  <2> QED BY <2>1 DEF ClaimIsGood
<1>2. IInv /\ [Next]_vars => NeverAfterDeletionStep
  BY <1>1 DEF NeverAfterDeletionStep
<1> QED BY <1>2, InductiveInvariant, PTL DEF Spec, NeverAfterDeletion
=============================================================================
