------------------------ MODULE HostOperationsProofs ------------------------
(* What module HostOperations promises of the items of a batch, for any    *)
(* number of runs, batches, replays and crashes.                           *)
EXTENDS HostOperations, LedgerProofs

Places == {"down", "reconcile", "item", "look", "begin", "execute", "complete"}
OnItem == host.pc \in {"look", "begin", "execute", "complete"}

(* What is recorded of an item as a reuse, and as a refusal. *)
Reuses(o) == RawsOf(ReuseRecord(o))
Refusals(o) == RawsOf(RefusedRecord(o))

-----------------------------------------------------------------------------
(* The inductive invariant.                                                *)

HostType == [pc : Places, run : Runs \cup {"none"}, number : Nat, refused : BOOLEAN,
             todo : SUBSET OpIds, response : [result : Result, raw : Raw] \cup {<<>>}]

OperationsTypeOK ==
    /\ host \in HostType
    /\ ~At("down") => host.run \in Runs
    /\ OnItem => Item \in OpIds /\ Name(Item) \in Offered
    /\ effects \in [OpIds -> Nat]
    /\ DOMAIN executed \subseteq OpIds
    /\ executed = [o \in DOMAIN executed |-> executed[o]]
    /\ \A o \in DOMAIN executed : executed[o] \in Responses(o)
    /\ DOMAIN views = OpIds
    /\ views = [o \in OpIds |-> views[o]]

(* The rows are those of items, as their batch describes them. *)
RowsAreItems ==
    \A o \in DOMAIN operations :
        /\ Name(o) \in Offered
        /\ operations[o].scope = ScopeOf(o)
        /\ operations[o].reservation = Reserves[Name(o)]

(* What an item that is given up is settled as. *)
GivenUp(o) == [result |-> [outcome |-> "infrastructure_failure", usage |-> Reserves[Name(o)]],
               raw |-> Unmeasured]

(* An item is settled by what its execution did, or given up. *)
SettledRightly(o) ==
    \/ o \in DOMAIN executed /\ Settlement(o) = executed[o]
    \/ Name(o) \in Offered \ External /\ Settlement(o) = GivenUp(o)

(* Only what is dispatched is executed, once, and only what the host has   *)
(* just dispatched.                                                        *)
WorldMatches ==
    /\ DOMAIN executed \subseteq dispatched
    /\ \A o \in OpIds : effects[o] = IF o \in DOMAIN executed THEN 1 ELSE 0
    /\ At("execute") => /\ Item \in dispatched
                        /\ Item \notin DOMAIN executed /\ Item \notin DOMAIN completions
    /\ At("complete") => Item \in DOMAIN executed /\ executed[Item] = host.response
    /\ \A o \in DOMAIN completions : SettledRightly(o)

(* An item is executed, reused or refused: one of them, and one way.  What *)
(* is reused is a measured result of an equal request.                     *)
OneAnswer ==
    \A o \in OpIds :
        /\ \A x, y \in Reuses(o) : x = y
        /\ \A x, y \in Refusals(o) : x = y
        /\ Reserved(o) => Reuses(o) = {} /\ Refusals(o) = {}
        /\ Reuses(o) = {} \/ Refusals(o) = {}
        /\ Name(o) \notin Offered => Reuses(o) = {} /\ Refusals(o) = {}
        /\ \A x \in Reuses(o) : /\ x \in DOMAIN completions /\ Name(x) = Name(o)
                                /\ Settlement(x).result.outcome \in Measured

(* A batch is answered in order, up to the item the host is at; what comes *)
(* after a refused item is neither reserved nor reused.                    *)
Before(o, p) == o[1] = p[1] /\ o[2] < p[2]
Touched(o) == Reserved(o) \/ Reuses(o) # {} \/ Refusals(o) # {}
Answered(o) ==
    Name(o) \notin Offered \/ Completed(o) \/ Reuses(o) # {} \/ Refusals(o) # {}

InOrder ==
    \A o, p \in OpIds : Before(o, p) =>
        /\ Touched(p) => Answered(o)
        /\ Refusals(o) # {} => ~Reserved(p) /\ Reuses(p) = {}

Progress ==
    /\ host.todo \subseteq DOMAIN operations
    /\ At("begin") => Reserved(Item)
    /\ ~At("down") =>
          \A o \in OpIds : o[1] = host.run /\ o[2] < host.number =>
              /\ Answered(o)
              /\ Refusals(o) # {} => host.refused

(* Every view of an item is of the one answer that is recorded of it. *)
Shows(o, view) ==
    \/ Name(o) \notin Offered /\ view = ErrorView
    \/ /\ Name(o) \in Offered
       /\ \/ o \in DOMAIN completions /\ view = <<"result", o, Settlement(o).result.outcome>>
          \/ \E x \in Reuses(o) : view = <<"result", x, Settlement(x).result.outcome>>
          \/ \E x \in Refusals(o) : view = RefusalView(x)

ViewsMatch == \A o \in OpIds : \A view \in views[o] : Shows(o, view)

OperationsInv ==
    /\ OperationsTypeOK
    /\ RowsAreItems
    /\ WorldMatches
    /\ OneAnswer
    /\ InOrder
    /\ Progress
    /\ ViewsMatch

-----------------------------------------------------------------------------
(* Facts about items and their records.                                    *)

LEMMA ItemFacts ==
    /\ \A o \in OpIds : o = <<o[1], o[2]>> /\ o[1] \in Runs /\ o[2] \in Nat
    /\ \A r \in Runs : \A n \in DOMAIN Batch[r] : <<r, n>> \in OpIds
<1>1. ASSUME NEW o \in OpIds PROVE o = <<o[1], o[2]>> /\ o[1] \in Runs /\ o[2] \in Nat
  <2>1. PICK r \in Runs : o \in {r} \X DOMAIN Batch[r]
    BY OperationsAssumption DEF Items
  <2>2. Batch[r] \in Seq({Batch[r][i] : i \in DOMAIN Batch[r]}) BY OperationsAssumption
  <2>3. DOMAIN Batch[r] \subseteq Nat BY <2>2
  <2>4. QED BY <2>1, <2>3
<1>2. \A r \in Runs : \A n \in DOMAIN Batch[r] : <<r, n>> \in OpIds
  BY OperationsAssumption DEF Items
<1>3. QED BY <1>1, <1>2

LEMMA RecordFacts ==
    \A o, p \in OpIds :
        /\ InputRecord(o) # ReuseRecord(p) /\ InputRecord(o) # RefusedRecord(p)
        /\ ReuseRecord(o) # RefusedRecord(p)
        /\ ReuseRecord(o) = ReuseRecord(p) => o = p
        /\ RefusedRecord(o) = RefusedRecord(p) => o = p
        /\ ReuseRecord(o) # p /\ RefusedRecord(o) # p
<1>1. SUFFICES ASSUME NEW o \in OpIds, NEW p \in OpIds
               PROVE  /\ InputRecord(o) # ReuseRecord(p) /\ InputRecord(o) # RefusedRecord(p)
                      /\ ReuseRecord(o) # RefusedRecord(p)
                      /\ ReuseRecord(o) = ReuseRecord(p) => o = p
                      /\ RefusedRecord(o) = RefusedRecord(p) => o = p
                      /\ ReuseRecord(o) # p /\ RefusedRecord(o) # p
  OBVIOUS
<1>2. o = <<o[1], o[2]>> /\ p = <<p[1], p[2]>> BY ItemFacts
<1>3. QED BY <1>2 DEF InputRecord, ReuseRecord, RefusedRecord

LEMMA RawOfRecord == \A id : Recorded(id) => RawOf(id) \in RawsOf(id)
BY DEF Recorded, RawOf, RawsOf

LEMMA RecordedRaws == \A id : Recorded(id) <=> RawsOf(id) # {}
BY DEF Recorded, RawsOf

LEMMA OutcomeSettled == \A o : Outcome(o) = Settlement(o).result.outcome
BY DEF Outcome, Settlement

-----------------------------------------------------------------------------
(* The steps.                                                              *)

(* What is recorded stays; and all that is recorded is as it was. *)
Kept ==
    /\ DOMAIN operations \subseteq DOMAIN operations'
    /\ \A o \in DOMAIN completions :
          o \in DOMAIN completions' /\ Settlement(o)' = Settlement(o)
    /\ \A o \in OpIds : /\ Reuses(o) # {} => Reuses(o)' = Reuses(o)
                        /\ Refusals(o) # {} => Refusals(o)' = Refusals(o)
SameRecords ==
    /\ UNCHANGED <<operations, dispatched>> /\ SameSettlements
    /\ \A o \in OpIds : Reuses(o)' = Reuses(o) /\ Refusals(o)' = Refusals(o)

LEMMA UnchangedRecords == UNCHANGED vars => SameRecords /\ [Next]_vars
BY DEF vars, SameRecords, SameSettlements, Settlement, Reuses, Refusals, RawsOf, Captures

LEMMA SameIsKept == SameRecords => Kept
BY DEF SameRecords, Kept, SameSettlements

LEMMA AnswersStay ==
    ASSUME Kept, OneAnswer, NEW o \in OpIds
    PROVE  /\ Answered(o) => Answered(o)'
           /\ \A view : Shows(o, view) => Shows(o, view)'
<1>1. \A x \in Reuses(o) : x \in DOMAIN completions BY DEF OneAnswer
<1>2. QED BY <1>1 DEF Kept, Answered, Completed, Shows

LEMMA RecordsStay ==
    ASSUME SameRecords, RowsAreItems, OneAnswer, InOrder
    PROVE  RowsAreItems' /\ OneAnswer' /\ InOrder'
<1>1. /\ UNCHANGED <<operations, completions>>
      /\ \A o \in DOMAIN completions : Settlement(o)' = Settlement(o)
      /\ \A o \in OpIds : Reuses(o)' = Reuses(o) /\ Refusals(o)' = Refusals(o)
  BY DEF SameRecords, SameSettlements
<1>2. RowsAreItems' BY <1>1 DEF RowsAreItems
<1>3. OneAnswer' BY <1>1 DEF OneAnswer, Reserved
<1>4. InOrder' BY <1>1 DEF InOrder, Touched, Answered, Reserved, Completed
<1>5. QED BY <1>2, <1>3, <1>4

LEMMA WorldStays ==
    ASSUME WorldMatches, UNCHANGED worldVars, dispatched \subseteq dispatched',
           SameSettlements, host'.pc \notin {"execute", "complete"}
    PROVE  WorldMatches'
<1>1. /\ UNCHANGED <<effects, executed, completions>>
      /\ \A o \in DOMAIN completions : Settlement(o)' = Settlement(o)
  BY DEF worldVars, SameSettlements
<1>2. QED BY <1>1 DEF WorldMatches, At, SettledRightly

(* The host stops, or stays down while a session or a scope is recorded. *)
LEMMA StopStep ==
    ASSUME OperationsInv, SameRecords, UNCHANGED <<worldVars, views>>,
           host' = Down \/ (At("down") /\ host' = host)
    PROVE  OperationsInv'
<1> USE DEF OperationsInv
<1>1. host'.pc = "down" /\ host' \in HostType /\ host'.todo \subseteq DOMAIN operations'
  <2>1. Down \in HostType /\ Down.pc = "down" /\ Down.todo = {}
    BY DEF Down, HostType, Places
  <2>2. host \in HostType /\ host.todo \subseteq DOMAIN operations
    BY DEF OperationsTypeOK, Progress
  <2>3. DOMAIN operations' = DOMAIN operations BY DEF SameRecords
  <2>4. QED BY <2>1, <2>2, <2>3 DEF At
<1>2. /\ UNCHANGED <<operations, dispatched, completions, effects, executed, views>>
      /\ \A o \in DOMAIN completions : Settlement(o)' = Settlement(o)
  BY DEF SameRecords, SameSettlements, worldVars
<1>3. OperationsTypeOK' BY <1>1, <1>2 DEF OperationsTypeOK, OnItem, At
<1>4. WorldMatches' BY <1>1, WorldStays DEF SameRecords
<1>5. Progress' BY <1>1, <1>2 DEF Progress, At
<1>6. ViewsMatch' BY <1>2, SameIsKept, AnswersStay DEF ViewsMatch
<1>7. QED BY <1>3, <1>4, <1>5, <1>6, RecordsStay

(* The host goes on with the item it is at. *)
LEMMA MoveStep ==
    ASSUME OperationsInv, SameRecords, UNCHANGED <<worldVars, views>>, ~At("down"),
           NEW place \in {"item", "look", "begin"}, host' = [host EXCEPT !.pc = place],
           place # "item" => Item \in OpIds /\ Name(Item) \in Offered,
           place = "begin" => Reserved(Item)
    PROVE  OperationsInv'
<1> USE DEF OperationsInv
<1>1. /\ host'.pc = place /\ host'.run = host.run /\ host'.number = host.number
      /\ host'.refused = host.refused /\ host'.todo = host.todo /\ host' \in HostType
      /\ host.run \in Runs
  BY DEF OperationsTypeOK, HostType, Places
<1>2. Item' = Item BY <1>1 DEF Item
<1>3. /\ UNCHANGED <<operations, dispatched, completions, effects, executed, views>>
      /\ \A o \in DOMAIN completions : Settlement(o)' = Settlement(o)
      /\ \A o \in OpIds : Reuses(o)' = Reuses(o) /\ Refusals(o)' = Refusals(o)
  BY DEF SameRecords, SameSettlements, worldVars
<1>4. OperationsTypeOK' BY <1>1, <1>2, <1>3 DEF OperationsTypeOK, OnItem, At, Name
<1>5. WorldMatches' BY <1>1, WorldStays DEF SameRecords
<1>6. Progress'
  <2>1. \A o \in OpIds : Answered(o) => Answered(o)' BY SameIsKept, AnswersStay
  <2>2. At("begin")' => Reserved(Item)' BY <1>1, <1>2, <1>3 DEF At, Reserved
  <2>3. QED BY <1>1, <1>3, <2>1, <2>2 DEF Progress
<1>7. ViewsMatch' BY <1>3, SameIsKept, AnswersStay DEF ViewsMatch
<1>8. QED BY <1>4, <1>5, <1>6, <1>7, RecordsStay

(* A resume starts at the first item. *)
LEMMA ResumeStep ==
    ASSUME LedgerInv, OperationsInv, NEW r \in Runs, Resume(r)
    PROVE  OperationsInv'
<1> USE DEF OperationsInv
<1>1. SameRecords /\ UNCHANGED <<worldVars, views>>
  BY UnchangedRecords DEF Resume
<1>2. DOMAIN operations \subseteq OpIds BY DEF LedgerInv, TypeOK
<1>3. /\ host'.pc = "reconcile" /\ host'.run = r /\ host'.number = 1
      /\ host'.todo \subseteq DOMAIN operations /\ host' \in HostType
  <2>1. host' = [pc |-> "reconcile", run |-> r, number |-> 1, refused |-> FALSE,
                 todo |-> {o \in DOMAIN operations : BlockedBy(o, r)}, response |-> <<>>]
    BY DEF Resume, Down
  <2>2. QED BY <1>2, <2>1 DEF HostType, Places
<1>4. /\ UNCHANGED <<operations, dispatched, completions, effects, executed, views>>
      /\ \A o \in DOMAIN completions : Settlement(o)' = Settlement(o)
  BY <1>1 DEF SameRecords, SameSettlements, worldVars
<1>5. OperationsTypeOK' BY <1>3, <1>4 DEF OperationsTypeOK, OnItem, At
<1>6. WorldMatches' BY <1>1, <1>3, WorldStays DEF SameRecords
<1>7. Progress'
  <2>1. ASSUME NEW o \in OpIds, o[1] = r, o[2] < 1 PROVE FALSE
    <3>1. PICK q \in Runs : o \in {q} \X DOMAIN Batch[q]
      BY OperationsAssumption DEF Items
    <3>2. Batch[q] \in Seq({Batch[q][i] : i \in DOMAIN Batch[q]}) BY OperationsAssumption
    <3>3. QED BY <2>1, <3>1, <3>2
  <2>2. QED BY <1>3, <1>4, <2>1 DEF Progress, At
<1>8. ViewsMatch' BY <1>1, <1>4, SameIsKept, AnswersStay DEF ViewsMatch
<1>9. QED BY <1>1, <1>5, <1>6, <1>7, <1>8, RecordsStay

(* The host shows the answer of the item it is at, and goes to the next. *)
ToNext(it, view, refused) ==
    /\ host'.pc = "item" /\ host'.run = host.run /\ host'.number = host.number + 1
    /\ host'.refused = refused /\ host'.todo = host.todo /\ host' \in HostType
    /\ DOMAIN views' = OpIds /\ views' = [o \in OpIds |-> views'[o]]
    /\ views'[it] = views[it] \cup {view}
    /\ \A o \in OpIds \ {it} : views'[o] = views[o]

LEMMA ShowNext ==
    ASSUME OperationsTypeOK, NEW view, NEW refused \in BOOLEAN, Show(view, refused),
           Item \in OpIds
    PROVE  ToNext(Item, view, refused)
<1> DEFINE it == Item
<1>1. /\ views' = [views EXCEPT ![it] = views[it] \cup {view}]
      /\ host' = [host EXCEPT !.pc = "item", !.number = host.number + 1,
                              !.refused = refused, !.response = <<>>]
  BY DEF Show
<1> HIDE DEF it
<1>2. host'.pc = "item" /\ host'.run = host.run /\ host'.number = host.number + 1
      /\ host'.refused = refused /\ host'.todo = host.todo /\ host' \in HostType
  <2>1. /\ host \in HostType /\ host.number + 1 \in Nat
        /\ host = [pc |-> host.pc, run |-> host.run, number |-> host.number,
                   refused |-> host.refused, todo |-> host.todo, response |-> host.response]
    BY DEF OperationsTypeOK, HostType
  <2>2. /\ host.run \in Runs \cup {"none"} /\ host.todo \in SUBSET OpIds
    BY <2>1 DEF HostType
  <2>3. host' = [pc |-> "item", run |-> host.run, number |-> host.number + 1,
                 refused |-> refused, todo |-> host.todo, response |-> <<>>]
    BY <1>1, <2>1
  <2>4. QED BY <2>1, <2>2, <2>3 DEF HostType, Places
<1>3. it \in OpIds /\ DOMAIN views = OpIds BY DEF OperationsTypeOK, it
<1>4. QED BY <1>1, <1>2, <1>3 DEF ToNext, it

LEMMA NextItemStep ==
    ASSUME OperationsInv, Kept, ~At("down"),
           NEW it \in OpIds, Item = it, NEW view, NEW refused \in BOOLEAN,
           ToNext(it, view, refused), UNCHANGED worldVars,
           Shows(it, view)', Answered(it)', Refusals(it)' # {} => refused,
           host.refused => refused,
           \A o \in OpIds \ {it} : Refusals(o)' = Refusals(o)
    PROVE  OperationsTypeOK' /\ Progress' /\ ViewsMatch'
<1> USE DEF OperationsInv
<1>1. \A o \in OpIds : /\ Answered(o) => Answered(o)'
                       /\ \A v : Shows(o, v) => Shows(o, v)'
  BY AnswersStay
<1>2. UNCHANGED <<effects, executed>> BY DEF worldVars
<1>3. host.run \in Runs /\ host.number \in Nat BY DEF OperationsTypeOK, HostType
<1>4. OperationsTypeOK'
  BY <1>2, <1>3 DEF OperationsTypeOK, OnItem, At, ToNext
<1>5. ViewsMatch' BY <1>1 DEF ViewsMatch, ToNext
<1>6. Progress'
  <2>1. ASSUME NEW o \in OpIds, o[1] = host.run, o[2] < host.number + 1, o # it
        PROVE  o[2] < host.number
    <3>1. o = <<o[1], o[2]>> /\ o[2] \in Nat BY ItemFacts
    <3>2. it = <<host.run, host.number>> BY DEF Item
    <3>3. QED BY <1>3, <2>1, <3>1, <3>2
  <2>2. ASSUME NEW o \in OpIds, o[1] = host.run, o[2] < host.number + 1
        PROVE  Answered(o)' /\ (Refusals(o)' # {} => refused)
    <3>1. CASE o = it BY <3>1
    <3>2. CASE o # it BY <1>1, <2>1, <2>2, <3>2 DEF Progress
    <3>3. QED BY <3>1, <3>2
  <2>3. QED BY <2>2 DEF Progress, ToNext, At, Kept
<1>7. QED BY <1>4, <1>5, <1>6

(* The host gives what is recorded, or an error. *)
LEMMA ReplayStep ==
    ASSUME LedgerInv, OperationsInv, BadItem \/ ReplayResult \/ ReplayReuse \/ ReplayRefusal
    PROVE  OperationsInv'
<1> USE DEF OperationsInv
<1>1. /\ UNCHANGED vars /\ UNCHANGED worldVars /\ ~At("down")
      /\ ~BadItem => OnItem
  BY DEF BadItem, ReplayResult, ReplayReuse, ReplayRefusal, AtItem, At, OnItem
<1>2. SameRecords /\ Kept BY <1>1, UnchangedRecords, SameIsKept
<1>3. host.run \in Runs /\ host.refused \in BOOLEAN
  BY <1>1 DEF OperationsTypeOK, HostType
<1>4. Item \in OpIds
  <2>1. CASE BadItem BY <1>3, <2>1, ItemFacts DEF BadItem, AtItem, Item
  <2>2. CASE ~BadItem BY <1>1, <2>2 DEF OperationsTypeOK
  <2>3. QED BY <2>1, <2>2
<1>5. PICK it \in OpIds : it = Item BY <1>4
<1>6. ASSUME NEW view, NEW refused \in BOOLEAN, Show(view, refused), Shows(it, view),
             Answered(it), Refusals(it) # {} => refused, host.refused => refused
      PROVE  OperationsInv'
  <2>1. ToNext(it, view, refused) BY <1>5, <1>6, ShowNext
  <2>2. Shows(it, view)' /\ Answered(it)' BY <1>2, <1>6, AnswersStay
  <2>3. \A o \in OpIds : Refusals(o)' = Refusals(o) BY <1>2 DEF SameRecords
  <2>4. OperationsTypeOK' /\ Progress' /\ ViewsMatch'
    BY <1>1, <1>2, <1>5, <1>6, <2>1, <2>2, <2>3, NextItemStep
  <2>5. WorldMatches' BY <1>1, <1>2, <2>1, WorldStays DEF SameRecords, ToNext
  <2>6. QED BY <1>2, <2>4, <2>5, RecordsStay
<1> HIDE DEF OperationsInv
<1>7. CASE BadItem
  <2>1. Show(ErrorView, host.refused) /\ Name(it) \notin Offered
    BY <1>5, <1>7 DEF BadItem
  <2>2. Refusals(it) = {} BY <2>1 DEF OperationsInv, OneAnswer
  <2>3. Shows(it, ErrorView) /\ Answered(it) BY <2>1 DEF Shows, Answered
  <2>4. QED BY <1>3, <1>6, <2>1, <2>2, <2>3
<1>8. ASSUME ~BadItem PROVE Name(it) \in Offered
  BY <1>1, <1>5, <1>8 DEF OperationsInv, OperationsTypeOK
<1>9. CASE ReplayResult /\ ~BadItem
  <2>1. Show(ResultView(it), host.refused) /\ it \in DOMAIN completions
    BY <1>5, <1>9 DEF ReplayResult, Completed
  <2>2. Reserved(it) /\ Refusals(it) = {}
    <3>1. Reserved(it) BY <2>1 DEF LedgerInv, TypeOK, Reserved
    <3>2. QED BY <3>1 DEF OperationsInv, OneAnswer
  <2>3. Shows(it, ResultView(it)) /\ Answered(it)
    BY <1>8, <1>9, <2>1, OutcomeSettled DEF Shows, Answered, ResultView, Completed
  <2>4. QED BY <1>3, <1>6, <2>1, <2>2, <2>3
<1>10. CASE ReplayReuse /\ ~BadItem
  <2>1. PICK x : x = RawOf(ReuseRecord(it)) OBVIOUS
  <2>2. Show(ResultView(x), host.refused) /\ Recorded(ReuseRecord(it))
    BY <1>5, <1>10, <2>1 DEF ReplayReuse
  <2>3. x \in Reuses(it) BY <2>1, <2>2, RawOfRecord DEF Reuses
  <2>4. Refusals(it) = {} BY <2>3 DEF OperationsInv, OneAnswer
  <2>5. Shows(it, ResultView(x)) /\ Answered(it)
    BY <1>8, <1>10, <2>3, OutcomeSettled DEF Shows, Answered, ResultView
  <2>6. QED BY <1>3, <1>6, <2>2, <2>4, <2>5
<1>11. CASE ReplayRefusal /\ ~BadItem
  <2>1. PICK x : x = RawOf(RefusedRecord(it)) OBVIOUS
  <2>2. Show(RefusalView(x), TRUE) /\ Recorded(RefusedRecord(it))
    BY <1>5, <1>11, <2>1 DEF ReplayRefusal
  <2>3. x \in Refusals(it) BY <2>1, <2>2, RawOfRecord DEF Refusals
  <2>4. Shows(it, RefusalView(x)) /\ Answered(it)
    BY <1>8, <1>11, <2>3 DEF Shows, Answered
  <2>5. QED BY <1>6, <2>2, <2>4
<1>12. QED BY <1>7, <1>9, <1>10, <1>11

(* What is known of an item of which nothing is recorded. *)
LEMMA NewItem ==
    ASSUME OperationsInv, Unrecorded
    PROVE  /\ ~At("down") /\ Item \in OpIds /\ Name(Item) \in Offered
           /\ ~Answered(Item) /\ ~(\E x \in Reuses(Item) \cup Refusals(Item) : TRUE)
           /\ \A o \in OpIds : Before(o, Item) =>
                 Answered(o) /\ (Refusals(o) # {} => host.refused)
<1>1. ~At("down") /\ OnItem /\ ~Completed(Item)
      /\ ~Recorded(ReuseRecord(Item)) /\ ~Recorded(RefusedRecord(Item))
  BY DEF Unrecorded, At, OnItem
<1>2. Item \in OpIds /\ Name(Item) \in Offered
  BY <1>1 DEF OperationsInv, OperationsTypeOK
<1>3. Reuses(Item) = {} /\ Refusals(Item) = {}
  BY <1>1, RecordedRaws DEF Reuses, Refusals
<1>4. Item[1] = host.run /\ Item[2] = host.number BY DEF Item
<1>5. QED BY <1>1, <1>2, <1>3, <1>4 DEF Before, Answered, OperationsInv, Progress

(* A reuse is recorded and shown. *)
LEMMA ReuseStep ==
    ASSUME LedgerInv, OperationsInv, Reuse
    PROVE  [Next]_vars /\ OperationsInv'
<1>1. Unrecorded /\ ~Reserved(Item) /\ ~host.refused BY DEF Reuse, New
<1>2. PICK it \in OpIds : Item = it BY <1>1, NewItem
<1>3. /\ ~At("down") /\ Name(it) \in Offered /\ ~Reserved(it) /\ Reuses(it) = {} /\ Refusals(it) = {}
      /\ \A o \in OpIds : Before(o, it) => Answered(o) /\ Refusals(o) = {}
  BY <1>1, <1>2, NewItem
<1>4. PICK s \in sessions, source \in Sources(Name(it)) :
         /\ RecordOnce(s, ReuseRecord(it), Name(it), source)
         /\ Show(ResultView(source), host.refused)
  BY <1>2 DEF Reuse
<1>5. /\ source \in DOMAIN completions /\ Name(source) = Name(it)
      /\ Outcome(source) \in Measured /\ source \in OpIds
  BY <1>4 DEF Sources, LedgerInv, TypeOK
<1>6. ReuseRecord(it) \in RecordIds /\ Name(it) \in Bodies /\ source \in Raw
  BY <1>3, <1>5, OperationsAssumption
<1>7. /\ [Next]_vars /\ UNCHANGED <<operations, dispatched>> /\ SameSettlements
      /\ Reuses(it)' = {source}
      /\ \A other : other # ReuseRecord(it) => RawsOf(other)' = RawsOf(other)
  <2>1. /\ [Next]_vars /\ UNCHANGED <<operations, dispatched>> /\ SameSettlements
        /\ RawsOf(ReuseRecord(it))' =
             IF Recorded(ReuseRecord(it)) THEN RawsOf(ReuseRecord(it)) ELSE {source}
        /\ \A other : other # ReuseRecord(it) => RawsOf(other)' = RawsOf(other)
    BY <1>4, <1>6, RecordOnceEffect
  <2>2. ~Recorded(ReuseRecord(it)) BY <1>3, RecordedRaws DEF Reuses
  <2>3. QED BY <2>1, <2>2 DEF Reuses
<1>8. /\ \A o \in OpIds \ {it} : Reuses(o)' = Reuses(o)
      /\ \A o \in OpIds : Refusals(o)' = Refusals(o)
  BY <1>7, RecordFacts DEF Reuses, Refusals
<1>9. /\ UNCHANGED <<operations, dispatched, completions>>
      /\ \A o \in DOMAIN completions : Settlement(o)' = Settlement(o)
  BY <1>7 DEF SameSettlements
<1> USE DEF OperationsInv
<1>10. Kept BY <1>3, <1>8, <1>9 DEF Kept
<1>11. RowsAreItems' BY <1>9 DEF RowsAreItems
<1>12. OneAnswer'
  BY <1>3, <1>5, <1>7, <1>8, <1>9, OutcomeSettled DEF OneAnswer, Reserved
<1>13. InOrder'
  <2>1. \A o \in OpIds : Answered(o) => Answered(o)' BY <1>10, AnswersStay
  <2>2. \A p \in OpIds \ {it} : Touched(p)' => Touched(p)
    BY <1>8, <1>9 DEF Touched, Reserved
  <2>3. QED
    BY <1>3, <1>7, <1>8, <1>9, <2>1, <2>2 DEF InOrder, Reserved
<1>14. PICK view : view = ResultView(source) OBVIOUS
<1>15. ToNext(it, view, host.refused) /\ UNCHANGED worldVars /\ host.refused \in BOOLEAN
  <2>1. host.refused \in BOOLEAN BY DEF OperationsTypeOK, HostType
  <2>2. QED BY <1>2, <1>4, <1>14, <2>1, ShowNext DEF Reuse
<1>16. WorldMatches' BY <1>7, <1>15, WorldStays DEF ToNext
<1>17. Shows(it, view)' /\ Answered(it)'
  <2>1. view = <<"result", source, Settlement(source).result.outcome>>
    BY <1>14, OutcomeSettled DEF ResultView
  <2>2. Settlement(source)' = Settlement(source) BY <1>5, <1>9
  <2>3. QED BY <1>3, <1>7, <2>1, <2>2 DEF Shows, Answered
<1>18. OperationsTypeOK' /\ Progress' /\ ViewsMatch'
  BY <1>2, <1>3, <1>8, <1>10, <1>15, <1>17, NextItemStep
<1>19. QED BY <1>7, <1>11, <1>12, <1>13, <1>16, <1>18

(* A refusal is recorded and shown: nothing after the item was tried. *)
LEMMA RefuseStep ==
    ASSUME LedgerInv, OperationsInv, RefuseLater \/ RefuseBudget
    PROVE  [Next]_vars /\ OperationsInv'
<1>1. Unrecorded /\ ~Reserved(Item) /\ UNCHANGED worldVars
  BY DEF RefuseLater, RefuseBudget, MustReserve, New, Refuse
<1>2. PICK it \in OpIds : Item = it BY <1>1, NewItem
<1>3. /\ ~At("down") /\ Name(it) \in Offered /\ ~Reserved(it) /\ Reuses(it) = {} /\ Refusals(it) = {}
      /\ ~Answered(it)
      /\ \A o \in OpIds : Before(o, it) => Answered(o)
  BY <1>1, <1>2, NewItem
<1>4. PICK reason \in {Earlier, Budget}, s \in sessions :
         /\ RecordOnce(s, RefusedRecord(it), Name(it), reason)
         /\ Show(RefusalView(reason), TRUE)
  BY <1>2 DEF RefuseLater, RefuseBudget, Refuse
<1>5. RefusedRecord(it) \in RecordIds /\ Name(it) \in Bodies /\ reason \in Raw
  BY <1>3, OperationsAssumption
<1>6. /\ [Next]_vars /\ UNCHANGED <<operations, dispatched>> /\ SameSettlements
      /\ Refusals(it)' = {reason}
      /\ \A other : other # RefusedRecord(it) => RawsOf(other)' = RawsOf(other)
  <2>1. /\ [Next]_vars /\ UNCHANGED <<operations, dispatched>> /\ SameSettlements
        /\ RawsOf(RefusedRecord(it))' =
             IF Recorded(RefusedRecord(it)) THEN RawsOf(RefusedRecord(it)) ELSE {reason}
        /\ \A other : other # RefusedRecord(it) => RawsOf(other)' = RawsOf(other)
    BY <1>4, <1>5, RecordOnceEffect
  <2>2. ~Recorded(RefusedRecord(it)) BY <1>3, RecordedRaws DEF Refusals
  <2>3. QED BY <2>1, <2>2 DEF Refusals
<1>7. /\ \A o \in OpIds \ {it} : Refusals(o)' = Refusals(o)
      /\ \A o \in OpIds : Reuses(o)' = Reuses(o)
  BY <1>6, RecordFacts DEF Reuses, Refusals
<1>8. /\ UNCHANGED <<operations, dispatched, completions>>
      /\ \A o \in DOMAIN completions : Settlement(o)' = Settlement(o)
  BY <1>6 DEF SameSettlements
<1> USE DEF OperationsInv
<1>9. Kept BY <1>3, <1>7, <1>8 DEF Kept
<1>10. RowsAreItems' BY <1>8 DEF RowsAreItems
<1>11. OneAnswer' BY <1>3, <1>6, <1>7, <1>8 DEF OneAnswer, Reserved
<1>12. InOrder'
  <2>1. \A o \in OpIds : Answered(o) => Answered(o)' BY <1>9, AnswersStay
  <2>2. \A p \in OpIds \ {it} : Touched(p)' => Touched(p)
    BY <1>7, <1>8 DEF Touched, Reserved
  <2>3. \A p \in OpIds : Before(it, p) => ~Touched(p) BY <1>3 DEF InOrder
  <2>4. QED
    BY <1>3, <1>7, <1>8, <2>1, <2>2, <2>3 DEF InOrder, Reserved, Touched
<1>13. ToNext(it, RefusalView(reason), TRUE) BY <1>2, <1>4, ShowNext
<1>14. WorldMatches' BY <1>1, <1>6, <1>13, WorldStays DEF ToNext
<1>15. Shows(it, RefusalView(reason))' /\ Answered(it)'
  BY <1>3, <1>6 DEF Shows, Answered
<1>16. OperationsTypeOK' /\ Progress' /\ ViewsMatch'
  BY <1>1, <1>2, <1>3, <1>7, <1>9, <1>13, <1>15, NextItemStep
<1>17. QED BY <1>6, <1>10, <1>11, <1>12, <1>14, <1>16

(* An item is reserved: nothing is recorded of it, and nothing before it   *)
(* was refused.                                                            *)
LEMMA ReserveStep ==
    ASSUME LedgerInv, OperationsInv, ReserveItem
    PROVE  [Next]_vars /\ OperationsInv'
<1>1. Unrecorded /\ ~Reserved(Item) /\ ~host.refused /\ UNCHANGED <<worldVars, views>>
  BY DEF ReserveItem, MustReserve, New
<1>2. PICK it \in OpIds : Item = it BY <1>1, NewItem
<1>3. /\ ~At("down") /\ Name(it) \in Offered /\ ~Reserved(it) /\ Reuses(it) = {} /\ Refusals(it) = {}
      /\ \A o \in OpIds : Before(o, it) => Answered(o) /\ Refusals(o) = {}
  BY <1>1, <1>2, NewItem
<1>4. PICK s \in sessions :
         Reserve(s, ItemRequest(it), Reserves[Name(it)], ScopeOf(it))
  BY <1>2 DEF ReserveItem
<1>5. ItemRequest(it) \in Request /\ ItemRequest(it).id = it
  BY <1>3, OperationsAssumption DEF ItemRequest, Request
<1>6. Reserves[Name(it)] \in Reservations /\ ScopeOf(it) \in Scopes \cup {Root}
  BY <1>3, OperationsAssumption, ItemFacts DEF ScopeOf
<1>7. PICK request \in Request : request = ItemRequest(it) BY <1>5
<1>8. /\ [Next]_vars
      /\ DOMAIN operations' = DOMAIN operations \cup {request.id}
      /\ \A o \in DOMAIN operations : operations'[o] = operations[o]
      /\ operations'[request.id] =
           [request |-> request, scope |-> ScopeOf(it), reservation |-> Reserves[Name(it)]]
      /\ UNCHANGED dispatched /\ SameSettlements
      /\ \A id : RawsOf(id)' = RawsOf(id)
  BY <1>4, <1>6, <1>7, ReserveEffect
<1>9. /\ DOMAIN operations' = DOMAIN operations \cup {it}
      /\ \A o \in OpIds : Reuses(o)' = Reuses(o) /\ Refusals(o)' = Refusals(o)
      /\ UNCHANGED <<dispatched, completions>>
      /\ \A o \in DOMAIN completions : Settlement(o)' = Settlement(o)
  BY <1>5, <1>7, <1>8 DEF Reuses, Refusals, SameSettlements
<1> USE DEF OperationsInv
<1>10. Kept BY <1>9 DEF Kept
<1>11. RowsAreItems' BY <1>3, <1>5, <1>7, <1>8, <1>9 DEF RowsAreItems
<1>12. OneAnswer' BY <1>3, <1>9 DEF OneAnswer, Reserved
<1>13. \A o \in OpIds : /\ Answered(o) => Answered(o)'
                        /\ \A view : Shows(o, view) => Shows(o, view)'
  BY <1>10, AnswersStay
<1>14. InOrder'
  <2>1. \A p \in OpIds \ {it} : (Touched(p)' => Touched(p)) /\ (Reserved(p)' => Reserved(p))
    BY <1>9 DEF Touched, Reserved
  <2>2. QED BY <1>3, <1>9, <1>13, <2>1 DEF InOrder
<1>15. /\ host'.pc = "begin" /\ host'.run = host.run /\ host'.number = host.number
       /\ host'.refused = host.refused /\ host'.todo = host.todo /\ host' \in HostType
       /\ host.run \in Runs
  BY <1>3 DEF ReserveItem, GoTo, OperationsTypeOK, HostType, Places
<1>16. Item' = it BY <1>2, <1>15 DEF Item
<1>17. OperationsTypeOK'
  BY <1>1, <1>3, <1>15, <1>16 DEF OperationsTypeOK, OnItem, At, worldVars
<1>18. WorldMatches' BY <1>1, <1>8, <1>15, WorldStays
<1>19. Progress'
  <2>1. At("begin")' => Reserved(Item)' BY <1>9, <1>16 DEF Reserved
  <2>2. QED BY <1>3, <1>9, <1>13, <1>15, <2>1 DEF Progress
<1>20. ViewsMatch' BY <1>1, <1>13 DEF ViewsMatch
<1>21. QED BY <1>8, <1>11, <1>12, <1>14, <1>17, <1>18, <1>19, <1>20

(* The dispatch of an item is marked, for the first time. *)
LEMMA BeginStep ==
    ASSUME LedgerInv, OperationsInv, BeginItem
    PROVE  [Next]_vars /\ OperationsInv'
<1>1. At("begin") /\ ~At("down") /\ OnItem /\ UNCHANGED <<worldVars, views>>
  BY DEF BeginItem, At, OnItem
<1>2. PICK it \in OpIds : Item = it /\ Name(it) \in Offered
  BY <1>1 DEF OperationsInv, OperationsTypeOK
<1>3. ItemRequest(it) \in Request /\ ItemRequest(it).id = it
  BY <1>2, OperationsAssumption DEF ItemRequest, Request
<1>4. PICK s \in sessions : Begin(s, ItemRequest(it)) BY <1>2 DEF BeginItem
<1>5. PICK request \in Request : request = ItemRequest(it) BY <1>3
<1>6. /\ [Next]_vars /\ Pending(request.id)
      /\ dispatched' = dispatched \cup {request.id}
      /\ UNCHANGED operations /\ SameSettlements
      /\ \A id : RawsOf(id)' = RawsOf(id)
  BY <1>4, <1>5, BeginEffect
<1>7. /\ it \notin dispatched /\ dispatched' = dispatched \cup {it}
      /\ UNCHANGED <<operations, completions, effects, executed, views>>
      /\ \A o \in OpIds : Reuses(o)' = Reuses(o) /\ Refusals(o)' = Refusals(o)
      /\ \A o \in DOMAIN completions : Settlement(o)' = Settlement(o)
  BY <1>1, <1>3, <1>5, <1>6 DEF Reuses, Refusals, SameSettlements, worldVars, Pending
<1> USE DEF OperationsInv
<1>8. Kept BY <1>7 DEF Kept
<1>9. RowsAreItems' BY <1>7 DEF RowsAreItems
<1>10. OneAnswer' BY <1>7 DEF OneAnswer, Reserved
<1>11. \A o \in OpIds : /\ Answered(o) => Answered(o)'
                        /\ \A view : Shows(o, view) => Shows(o, view)'
  BY <1>8, AnswersStay
<1>12. InOrder' BY <1>7, <1>11 DEF InOrder, Touched, Reserved
<1>13. /\ host'.pc = "execute" /\ host'.run = host.run /\ host'.number = host.number
       /\ host'.refused = host.refused /\ host'.todo = host.todo /\ host' \in HostType
       /\ host.run \in Runs
  BY <1>1 DEF BeginItem, GoTo, OperationsTypeOK, HostType, Places
<1>14. Item' = it BY <1>2, <1>13 DEF Item
<1>15. OperationsTypeOK' BY <1>2, <1>7, <1>13, <1>14 DEF OperationsTypeOK, OnItem, At
<1>16. WorldMatches'
  <2>1. it \notin DOMAIN executed /\ it \notin DOMAIN completions
    BY <1>7 DEF WorldMatches, LedgerInv, TypeOK
  <2>2. ~At("complete")' BY <1>13 DEF At
  <2>3. QED BY <1>7, <1>14, <2>1, <2>2 DEF WorldMatches, SettledRightly
<1>17. Progress' BY <1>1, <1>7, <1>11, <1>13 DEF Progress, At
<1>18. ViewsMatch' BY <1>7, <1>11 DEF ViewsMatch
<1>19. QED BY <1>6, <1>9, <1>10, <1>12, <1>15, <1>16, <1>17, <1>18

(* The item is executed. *)
LEMMA ExecuteStep ==
    ASSUME OperationsInv, Execute
    PROVE  OperationsInv'
<1>1. At("execute") /\ ~At("down") /\ OnItem /\ UNCHANGED <<vars, views>>
  BY DEF Execute, At, OnItem
<1> USE DEF OperationsInv
<1>2. PICK it \in OpIds : Item = it /\ Name(it) \in Offered
  BY <1>1 DEF OperationsTypeOK
<1>3. PICK a \in Responses(it) :
         /\ executed' = With(executed, it, a)
         /\ host' = [host EXCEPT !.pc = "complete", !.response = a]
  BY <1>2 DEF Execute
<1>4. effects' = [effects EXCEPT ![it] = effects[it] + 1] BY <1>2 DEF Execute
<1>5. it \in dispatched /\ it \notin DOMAIN executed /\ it \notin DOMAIN completions
  BY <1>1, <1>2 DEF WorldMatches
<1>6. effects[it] = 0 /\ effects' \in [OpIds -> Nat] /\ effects'[it] = 1
      /\ \A o \in OpIds \ {it} : effects'[o] = effects[o]
  BY <1>4, <1>5 DEF WorldMatches, OperationsTypeOK
<1>7. /\ DOMAIN executed' = DOMAIN executed \cup {it} /\ executed'[it] = a
      /\ \A o \in DOMAIN executed : executed'[o] = executed[o]
      /\ executed' = [o \in DOMAIN executed' |-> executed'[o]]
  BY <1>3, <1>5 DEF With
<1>8. a \in [result : Result, raw : Raw]
  BY OperationsAssumption DEF Responses
<1>9. /\ host'.pc = "complete" /\ host'.run = host.run /\ host'.number = host.number
      /\ host'.refused = host.refused /\ host'.todo = host.todo /\ host'.response = a
      /\ host' \in HostType /\ host.run \in Runs
  <2>1. /\ host \in HostType
        /\ host = [pc |-> host.pc, run |-> host.run, number |-> host.number,
                   refused |-> host.refused, todo |-> host.todo, response |-> host.response]
    BY DEF OperationsTypeOK, HostType
  <2>2. host' = [pc |-> "complete", run |-> host.run, number |-> host.number,
                 refused |-> host.refused, todo |-> host.todo, response |-> a]
    BY <1>3, <2>1
  <2>3. QED BY <1>1, <1>8, <2>1, <2>2 DEF HostType, Places, OperationsTypeOK
<1>10. Item' = it BY <1>2, <1>9 DEF Item
<1>11. SameRecords BY <1>1, UnchangedRecords
<1>12. /\ UNCHANGED <<operations, dispatched, completions>>
       /\ \A o \in DOMAIN completions : Settlement(o)' = Settlement(o)
       /\ \A o \in OpIds : Reuses(o)' = Reuses(o) /\ Refusals(o)' = Refusals(o)
  BY <1>11 DEF SameRecords, SameSettlements
<1>13. OperationsTypeOK'
  BY <1>1, <1>2, <1>6, <1>7, <1>9, <1>10 DEF OperationsTypeOK, OnItem, At
<1>14. WorldMatches'
  <2>1. \A o \in OpIds : effects'[o] = IF o \in DOMAIN executed' THEN 1 ELSE 0
    BY <1>6, <1>7 DEF WorldMatches
  <2>2. \A o \in DOMAIN completions : SettledRightly(o)'
    BY <1>7, <1>12 DEF WorldMatches, SettledRightly
  <2>3. QED
    BY <1>5, <1>7, <1>9, <1>10, <1>12, <2>1, <2>2 DEF WorldMatches, At
<1>15. Progress'
  <2>1. \A o \in OpIds : Answered(o) => Answered(o)' BY <1>11, SameIsKept, AnswersStay
  <2>2. QED BY <1>1, <1>9, <1>12, <2>1 DEF Progress, At
<1>16. ViewsMatch' BY <1>1, <1>11, SameIsKept, AnswersStay DEF ViewsMatch
<1>17. QED BY <1>11, <1>13, <1>14, <1>15, <1>16, RecordsStay

(* What settling an item does to the ledger. *)
LEMMA SettleStep ==
    ASSUME LedgerInv, OperationsInv, NEW o \in OpIds, NEW s \in sessions,
           NEW request \in Request, request.id = o, NEW r \in Result, NEW w \in Raw,
           Complete(s, request, r, w), UNCHANGED worldVars,
           \/ o \in DOMAIN executed /\ [result |-> r, raw |-> w] = executed[o]
           \/ Name(o) \in Offered \ External /\ [result |-> r, raw |-> w] = GivenUp(o),
           host'.pc \notin {"execute", "complete"}
    PROVE  /\ [Next]_vars /\ Kept
           /\ RowsAreItems' /\ OneAnswer' /\ InOrder' /\ WorldMatches'
           /\ UNCHANGED operations
           /\ \A p \in OpIds : Reuses(p)' = Reuses(p) /\ Refusals(p)' = Refusals(p)
           /\ o \in DOMAIN completions' /\ Settlement(o)' = [result |-> r, raw |-> w]
<1> USE DEF OperationsInv
<1>1. /\ [Next]_vars /\ Unknown(request.id)
      /\ DOMAIN completions' = DOMAIN completions \cup {request.id}
      /\ \A p \in DOMAIN completions :
           completions'[p] = completions[p] /\ Settlement(p)' = Settlement(p)
      /\ Settlement(request.id)' = [result |-> r, raw |-> w]
      /\ UNCHANGED <<operations, dispatched>>
      /\ \A id : id # request.id => BodiesOf(id)' = BodiesOf(id) /\ RawsOf(id)' = RawsOf(id)
  BY CompleteEffect
<1>2. \A p \in OpIds : Reuses(p)' = Reuses(p) /\ Refusals(p)' = Refusals(p)
  BY <1>1, RecordFacts DEF Reuses, Refusals
<1>3. Kept BY <1>1, <1>2 DEF Kept
<1>4. RowsAreItems' BY <1>1 DEF RowsAreItems
<1>5. OneAnswer' BY <1>1, <1>2 DEF OneAnswer, Reserved
<1>6. InOrder'
  <2>1. \A p \in OpIds : Answered(p) => Answered(p)' BY <1>3, AnswersStay
  <2>2. QED BY <1>1, <1>2, <2>1 DEF InOrder, Touched, Reserved
<1>7. WorldMatches'
  <2>1. UNCHANGED <<effects, executed>> BY DEF worldVars
  <2>2. \A p \in DOMAIN completions' : SettledRightly(p)'
    BY <1>1, <2>1 DEF WorldMatches, SettledRightly, GivenUp
  <2>3. QED BY <1>1, <2>1, <2>2 DEF WorldMatches, At
<1>8. QED BY <1>1, <1>2, <1>3, <1>4, <1>5, <1>6, <1>7

(* The item's own result is recorded and shown. *)
LEMMA CompleteStep ==
    ASSUME LedgerInv, OperationsInv, CompleteItem
    PROVE  [Next]_vars /\ OperationsInv'
<1>1. At("complete") /\ ~At("down") /\ OnItem /\ UNCHANGED worldVars
  BY DEF CompleteItem, At, OnItem
<1>2. PICK it \in OpIds : Item = it /\ Name(it) \in Offered
  BY <1>1 DEF OperationsInv, OperationsTypeOK
<1>3. it \in DOMAIN executed /\ executed[it] = host.response
  BY <1>1, <1>2 DEF OperationsInv, WorldMatches
<1>4. PICK r \in Result, w \in Raw : executed[it] = [result |-> r, raw |-> w]
  BY <1>3, OperationsAssumption DEF OperationsInv, OperationsTypeOK, Responses
<1>5. ItemRequest(it) \in Request /\ ItemRequest(it).id = it
  BY <1>2, OperationsAssumption DEF ItemRequest, Request
<1>6. PICK request \in Request : request = ItemRequest(it) BY <1>5
<1>7. PICK s \in sessions : Complete(s, request, r, w)
  BY <1>2, <1>3, <1>4, <1>6 DEF CompleteItem
<1>8. PICK view : view = <<"result", it, r.outcome>> OBVIOUS
<1>9. views' = [views EXCEPT ![it] = views[it] \cup {view}]
  BY <1>2, <1>3, <1>4, <1>8 DEF CompleteItem
<1>10. /\ host' = [host EXCEPT !.pc = "item", !.number = host.number + 1, !.response = <<>>]
       /\ host.refused \in BOOLEAN
  BY DEF CompleteItem, OperationsInv, OperationsTypeOK, HostType
<1>11. ToNext(it, view, host.refused)
  <2>1. /\ host \in HostType /\ host.number + 1 \in Nat
        /\ host = [pc |-> host.pc, run |-> host.run, number |-> host.number,
                   refused |-> host.refused, todo |-> host.todo, response |-> host.response]
    BY DEF OperationsInv, OperationsTypeOK, HostType
  <2>2. host' = [pc |-> "item", run |-> host.run, number |-> host.number + 1,
                 refused |-> host.refused, todo |-> host.todo, response |-> <<>>]
    BY <1>10, <2>1
  <2>3. host.run \in Runs \cup {"none"} /\ host.todo \in SUBSET OpIds
    BY <2>1 DEF HostType
  <2>4. host' \in HostType BY <1>10, <2>1, <2>2, <2>3 DEF HostType, Places
  <2>5. DOMAIN views = OpIds BY DEF OperationsInv, OperationsTypeOK
  <2>6. QED BY <1>9, <2>2, <2>4, <2>5 DEF ToNext
<1>12. host'.pc \notin {"execute", "complete"} BY <1>11 DEF ToNext
<1>13. /\ [Next]_vars /\ Kept
       /\ RowsAreItems' /\ OneAnswer' /\ InOrder' /\ WorldMatches'
       /\ \A p \in OpIds : Reuses(p)' = Reuses(p) /\ Refusals(p)' = Refusals(p)
       /\ it \in DOMAIN completions' /\ Settlement(it)' = [result |-> r, raw |-> w]
       /\ UNCHANGED operations
  BY <1>1, <1>3, <1>4, <1>5, <1>6, <1>7, <1>12, SettleStep
<1>14. Shows(it, view)' /\ Answered(it)'
  BY <1>2, <1>8, <1>13 DEF Shows, Answered, Completed
<1>15. Refusals(it)' = {}
  <2>1. Reserved(it) BY <1>3 DEF OperationsInv, WorldMatches, LedgerInv, TypeOK, Reserved
  <2>2. QED BY <1>13, <2>1 DEF OperationsInv, OneAnswer
<1>16. OperationsTypeOK' /\ Progress' /\ ViewsMatch'
  BY <1>1, <1>2, <1>10, <1>11, <1>13, <1>14, <1>15, NextItemStep
<1>17. QED BY <1>13, <1>16 DEF OperationsInv

(* What a resume finds unresolved is settled, or stays in doubt. *)
LEMMA ReconcileStep ==
    ASSUME LedgerInv, OperationsInv, NEW o \in OpIds, Reconcile(o)
    PROVE  [Next]_vars /\ OperationsInv'
<1> USE DEF OperationsInv
<1>1. /\ At("reconcile") /\ ~At("down") /\ o \in host.todo
      /\ UNCHANGED <<worldVars, views>>
      /\ host' = [host EXCEPT !.todo = host.todo \ {o}]
  BY DEF Reconcile, At
<1>2. /\ host'.pc = "reconcile" /\ host'.run = host.run /\ host'.number = host.number
      /\ host'.refused = host.refused /\ host'.todo = host.todo \ {o} /\ host' \in HostType
      /\ host.run \in Runs /\ host'.pc \notin {"execute", "complete"}
  BY <1>1 DEF OperationsTypeOK, HostType, At
<1>3. /\ o \in DOMAIN operations /\ Name(o) \in Offered
      /\ operations[o].reservation = Reserves[Name(o)]
      /\ operations[o].request \in Request /\ operations[o].request.id = o
  BY <1>1 DEF Progress, RowsAreItems, LedgerInv, TypeOK, RowsLoad, Operation
<1>4. [Next]_vars /\ Kept /\ RowsAreItems' /\ OneAnswer' /\ InOrder' /\ WorldMatches'
      /\ \A p \in OpIds : Refusals(p)' = Refusals(p)
  <2>1. CASE Settlements(o) = {}
    <3>1. UNCHANGED vars BY <2>1 DEF Reconcile
    <3>2. SameRecords /\ [Next]_vars /\ Kept BY <3>1, UnchangedRecords, SameIsKept
    <3>3. WorldMatches' BY <1>1, <1>2, <3>2, WorldStays DEF SameRecords
    <3>4. QED BY <3>2, <3>3, RecordsStay DEF SameRecords
  <2>2. CASE Settlements(o) # {}
    <3>1. PICK s \in sessions, a \in Settlements(o) :
             Complete(s, operations[o].request, a.result, a.raw)
      BY <2>2 DEF Reconcile
    <3>2. PICK request \in Request : request = operations[o].request BY <1>3
    <3>3. \/ o \in DOMAIN executed /\ a = executed[o]
          \/ Name(o) \in Offered \ External /\ a = GivenUp(o)
      BY <1>3, <3>1 DEF Settlements, Receipts, GivenUp
    <3>4. PICK r \in Result, w \in Raw : a = [result |-> r, raw |-> w]
      <4>1. CASE o \in DOMAIN executed /\ a = executed[o]
        BY <4>1, OperationsAssumption DEF OperationsTypeOK, Responses
      <4>2. CASE Name(o) \in Offered \ External /\ a = GivenUp(o)
        <5>1. Reserves[Name(o)] \in Usages BY <4>2, OperationsAssumption
        <5>2. [outcome |-> "infrastructure_failure", usage |-> Reserves[Name(o)]] \in Result
          BY <5>1, OperationsAssumption DEF Result
        <5>3. Unmeasured \in Raw BY OperationsAssumption
        <5>4. QED BY <4>2, <5>2, <5>3 DEF GivenUp
      <4>3. QED BY <3>3, <4>1, <4>2
    <3>5. Complete(s, request, r, w) BY <3>1, <3>2, <3>4
    <3>6. \/ o \in DOMAIN executed /\ [result |-> r, raw |-> w] = executed[o]
          \/ Name(o) \in Offered \ External /\ [result |-> r, raw |-> w] = GivenUp(o)
      BY <3>3, <3>4
    <3>7. UNCHANGED worldVars /\ request.id = o BY <1>1, <1>3, <3>2
    <3> HIDE DEF OperationsInv
    <3>8. QED BY <1>2, <3>5, <3>6, <3>7, SettleStep
  <2>3. QED BY <2>1, <2>2
<1>5. OperationsTypeOK'
  BY <1>1, <1>2 DEF OperationsTypeOK, OnItem, At, worldVars
<1>6. \A p \in OpIds : /\ Answered(p) => Answered(p)'
                       /\ \A view : Shows(p, view) => Shows(p, view)'
  BY <1>4, AnswersStay
<1>7. Progress' BY <1>1, <1>2, <1>4, <1>6 DEF Progress, At, Kept
<1>8. ViewsMatch' BY <1>1, <1>6 DEF ViewsMatch
<1>9. QED BY <1>4, <1>5, <1>7, <1>8

(* The request of an item is captured before anything is decided of it. *)
LEMMA CaptureStep ==
    ASSUME LedgerInv, OperationsInv, CaptureInput
    PROVE  [Next]_vars /\ OperationsInv'
<1>1. /\ AtItem /\ ~At("down") /\ Name(Item) \in Offered /\ UNCHANGED <<worldVars, views>>
      /\ host' = [host EXCEPT !.pc = "look"]
  BY DEF CaptureInput, AtItem, At, GoTo
<1>2. Item \in OpIds
  <2>1. host.run \in Runs BY <1>1 DEF OperationsInv, OperationsTypeOK
  <2>2. QED BY <1>1, <2>1, ItemFacts DEF AtItem, Item
<1>3. PICK it \in OpIds : it = Item BY <1>2
<1>4. PICK s \in sessions : RecordOnce(s, InputRecord(it), Name(it), Captured)
  BY <1>3 DEF CaptureInput
<1>5. InputRecord(it) \in RecordIds /\ Name(it) \in Bodies /\ Captured \in Raw
  BY <1>1, <1>3, OperationsAssumption
<1>6. /\ [Next]_vars /\ UNCHANGED <<operations, dispatched>> /\ SameSettlements
      /\ \A other : other # InputRecord(it) => RawsOf(other)' = RawsOf(other)
  BY <1>4, <1>5, RecordOnceEffect
<1>7. SameRecords BY <1>6, RecordFacts DEF SameRecords, Reuses, Refusals
<1>8. QED BY <1>1, <1>2, <1>6, <1>7, MoveStep

-----------------------------------------------------------------------------
(* The invariant and its consequences.                                     *)

LEMMA OperationsStart == OperationsInit => LedgerInv /\ OperationsInv
<1> SUFFICES ASSUME OperationsInit PROVE LedgerInv /\ OperationsInv OBVIOUS
<1>1. LedgerInv BY LedgerStart DEF OperationsInit
<1>2. /\ DOMAIN operations = {} /\ DOMAIN completions = {} /\ dispatched = {}
      /\ history = <<>> /\ host = Down /\ effects = [o \in OpIds |-> 0]
      /\ executed = [o \in {} |-> <<>>] /\ views = [o \in OpIds |-> {}]
  BY DEF OperationsInit, Init
<1>3. \A o \in OpIds : Reuses(o) = {} /\ Refusals(o) = {}
  BY <1>2 DEF Reuses, Refusals, RawsOf, Captures
<1>4. host \in HostType /\ host.pc = "down" /\ host.todo = {}
  BY <1>2 DEF Down, HostType, Places
<1>5. OperationsTypeOK BY <1>2, <1>4 DEF OperationsTypeOK, OnItem, At
<1>6. RowsAreItems /\ WorldMatches /\ OneAnswer /\ InOrder /\ Progress /\ ViewsMatch
  BY <1>2, <1>3, <1>4
  DEF RowsAreItems, WorldMatches, OneAnswer, InOrder, Progress, ViewsMatch, At, Reserved,
      Touched
<1>7. QED BY <1>1, <1>5, <1>6 DEF OperationsInv

LEMMA OperationsStep ==
    ASSUME LedgerInv, OperationsInv, [OperationsNext]_operationVars
    PROVE  [Next]_vars /\ OperationsInv'
<1>1. CASE UNCHANGED operationVars
  <2>1. UNCHANGED <<vars, host, worldVars, views>> BY <1>1 DEF operationVars
  <2>2. CASE At("down") BY <2>1, <2>2, UnchangedRecords, StopStep
  <2>3. CASE ~At("down")
    BY <2>1, UnchangedRecords
    DEF OperationsInv, OperationsTypeOK, RowsAreItems, WorldMatches, OneAnswer, InOrder,
        Progress, ViewsMatch, SameRecords, SameSettlements, worldVars, OnItem, At, Item,
        Name, SettledRightly, Reserved, Touched, Answered, Completed, Shows, vars
  <2>4. QED BY <2>2, <2>3
<1>2. CASE NewSession
  <2>1. PICK s \in Sessions : StartSession(s) BY <1>2 DEF NewSession
  <2>2. Next /\ SameRecords
    BY <2>1
    DEF Next, StartSession, SameRecords, SameSettlements, Settlement, Reuses, Refusals,
        RawsOf, Captures
  <2>3. At("down") /\ UNCHANGED <<host, worldVars, views>> BY <1>2 DEF NewSession
  <2>4. QED BY <2>2, <2>3, StopStep
<1>3. ASSUME NEW r \in Runs, OpenRun(r) PROVE [Next]_vars /\ OperationsInv'
  <2>1. PICK s \in Sessions, caps \in CapChoices : OpenScope(s, r, caps)
    BY <1>3 DEF OpenRun
  <2>2. Next /\ SameRecords
    BY <2>1, OperationsAssumption
    DEF Next, OpenScope, SameRecords, SameSettlements, Settlement, Reuses, Refusals,
        RawsOf, Captures
  <2>3. At("down") /\ UNCHANGED <<host, worldVars, views>> BY <1>3 DEF OpenRun
  <2>4. QED BY <2>2, <2>3, StopStep
<1>4. ASSUME NEW r \in Runs, Resume(r) PROVE [Next]_vars /\ OperationsInv'
  BY <1>4, ResumeStep, UnchangedRecords DEF Resume
<1>5. CASE \/ Blocked \/ BeginRefused \/ ExecuteRaises \/ FinishBatch \/ Crash
  <2>1. host' = Down /\ UNCHANGED <<vars, worldVars, views>>
    BY <1>5 DEF Blocked, BeginRefused, ExecuteRaises, FinishBatch, Crash, Stop
  <2>2. QED BY <2>1, UnchangedRecords, StopStep
<1>6. CASE StartBatch
  <2>1. /\ ~At("down") /\ host' = [host EXCEPT !.pc = "item"]
        /\ UNCHANGED <<vars, worldVars, views>>
    BY <1>6 DEF StartBatch, At, GoTo
  <2>2. QED BY <2>1, UnchangedRecords, MoveStep
<1>7. CASE FindReserved
  <2>1. /\ host' = [host EXCEPT !.pc = "begin"] /\ Unrecorded /\ Reserved(Item)
        /\ UNCHANGED <<vars, worldVars, views>>
    BY <1>7 DEF FindReserved, GoTo
  <2>2. QED BY <2>1, UnchangedRecords, MoveStep, NewItem
<1>8. CASE BadItem \/ ReplayResult \/ ReplayReuse \/ ReplayRefusal
  <2>1. UNCHANGED vars
    BY <1>8 DEF BadItem, ReplayResult, ReplayReuse, ReplayRefusal
  <2>2. QED BY <1>8, <2>1, ReplayStep
<1>9. CASE Execute BY <1>9, ExecuteStep, UnchangedRecords DEF Execute
<1>10. CASE \/ CaptureInput \/ RefuseLater \/ RefuseBudget \/ Reuse \/ ReserveItem
            \/ BeginItem \/ CompleteItem
  BY <1>10, CaptureStep, RefuseStep, ReuseStep, ReserveStep, BeginStep, CompleteStep
<1>11. ASSUME NEW o \in OpIds, Reconcile(o) PROVE [Next]_vars /\ OperationsInv'
  BY <1>11, ReconcileStep
<1>12. QED
  BY <1>1, <1>2, <1>3, <1>4, <1>5, <1>6, <1>7, <1>8, <1>9, <1>10, <1>11
  DEF OperationsNext, HostStep

LEMMA OperationsInvariant == OperationsSpec => [](LedgerInv /\ OperationsInv)
<1>1. LedgerInv /\ OperationsInv /\ [OperationsNext]_operationVars
        => (LedgerInv /\ OperationsInv)'
  BY OperationsStep, LedgerStep
<1>2. QED BY <1>1, OperationsStart, PTL DEF OperationsSpec

(* A replayed batch gives the worker what the first run of it did. *)
THEOREM ReplaysAreExact == OperationsSpec => []ReplayIsExact
<1>1. LedgerInv /\ OperationsInv => ReplayIsExact
  <2> SUFFICES ASSUME LedgerInv, OperationsInv, NEW o \in OpIds
               PROVE  Cardinality(views[o]) <= 1
    BY DEF ReplayIsExact
  <2>1. o \in DOMAIN completions => Reuses(o) = {} /\ Refusals(o) = {}
    BY DEF OperationsInv, OneAnswer, LedgerInv, TypeOK, Reserved
  <2>2. ASSUME NEW v \in views[o], NEW w \in views[o] PROVE v = w
    <3>1. Shows(o, v) /\ Shows(o, w) BY DEF OperationsInv, ViewsMatch
    <3>2. /\ \A x, y \in Reuses(o) : x = y
          /\ \A x, y \in Refusals(o) : x = y
          /\ Reuses(o) = {} \/ Refusals(o) = {}
      BY DEF OperationsInv, OneAnswer
    <3>3. QED BY <2>1, <3>1, <3>2 DEF Shows
  <2>3. CASE views[o] = {} BY <2>3, FS_EmptySet
  <2>4. ASSUME NEW v \in views[o] PROVE Cardinality(views[o]) = 1
    <3>1. views[o] = {v} BY <2>2, <2>4
    <3>2. QED BY <3>1, FS_Singleton
  <2>5. QED BY <2>3, <2>4
<1>2. QED BY <1>1, OperationsInvariant, PTL

(* What is reused is a measured result of the same request, and that       *)
(* request was executed.                                                   *)
THEOREM ReusesAreMeasured == OperationsSpec => []ReuseIsMeasured
<1>1. LedgerInv /\ OperationsInv => ReuseIsMeasured
  <2> SUFFICES ASSUME LedgerInv, OperationsInv, NEW o \in OpIds, Recorded(ReuseRecord(o)),
                      NEW x, x = RawOf(ReuseRecord(o))
               PROVE  /\ Completed(x) /\ Name(x) = Name(o)
                      /\ Outcome(x) \in Measured /\ effects[x] = 1
    BY DEF ReuseIsMeasured
  <2>1. x \in Reuses(o) BY RawOfRecord DEF Reuses
  <2>2. /\ x \in DOMAIN completions /\ Name(x) = Name(o)
        /\ Settlement(x).result.outcome \in Measured
    BY <2>1 DEF OperationsInv, OneAnswer
  <2>3. Settlement(x) # GivenUp(x) BY <2>2 DEF GivenUp, Measured
  <2>4. x \in DOMAIN executed /\ x \in OpIds
    BY <2>2, <2>3
    DEF OperationsInv, WorldMatches, SettledRightly, LedgerInv, TypeOK
  <2>5. effects[x] = 1 BY <2>4 DEF OperationsInv, WorldMatches
  <2>6. QED BY <2>2, <2>5, OutcomeSettled DEF Completed
<1>2. QED BY <1>1, OperationsInvariant, PTL

(* After a refused item nothing of the batch is reserved or reused. *)
THEOREM RefusalsEndBatches == OperationsSpec => []RefusalEndsBatch
<1>1. OperationsInv => RefusalEndsBatch
  BY RecordedRaws DEF OperationsInv, InOrder, Before, RefusalEndsBatch, Reuses, Refusals
<1>2. QED BY <1>1, OperationsInvariant, PTL

(* Whatever the batches ask of it, the ledger is the one module Ledger     *)
(* describes.                                                              *)
THEOREM OperationsUseTheLedger == OperationsSpec => Spec /\ []LedgerInv
<1>1. OperationsInit => Init BY DEF OperationsInit
<1>2. LedgerInv /\ OperationsInv /\ [OperationsNext]_operationVars => [Next]_vars
  BY OperationsStep
<1>3. QED BY <1>1, <1>2, OperationsInvariant, PTL DEF OperationsSpec, Spec

-----------------------------------------------------------------------------
(* The refinement of module Attempts.                                      *)

LEMMA AbstractStart == OperationsInit => Abstract!AttemptsInit
<1> SUFFICES ASSUME OperationsInit PROVE Abstract!AttemptsInit OBVIOUS
<1>1. \A o \in OpIds : Phase(o) = "none"
  BY DEF OperationsInit, Init, Phase, Completed, Unknown, Reserved
<1>2. /\ DOMAIN completions = {} /\ executed = [o \in {} |-> <<>>]
      /\ effects = [o \in OpIds |-> 0]
  BY DEF OperationsInit, Init
<1>3. QED BY <1>1, <1>2 DEF Abstract!AttemptsInit

(* A step changes the ledger or executes an item, never both. *)
LEMMA LedgerOrExecution ==
    ASSUME [OperationsNext]_operationVars
    PROVE  UNCHANGED <<executed, effects>> \/ (UNCHANGED vars /\ Execute)
BY DEF OperationsNext, HostStep, operationVars, worldVars, NewSession, OpenRun, Resume,
       Reconcile, Blocked, StartBatch, BadItem, CaptureInput, ReplayResult, ReplayReuse,
       ReplayRefusal, RefuseLater, Reuse, ReserveItem, RefuseBudget, FindReserved,
       BeginItem, BeginRefused, Execute, CompleteItem, ExecuteRaises, FinishBatch, Crash,
       Refuse

LEMMA AbstractStep ==
    ASSUME LedgerInv, OperationsInv, [OperationsNext]_operationVars
    PROVE  [Abstract!AttemptsNext]_Abstract!attemptsVars
<1> DEFINE phase == [o \in OpIds |-> Phase(o)]
           settlement == [o \in DOMAIN completions |-> Settlement(o)]
           same == settlement' = settlement
<1>1. [Next]_vars /\ OperationsInv' /\ LedgerInv' BY OperationsStep, LedgerStep
<1>2. SameSettlements => same BY DEF SameSettlements
<1>3. CASE UNCHANGED vars /\ Execute
  <2>1. At("execute") /\ OnItem BY <1>3 DEF Execute, At, OnItem
  <2>2. PICK o \in OpIds : o = Item BY <2>1 DEF OperationsInv, OperationsTypeOK
  <2>3. PICK a : executed' = With(executed, o, a) BY <1>3, <2>2 DEF Execute
  <2>4. effects' = [effects EXCEPT ![o] = effects[o] + 1] BY <1>3, <2>2 DEF Execute
  <2>5. /\ o \in dispatched /\ o \notin DOMAIN executed /\ effects[o] = 0
        /\ o \notin DOMAIN completions /\ o \in DOMAIN operations
    BY <2>1, <2>2 DEF OperationsInv, WorldMatches, LedgerInv, TypeOK
  <2>6. Phase(o) = "dispatched" BY <2>5 DEF Phase, Completed, Unknown, Reserved
  <2>7. (\A p : Phase(p)' = Phase(p)) /\ SameSettlements
    BY <1>3 DEF vars, SameSettlements, Settlement, Phase, Completed, Unknown, Reserved
  <2>8. effects' = [effects EXCEPT ![o] = 1] BY <2>4, <2>5
  <2>9. /\ DOMAIN executed' = DOMAIN executed \cup {o}
        /\ Abstract!Restrict(executed', DOMAIN executed) = executed
    <3>1. /\ DOMAIN executed' = DOMAIN executed \cup {o}
          /\ \A p \in DOMAIN executed : executed'[p] = executed[p]
      BY <2>3, <2>5 DEF With
    <3>2. executed = [p \in DOMAIN executed |-> executed[p]]
      BY DEF OperationsInv, OperationsTypeOK
    <3>3. QED BY <3>1, <3>2 DEF Abstract!Restrict
  <2>10. phase' = phase /\ same BY <1>2, <2>7
  <2>11. Abstract!Perform(o)
    BY <2>5, <2>6, <2>8, <2>9, <2>10 DEF Abstract!Perform
  <2>12. QED BY <2>11 DEF Abstract!AttemptsNext
<1>4. CASE UNCHANGED <<executed, effects>>
  <2>1. CASE (\A o \in OpIds : Phase(o)' = Phase(o)) /\ SameSettlements
    <3>1. phase' = phase /\ same BY <1>2, <2>1
    <3>2. QED BY <1>4, <3>1 DEF Abstract!attemptsVars
  <2>2. ASSUME NEW o \in OpIds, Moves(o, "none", "reserved"), SameSettlements
        PROVE  Abstract!Reserve(o)
    <3>1. phase[o] = "none" /\ phase' = [phase EXCEPT ![o] = "reserved"] /\ same
      BY <1>2, <2>2 DEF Moves
    <3>2. QED BY <1>4, <3>1 DEF Abstract!Reserve
  <2>3. ASSUME NEW o \in OpIds, Moves(o, "reserved", "dispatched"), SameSettlements,
               Unblocked(operations[o].scope)
        PROVE  Abstract!Dispatch(o)
    <3>1. phase[o] = "reserved" /\ phase' = [phase EXCEPT ![o] = "dispatched"] /\ same
      BY <1>2, <2>3 DEF Moves
    <3>2. o \in DOMAIN operations
      BY <2>3 DEF Moves, Phase, Completed, Unknown, Reserved
    <3>3. ASSUME NEW p \in OpIds, Phase(p) = "dispatched"
          PROVE  ScopeOf(p) \notin {ScopeOf(o), Root}
      <4>1. Unknown(p) /\ p \in DOMAIN operations
        BY <3>3 DEF Phase, Completed, Unknown, Reserved
      <4>2. ~In(p, operations[o].scope) BY <2>3, <4>1 DEF Unblocked
      <4>3. operations[p].scope = ScopeOf(p) /\ operations[o].scope = ScopeOf(o)
        BY <3>2, <4>1 DEF OperationsInv, RowsAreItems
      <4>4. QED BY <4>2, <4>3 DEF In
    <3>4. \A p \in OpIds : ~Abstract!Contends(p, o)
      BY <3>3 DEF Abstract!Contends
    <3>5. QED BY <1>4, <3>1, <3>4 DEF Abstract!Dispatch
  <2>4. ASSUME NEW o \in OpIds, Moves(o, "dispatched", "settled"), MoreSettlements(o)
        PROVE  Abstract!Settle(o)
    <3>1. phase[o] = "dispatched" /\ phase' = [phase EXCEPT ![o] = "settled"]
      BY <2>4 DEF Moves
    <3>2. /\ DOMAIN settlement' = DOMAIN settlement \cup {o}
          /\ Abstract!Restrict(settlement', DOMAIN settlement) = settlement
      BY <2>4 DEF MoreSettlements, Abstract!Restrict
    <3>3. o \in DOMAIN completions' BY <2>4 DEF MoreSettlements
    <3>4. \/ o \in DOMAIN executed /\ settlement'[o] = executed[o]
          \/ Name(o) \in Offered \ External /\ settlement'[o] = GivenUp(o)
      BY <1>1, <1>4, <3>3 DEF OperationsInv, WorldMatches, SettledRightly, GivenUp
    <3>5. settlement'[o] \in Abstract!Settlements(o)
      BY <3>4 DEF Abstract!Settlements, GivenUp
    <3>6. QED BY <1>4, <3>1, <3>2, <3>5 DEF Abstract!Settle
  <2>5. QED BY <1>1, <2>1, <2>2, <2>3, <2>4, PhaseStep DEF Abstract!AttemptsNext
<1>5. QED BY <1>3, <1>4, LedgerOrExecution

(* The host and its ledger implement module Attempts for host operations:  *)
(* an item is executed at most once and after its dispatch, settled by     *)
(* what it did or, if it has no effect outside, given up, for any number   *)
(* of runs, batches, replays and crashes.                                  *)
THEOREM OperationsImplementAttempts == OperationsSpec => ImplementsAttempts
<1>1. LedgerInv /\ OperationsInv /\ [OperationsNext]_operationVars
        => [Abstract!AttemptsNext]_Abstract!attemptsVars
  BY AbstractStep
<1>2. QED
  BY <1>1, AbstractStart, OperationsInvariant, PTL
  DEF OperationsSpec, ImplementsAttempts, Abstract!AttemptsSpec
=============================================================================
