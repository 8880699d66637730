---------------------------- MODULE EpisodeProofs ----------------------------
(* Proofs about Episode: for any number of episodes, steps and crashes.    *)
EXTENDS Episode, LedgerProofs

-----------------------------------------------------------------------------
(* The agent, as a function of the results it has seen.                    *)

Results == ModelRaw \cup ToolRaw
RawOfKind(kind) == IF kind = "model" THEN ModelRaw ELSE ToolRaw
Prefix(seen, n) == [i \in 1..n |-> seen[i]]

(* Two lists of results of which one continues the other. *)
Agree(s, t) == \A i \in DOMAIN s \cap DOMAIN t : s[i] = t[i]

(* What an agent within its limit has seen: a tool result after each       *)
(* command, and no more model results than steps.                          *)
WithinLimit(seen) ==
    /\ CountIn(seen, ToolRaw) <= CountIn(seen, ModelRaw)
    /\ Kind(seen) = "tool" => CountIn(seen, ToolRaw) < CountIn(seen, ModelRaw)
    /\ CountIn(seen, ModelRaw) <= MaxSteps
    /\ Len(seen) <= CountIn(seen, ToolRaw) + CountIn(seen, ModelRaw)

LEMMA CountType ==
    ASSUME NEW seen \in Seq(Results), NEW S
    PROVE  /\ IsFiniteSet({i \in DOMAIN seen : seen[i] \in S})
           /\ CountIn(seen, S) \in Nat
<1>1. IsFiniteSet(1..Len(seen)) BY FS_Interval
<1>2. {i \in DOMAIN seen : seen[i] \in S} \subseteq 1..Len(seen) OBVIOUS
<1>3. QED BY <1>1, <1>2, FS_Subset, FS_CardinalityType DEF CountIn

LEMMA CountAppend ==
    ASSUME NEW seen \in Seq(Results), NEW x \in Results, NEW S
    PROVE  CountIn(Append(seen, x), S) = CountIn(seen, S) + (IF x \in S THEN 1 ELSE 0)
<1> DEFINE old == {i \in DOMAIN seen : seen[i] \in S}
           new == {i \in DOMAIN Append(seen, x) : Append(seen, x)[i] \in S}
           n == Len(seen) + 1
<1>1. IsFiniteSet(old) /\ Cardinality(old) \in Nat BY CountType DEF CountIn
<1>2. n \notin old OBVIOUS
<1>3. new = IF x \in S THEN old \cup {n} ELSE old OBVIOUS
<1> HIDE DEF old, new, n
<1>4. Cardinality(old \cup {n}) = Cardinality(old) + 1
  BY <1>1, <1>2, FS_AddElement
<1>5. Cardinality(new) = Cardinality(old) + (IF x \in S THEN 1 ELSE 0)
  BY <1>1, <1>3, <1>4
<1>6. QED BY <1>5 DEF CountIn, old, new

(* A longer list that agrees has counted at least the result that comes    *)
(* next.                                                                   *)
LEMMA CountGrows ==
    ASSUME NEW s \in Seq(Results), NEW t \in Seq(Results), NEW S,
           Agree(s, t), Len(s) < Len(t), t[Len(s) + 1] \in S
    PROVE  CountIn(s, S) < CountIn(t, S)
<1> DEFINE short == {i \in DOMAIN s : s[i] \in S}
           long == {i \in DOMAIN t : t[i] \in S}
           n == Len(s) + 1
<1>1. IsFiniteSet(short) /\ IsFiniteSet(long) BY CountType
<1>2. short \cup {n} \subseteq long /\ n \notin short BY DEF Agree
<1> HIDE DEF short, long, n
<1>3. Cardinality(short \cup {n}) = Cardinality(short) + 1
  BY <1>1, <1>2, FS_AddElement
<1>4. Cardinality(short \cup {n}) <= Cardinality(long) BY <1>1, <1>2, FS_Subset
<1>5. Cardinality(short) \in Nat /\ Cardinality(long) \in Nat
  BY <1>1, FS_CardinalityType
<1>6. QED BY <1>3, <1>4, <1>5 DEF CountIn, short, long

(* An agent within its limit asks for a slot there is. *)
LEMMA SlotExists ==
    ASSUME NEW e \in Episodes, NEW seen \in Seq(Results), WithinLimit(seen)
    PROVE  /\ ~Ended(seen) => Attempt(e, seen) \in Slots
           /\ Attempt(e, seen)[1] = e /\ Attempt(e, seen)[2] = Kind(seen)
           /\ seen \in Bodies
<1> DEFINE m == CountIn(seen, ModelRaw)
           t == CountIn(seen, ToolRaw)
<1>1. m \in Nat /\ t \in Nat BY CountType
<1>2. MaxSteps \in Nat /\ MaxSteps > 0 BY EpisodeAssumption
<1>3. seen = <<>> => m = 0
  BY FS_EmptySet DEF CountIn
<1>4. Len(seen) \in 0..(2 * MaxSteps)
  BY <1>1, <1>2 DEF WithinLimit
<1>5. seen \in [1..Len(seen) -> ModelRaw \cup ToolRaw] BY DEF Results
<1>6. seen \in Bodies BY <1>4, <1>5, EpisodeAssumption
<1>7. Attempt(e, seen)[1] = e /\ Attempt(e, seen)[2] = Kind(seen)
  BY DEF Attempt, Kind
<1>8. ASSUME ~Ended(seen) PROVE Attempt(e, seen) \in Slots
  <2>1. CASE Kind(seen) = "tool"
    <3>1. t + 1 \in 1..MaxSteps BY <1>1, <1>2, <2>1 DEF WithinLimit
    <3>2. Attempt(e, seen) = <<e, "tool", t + 1>> BY <2>1 DEF Attempt
    <3>3. QED BY <3>1, <3>2 DEF Slots
  <2>2. CASE Kind(seen) # "tool"
    <3>1. Kind(seen) = "model" BY <2>2 DEF Kind
    <3>2. seen = <<>> \/ m < MaxSteps
      BY <1>1, <1>2, <1>8, <3>1 DEF Ended
    <3>3. m + 1 \in 1..MaxSteps BY <1>1, <1>2, <1>3, <3>2
    <3>4. Attempt(e, seen) = <<e, "model", m + 1>> BY <2>2 DEF Attempt
    <3>5. QED BY <3>3, <3>4 DEF Slots
  <2>3. QED BY <2>1, <2>2
<1>9. QED BY <1>6, <1>7, <1>8

(* A result keeps it within its limit. *)
LEMMA ResultKeepsLimit ==
    ASSUME NEW seen \in Seq(Results), WithinLimit(seen), ~Ended(seen),
           NEW x \in RawOfKind(Kind(seen))
    PROVE  Append(seen, x) \in Seq(Results) /\ WithinLimit(Append(seen, x))
<1> DEFINE m == CountIn(seen, ModelRaw)
           t == CountIn(seen, ToolRaw)
           next == Append(seen, x)
<1>1. m \in Nat /\ t \in Nat /\ MaxSteps \in Nat /\ MaxSteps > 0
  <2>1. m \in Nat /\ t \in Nat BY CountType
  <2>2. MaxSteps \in Nat /\ MaxSteps > 0 BY EpisodeAssumption
  <2>3. QED BY <2>1, <2>2
<1>2. x \in Results BY DEF RawOfKind, Results
<1>3. next \in Seq(Results) /\ Len(next) = Len(seen) + 1 /\ next # <<>>
      /\ next[Len(next)] = x
  <2>1. next \in Seq(Results) /\ Len(next) = Len(seen) + 1 BY <1>2
  <2>2. next[Len(next)] = x /\ next # <<>> BY <2>1
  <2>3. QED BY <2>1, <2>2
<1>4. /\ CountIn(next, ModelRaw) = m + (IF x \in ModelRaw THEN 1 ELSE 0)
      /\ CountIn(next, ToolRaw) = t + (IF x \in ToolRaw THEN 1 ELSE 0)
  BY <1>2, CountAppend
<1>5. Kind(next) = IF x = "command" THEN "tool" ELSE "model"
  BY <1>3 DEF Kind
<1>6. Len(seen) <= t + m /\ t <= m /\ m <= MaxSteps BY DEF WithinLimit
<1>7. seen = <<>> => m = 0
  BY FS_EmptySet DEF CountIn
<1> HIDE DEF m, t, next
<1>8. CASE Kind(seen) = "tool"
  <2>1. x \in ToolRaw /\ x \notin ModelRaw /\ x # "command"
    BY <1>8 DEF RawOfKind, ToolRaw, ModelRaw
  <2>2. t < m BY <1>8 DEF WithinLimit, t, m
  <2>3. QED BY <1>1, <1>3, <1>4, <1>5, <1>6, <2>1, <2>2 DEF WithinLimit, next
<1>9. CASE Kind(seen) # "tool"
  <2>1. Kind(seen) = "model" BY <1>9 DEF Kind
  <2>2. x \in ModelRaw /\ x \notin ToolRaw
    BY <2>1 DEF RawOfKind, ToolRaw, ModelRaw
  <2>3. m < MaxSteps BY <1>1, <1>7, <2>1 DEF Ended, m
  <2>4. QED BY <1>1, <1>3, <1>4, <1>5, <1>6, <2>2, <2>3 DEF WithinLimit, next
<1>10. QED BY <1>8, <1>9

-----------------------------------------------------------------------------
(* A replay.  What an episode has seen is what its recorded attempts       *)
(* brought, one after another from the first.                              *)
Replayed(e, seen) ==
    /\ seen \in Seq(Results)
    /\ \A i \in DOMAIN seen :
          LET before == Prefix(seen, i - 1)
              o == Attempt(e, before)
          IN  /\ ~Ended(before)
              /\ seen[i] \in RawOfKind(Kind(before))
              /\ Completed(o) /\ completions[o].result.outcome = "succeeded"
              /\ Settlement(o).raw = seen[i]

(* Of two replays that agree, the longer one has gone past the attempt at  *)
(* which the shorter one stands.                                           *)
LEMMA AttemptMoves ==
    ASSUME NEW e, NEW s \in Seq(Results), NEW t, Replayed(e, t),
           Agree(s, t), Len(s) < Len(t)
    PROVE  ~Ended(s) /\ Attempt(e, s) # Attempt(e, t)
<1> DEFINE n == Len(s) + 1
<1>1. t \in Seq(Results) /\ n \in DOMAIN t BY DEF Replayed
<1>2. Prefix(t, n - 1) = s BY DEF Agree, Prefix
<1>3. ~Ended(s) /\ t[n] \in RawOfKind(Kind(s))
  BY <1>1, <1>2 DEF Replayed
<1>4. \A S : CountIn(s, S) \in Nat /\ CountIn(t, S) \in Nat BY <1>1, CountType
<1>5. CASE Kind(s) = "tool"
  <2>1. CountIn(s, ToolRaw) < CountIn(t, ToolRaw)
    BY <1>1, <1>3, <1>5, CountGrows DEF RawOfKind
  <2>2. QED BY <1>3, <1>4, <1>5, <2>1 DEF Attempt
<1>6. CASE Kind(s) # "tool"
  <2>1. Kind(s) = "model" BY <1>6 DEF Kind
  <2>2. CountIn(s, ModelRaw) < CountIn(t, ModelRaw)
    BY <1>1, <1>3, <2>1, CountGrows DEF RawOfKind
  <2>3. QED BY <1>3, <1>4, <1>6, <2>2 DEF Attempt
<1>7. QED BY <1>5, <1>6

(* Replays that stand at the same attempt have seen the same. *)
LEMMA SameAttempt ==
    ASSUME NEW e, NEW s, NEW t, Replayed(e, s), Replayed(e, t), Agree(s, t),
           \/ Attempt(e, s) = Attempt(e, t)
           \/ Ended(s) /\ Ended(t)
    PROVE  s = t
<1>1. s \in Seq(Results) /\ t \in Seq(Results) BY DEF Replayed
<1>2. Agree(t, s) BY DEF Agree
<1>3. ~(Len(s) < Len(t)) BY <1>1, AttemptMoves
<1>4. ~(Len(t) < Len(s)) BY <1>1, <1>2, AttemptMoves
<1>5. Len(s) = Len(t) BY <1>1, <1>3, <1>4
<1>6. QED BY <1>1, <1>5 DEF Agree

(* A replay goes on with what its attempt brought. *)
LEMMA ReplayGoesOn ==
    ASSUME NEW e, NEW s, Replayed(e, s), ~Ended(s), NEW x \in RawOfKind(Kind(s)),
           Completed(Attempt(e, s)),
           completions[Attempt(e, s)].result.outcome = "succeeded",
           Settlement(Attempt(e, s)).raw = x
    PROVE  Replayed(e, Append(s, x))
<1> DEFINE next == Append(s, x)
<1>1. s \in Seq(Results) /\ x \in Results BY DEF Replayed, RawOfKind, Results
<1>2. /\ next \in Seq(Results)
      /\ DOMAIN next = DOMAIN s \cup {Len(s) + 1} /\ DOMAIN s = 1..Len(s)
      /\ \A i \in DOMAIN s : next[i] = s[i]
      /\ next[Len(s) + 1] = x
  BY <1>1
<1>3. Len(s) \in Nat BY <1>1
<1> HIDE DEF next
<1>4. \A i \in DOMAIN s : Prefix(next, i - 1) = Prefix(s, i - 1)
  BY <1>2, <1>3 DEF Prefix
<1>5. Prefix(next, Len(s) + 1 - 1) = s
  BY <1>1, <1>2, <1>3 DEF Prefix
<1>6. QED BY <1>2, <1>3, <1>4, <1>5 DEF Replayed, next

(* What it brought cannot disagree with a replay that has seen it. *)
LEMMA ResultAgrees ==
    ASSUME NEW e, NEW s, NEW t, Replayed(e, s), Replayed(e, t), Agree(s, t),
           NEW x \in Results, Settlement(Attempt(e, s)).raw = x
    PROVE  Agree(Append(s, x), t)
<1> DEFINE n == Len(s) + 1
<1>1. s \in Seq(Results) /\ t \in Seq(Results) BY DEF Replayed
<1>2. ASSUME n \in DOMAIN t PROVE t[n] = x
  <2>1. Prefix(t, n - 1) = s BY <1>1, <1>2 DEF Agree, Prefix
  <2>2. QED BY <1>2, <2>1 DEF Replayed
<1>3. QED BY <1>1, <1>2 DEF Agree

(* Nothing that is settled is lost: a replay stays one. *)
LEMMA ReplaysStay ==
    ASSUME \A o \in DOMAIN completions :
              /\ o \in DOMAIN completions' /\ completions'[o] = completions[o]
              /\ Settlement(o)' = Settlement(o)
    PROVE  \A e, s : Replayed(e, s) => Replayed(e, s)'
BY DEF Replayed, Completed

-----------------------------------------------------------------------------
(* The inductive invariant.                                                *)

Places == {"down", "reconcile", "invoke", "work", "attempt", "reserve", "begin",
           "send", "wait", "observe", "checkpoint", "return"}

(* The host is working on episode e and has seen s. *)
Working(e, s) == ~At("down") /\ host.episode = e /\ host.seen = s

(* It is in the middle of the next attempt. *)
Attempting == host.pc \in {"reserve", "begin", "send", "wait", "observe"}

(* The types of the host and of the world around it. *)
EpisodeTypeOK ==
    /\ host \in [pc : Places, episode : Episodes \cup {"none"}, seen : Seq(Results),
                 todo : SUBSET Slots]
    /\ ~At("down") => host.episode \in Episodes
    /\ checkpoint \in [Episodes -> {"none", "input", "done"}]
    /\ wire \subseteq Slots
    /\ effects \in [OpIds -> Nat]
    /\ DOMAIN answers \subseteq Slots
    /\ answers = [o \in DOMAIN answers |-> answers[o]]
    /\ \A o \in DOMAIN answers :
          /\ answers[o] \in Answers(o)
          /\ answers[o].result.outcome = "succeeded" <=> answers[o].raw # Failure

(* An episode's operations are its attempts, in its scope, and each has    *)
(* the request that was captured for it.                                   *)
RowsAreAttempts ==
    /\ \A o \in DOMAIN operations :
          /\ o \in Slots
          /\ operations[o].scope = ScopeOf[o[1]]
          /\ operations[o].request.body \in BodiesOf(RequestRecord(o))
    /\ host.todo \subseteq DOMAIN operations

(* Requests on the wire and receipts are of dispatched operations, a       *)
(* request has one or the other, and a settled operation says what its     *)
(* receipt says.                                                           *)
WorldMatches ==
    /\ \A o \in wire : o \in dispatched /\ o \notin DOMAIN answers
    /\ DOMAIN answers \subseteq dispatched
    /\ \A o \in OpIds : effects[o] = IF o \in DOMAIN answers THEN 1 ELSE 0
    /\ \A o \in DOMAIN completions : o \in DOMAIN answers /\ Settlement(o) = answers[o]
    /\ \A e \in Episodes, s \in Seq(Results) :
          Working(e, s) /\ At("send") =>
             LET o == Attempt(e, s)
             IN  o \in dispatched /\ o \notin wire /\ o \notin DOMAIN answers

(* What is captured under an attempt is the replay that led to it, and     *)
(* what is captured as finished a replay that ended.                       *)
CapturesAreReplays ==
    /\ \A o \in Slots : \A b \in BodiesOf(RequestRecord(o)) :
          Replayed(o[1], b) /\ ~Ended(b) /\ Attempt(o[1], b) = o
    /\ \A e \in Episodes : \A b \in BodiesOf(FinishedRecord(e)) :
          Replayed(e, b) /\ Ended(b)

(* The host replays its episode, and never disagrees with any capture.     *)
HostReplays ==
    \A e \in Episodes, s \in Seq(Results) : Working(e, s) =>
        /\ Replayed(e, s) /\ WithinLimit(s)
        /\ \A o \in Slots : \A b \in BodiesOf(RequestRecord(o)) :
              o[1] = e => Agree(s, b)
        /\ \A b \in BodiesOf(FinishedRecord(e)) : Agree(s, b)
        /\ Attempting => ~Ended(s) /\ s \in BodiesOf(RequestRecord(Attempt(e, s)))
        /\ At("observe") => Completed(Attempt(e, s))

(* An episode has been finished once its receipt is there, and the host    *)
(* attempts nothing of a finished episode.                                 *)
FinishedMatches ==
    /\ \A e \in Episodes : checkpoint[e] = "done" => BodiesOf(FinishedRecord(e)) # {}
    /\ \A e \in Episodes : BodiesOf(FinishedRecord(e)) # {} =>
          \A o \in EpisodeOps(e) : Completed(o)
    /\ \A e \in Episodes : host.episode = e =>
          /\ Attempting \/ At("attempt") => BodiesOf(FinishedRecord(e)) = {}
          /\ At("checkpoint") => BodiesOf(FinishedRecord(e)) # {}

EpisodeInv ==
    /\ EpisodeTypeOK
    /\ RowsAreAttempts
    /\ WorldMatches
    /\ CapturesAreReplays
    /\ HostReplays
    /\ FinishedMatches

-----------------------------------------------------------------------------
(* The steps.                                                              *)

(* Operations and attempts' captures are as they were. *)
SameCaptures ==
    /\ \A o : BodiesOf(RequestRecord(o))' = BodiesOf(RequestRecord(o))
    /\ \A e : BodiesOf(FinishedRecord(e))' = BodiesOf(FinishedRecord(e))
SameLedger ==
    /\ UNCHANGED <<operations, dispatched>> /\ SameSettlements /\ SameCaptures

LEMMA UnchangedLedger == UNCHANGED vars => SameLedger /\ [Next]_vars
BY DEF vars, SameLedger, SameSettlements, SameCaptures, Settlement, BodiesOf, Captures

(* What the invariant says of the ledger's rows alone stays true. *)
LEMMA CapturesStay ==
    ASSUME SameLedger, CapturesAreReplays
    PROVE  CapturesAreReplays'
<1>1. \A e, s : Replayed(e, s) => Replayed(e, s)'
  BY ReplaysStay DEF SameLedger, SameSettlements
<1>2. QED BY <1>1 DEF SameLedger, SameCaptures, CapturesAreReplays

LEMMA HostReplaysStay ==
    ASSUME SameLedger, UNCHANGED host, HostReplays
    PROVE  HostReplays'
<1>1. \A e, s : Replayed(e, s) => Replayed(e, s)'
  BY ReplaysStay DEF SameLedger, SameSettlements
<1>2. \A e, s : Working(e, s)' = Working(e, s) BY DEF Working, At
<1>3. Attempting' = Attempting /\ At("observe")' = At("observe")
  BY DEF Attempting, At
<1>4. SameCaptures /\ UNCHANGED completions BY DEF SameLedger, SameSettlements
<1>5. QED BY <1>1, <1>2, <1>3, <1>4 DEF HostReplays, Completed, SameCaptures

(* The host stops. *)
LEMMA StopStep ==
    ASSUME EpisodeInv, SameLedger, UNCHANGED <<checkpoint, worldVars>>, Stop
    PROVE  EpisodeInv'
<1> USE DEF EpisodeInv
<1>1. /\ UNCHANGED <<operations, dispatched, completions, checkpoint, wire, answers, effects>>
      /\ \A o \in DOMAIN completions : Settlement(o)' = Settlement(o)
      /\ SameCaptures
      /\ host' = Down
  BY DEF SameLedger, SameSettlements, worldVars, Stop
<1>2. /\ Down.pc = "down" /\ Down.todo = {} /\ Down \in [pc : Places, episode : Episodes \cup {"none"}, seen : Seq(Results), todo : SUBSET Slots]
  BY DEF Down, Places
<1>3. EpisodeTypeOK' BY <1>1, <1>2 DEF EpisodeTypeOK, At
<1>4. RowsAreAttempts' BY <1>1, <1>2 DEF RowsAreAttempts, SameCaptures
<1>5. WorldMatches' BY <1>1, <1>2 DEF WorldMatches, Working, At
<1>6. CapturesAreReplays' BY CapturesStay
<1>7. HostReplays' BY <1>1, <1>2 DEF HostReplays, Working, At, SameCaptures
<1>8. FinishedMatches'
  BY <1>1, <1>2 DEF FinishedMatches, Attempting, At, EpisodeOps, Completed, SameCaptures
<1>9. QED BY <1>3, <1>4, <1>5, <1>6, <1>7, <1>8

(* The host moves on, having seen nothing new. *)
LEMMA MoveStep ==
    ASSUME EpisodeInv, SameLedger, UNCHANGED worldVars,
           NEW place \in Places \ {"down", "send", "observe"}, GoTo(place), ~At("down"),
           UNCHANGED checkpoint \/ \E state \in {"input", "done"} :
              /\ checkpoint' = [checkpoint EXCEPT ![host.episode] = state]
              /\ state = "done" => At("checkpoint"),
           place \in {"reserve", "begin", "wait"} => Attempting,
           place = "attempt" => BodiesOf(FinishedRecord(host.episode)) = {},
           place = "checkpoint" => BodiesOf(FinishedRecord(host.episode)) # {}
    PROVE  EpisodeInv'
<1> USE DEF EpisodeInv
<1>1. /\ UNCHANGED <<operations, dispatched, completions, wire, answers, effects>>
      /\ \A o \in DOMAIN completions : Settlement(o)' = Settlement(o)
      /\ SameCaptures
      /\ host' = [host EXCEPT !.pc = place]
  BY DEF SameLedger, SameSettlements, worldVars, GoTo
<1>2. /\ host'.pc = place /\ host'.episode = host.episode
      /\ host'.seen = host.seen /\ host'.todo = host.todo
      /\ host' \in [pc : Places, episode : Episodes \cup {"none"}, seen : Seq(Results), todo : SUBSET Slots]
  BY <1>1 DEF EpisodeTypeOK
<1>3. EpisodeTypeOK'
  <2>1. checkpoint' \in [Episodes -> {"none", "input", "done"}]
    BY DEF EpisodeTypeOK
  <2>2. host'.episode \in Episodes BY <1>2 DEF EpisodeTypeOK
  <2>3. QED BY <1>1, <1>2, <2>1, <2>2 DEF EpisodeTypeOK
<1>4. RowsAreAttempts' BY <1>1, <1>2 DEF RowsAreAttempts, SameCaptures
<1>5. WorldMatches' BY <1>1, <1>2 DEF WorldMatches, At
<1>6. CapturesAreReplays' BY CapturesStay
<1>7. HostReplays'
  <2>1. \A e, s : Replayed(e, s) => Replayed(e, s)'
    BY ReplaysStay, <1>1
  <2>2. QED BY <1>1, <1>2, <2>1 DEF HostReplays, Working, Attempting, At, SameCaptures
<1>8. FinishedMatches'
  <2>1. \A e \in Episodes : checkpoint'[e] = "done" => BodiesOf(FinishedRecord(e)) # {}
    BY DEF FinishedMatches, EpisodeTypeOK
  <2>2. \A e \in Episodes : EpisodeOps(e)' = EpisodeOps(e) BY <1>1 DEF EpisodeOps
  <2>3. \A o : Completed(o)' <=> Completed(o) BY <1>1 DEF Completed
  <2>4. /\ Attempting' \/ At("attempt")' => BodiesOf(FinishedRecord(host.episode)) = {}
        /\ At("checkpoint")' => BodiesOf(FinishedRecord(host.episode)) # {}
    BY <1>2 DEF FinishedMatches, Attempting, At, EpisodeTypeOK
  <2>5. QED BY <1>1, <1>2, <2>1, <2>2, <2>3, <2>4 DEF FinishedMatches, SameCaptures
<1>9. QED BY <1>3, <1>4, <1>5, <1>6, <1>7, <1>8

(* Nobody of the host's moves. *)
LEMMA SameHostStep ==
    ASSUME EpisodeInv, SameLedger, UNCHANGED <<host, checkpoint, worldVars>>
    PROVE  EpisodeInv'
<1> USE DEF EpisodeInv
<1>1. /\ UNCHANGED <<host, operations, dispatched, completions, checkpoint, wire, answers, effects>>
      /\ \A o \in DOMAIN completions : Settlement(o)' = Settlement(o)
      /\ SameCaptures
  BY DEF SameLedger, SameSettlements, worldVars
<1>2. EpisodeTypeOK' BY <1>1 DEF EpisodeTypeOK, At
<1>3. RowsAreAttempts' BY <1>1 DEF RowsAreAttempts, SameCaptures
<1>4. WorldMatches' BY <1>1 DEF WorldMatches, Working, At
<1>5. CapturesAreReplays' BY CapturesStay
<1>6. HostReplays' BY <1>1, HostReplaysStay
<1>7. FinishedMatches'
  BY <1>1 DEF FinishedMatches, Attempting, At, EpisodeOps, Completed, SameCaptures
<1>8. QED BY <1>2, <1>3, <1>4, <1>5, <1>6, <1>7

(* A host starts at the beginning, having seen nothing. *)
LEMMA ResumeStep ==
    ASSUME LedgerInv, EpisodeInv, NEW e \in Episodes, Resume(e)
    PROVE  EpisodeInv'
<1> USE DEF EpisodeInv
<1> DEFINE todo == {o \in DOMAIN operations : BlockedBy(o, ScopeOf[e])}
<1>1. /\ SameLedger /\ UNCHANGED <<checkpoint, wire, answers, effects>>
      /\ UNCHANGED <<operations, dispatched, completions>>
      /\ host' = [pc |-> "reconcile", episode |-> e, seen |-> <<>>, todo |-> todo]
  BY UnchangedLedger DEF Resume, worldVars, vars
<1>2. SameCaptures /\ \A o \in DOMAIN completions : Settlement(o)' = Settlement(o)
  BY <1>1 DEF SameLedger, SameSettlements
<1>3. todo \subseteq DOMAIN operations /\ todo \in SUBSET Slots
  BY DEF RowsAreAttempts
<1> HIDE DEF todo
<1>4. EpisodeTypeOK'
  <2>1. <<>> \in Seq(Results) OBVIOUS
  <2>2. host' \in [pc : Places, episode : Episodes \cup {"none"}, seen : Seq(Results),
                   todo : SUBSET Slots]
    BY <1>1, <1>3, <2>1 DEF Places
  <2>3. host'.episode \in Episodes BY <1>1
  <2>4. QED BY <1>1, <2>2, <2>3 DEF EpisodeTypeOK
<1>5. RowsAreAttempts' BY <1>1, <1>2, <1>3 DEF RowsAreAttempts, SameCaptures
<1>6. WorldMatches' BY <1>1, <1>2 DEF WorldMatches, Working, At
<1>7. CapturesAreReplays' BY <1>1, CapturesStay
<1>8. HostReplays'
  <2>1. Replayed(e, <<>>)' BY DEF Replayed
  <2>2. WithinLimit(<<>>)
    <3>1. \A S : {i \in DOMAIN <<>> : <<>>[i] \in S} = {} OBVIOUS
    <3>2. \A S : CountIn(<<>>, S) = 0 BY <3>1, FS_EmptySet DEF CountIn
    <3>3. Kind(<<>>) = "model" /\ Len(<<>>) = 0 BY DEF Kind
    <3>4. QED BY <3>2, <3>3, EpisodeAssumption DEF WithinLimit
  <2>3. \A b : Agree(<<>>, b) BY DEF Agree
  <2>4. ASSUME NEW d \in Episodes, NEW s \in Seq(Results), Working(d, s)'
        PROVE  d = e /\ s = <<>>
    BY <1>1, <2>4 DEF Working
  <2>5. ~Attempting' /\ ~At("observe")' BY <1>1 DEF Attempting, At
  <2>6. QED BY <2>1, <2>2, <2>3, <2>4, <2>5 DEF HostReplays
<1>9. FinishedMatches'
  BY <1>1, <1>2 DEF FinishedMatches, Attempting, At, EpisodeOps, Completed, SameCaptures
<1>10. QED BY <1>4, <1>5, <1>6, <1>7, <1>8, <1>9

(* The facts an action of the host starts from. *)
LEMMA AtWork ==
    ASSUME EpisodeInv, ~At("down")
    PROVE  LET e == host.episode
               s == host.seen
           IN  /\ e \in Episodes /\ s \in Seq(Results) /\ Working(e, s)
               /\ Replayed(e, s) /\ WithinLimit(s) /\ s \in Bodies
               /\ Scope = ScopeOf[e] /\ ScopeOf[e] \in Scopes \cup {Root}
               /\ ~Ended(s) => /\ Attempt(e, s) \in Slots
                               /\ Attempt(e, s)[1] = e /\ Attempt(e, s)[2] = Kind(s)
                               /\ AttemptRequest(e, s) \in Request
               /\ Attempting => ~Ended(s) /\ s \in BodiesOf(RequestRecord(Attempt(e, s)))
<1> DEFINE e == host.episode
           s == host.seen
<1>1. e \in Episodes /\ s \in Seq(Results) /\ Working(e, s)
  BY DEF EpisodeInv, EpisodeTypeOK, Working
<1>2. /\ Replayed(e, s) /\ WithinLimit(s)
      /\ Attempting => ~Ended(s) /\ s \in BodiesOf(RequestRecord(Attempt(e, s)))
  BY <1>1 DEF EpisodeInv, HostReplays
<1> HIDE DEF e, s
<1>3. /\ s \in Bodies
      /\ ~Ended(s) => /\ Attempt(e, s) \in Slots
                      /\ Attempt(e, s)[1] = e /\ Attempt(e, s)[2] = Kind(s)
  BY <1>1, <1>2, SlotExists
<1>4. ~Ended(s) => AttemptRequest(e, s) \in Request
  BY <1>3, EpisodeAssumption DEF AttemptRequest, Request
<1>5. ScopeOf[e] \in Scopes \cup {Root} BY <1>1, EpisodeAssumption
<1>6. QED BY <1>1, <1>2, <1>3, <1>4, <1>5 DEF e, s, Scope

(* The request leaves the process, for the first time. *)
LEMMA SendStep ==
    ASSUME EpisodeInv, Send
    PROVE  EpisodeInv'
<1> DEFINE e == host.episode
           s == host.seen
           o == Attempt(e, s)
<1>1. At("send") /\ ~At("down") /\ Attempting BY DEF Send, At, Attempting
<1>2. /\ e \in Episodes /\ s \in Seq(Results) /\ Working(e, s) /\ o \in Slots
  BY <1>1, AtWork
<1>3. /\ SameLedger /\ SameCaptures /\ UNCHANGED <<operations, dispatched, completions>>
      /\ \A p \in DOMAIN completions : Settlement(p)' = Settlement(p)
      /\ UNCHANGED <<checkpoint, answers, effects>>
      /\ wire' = wire \cup {o}
      /\ host' = [host EXCEPT !.pc = "wait"]
  BY UnchangedLedger DEF Send, GoTo, vars, SameLedger, SameSettlements
<1> USE DEF EpisodeInv
<1>4. /\ host'.pc = "wait" /\ host'.episode = e
      /\ host'.seen = s /\ host'.todo = host.todo
      /\ host' \in [pc : Places, episode : Episodes \cup {"none"}, seen : Seq(Results), todo : SUBSET Slots]
  BY <1>3 DEF EpisodeTypeOK, Places
<1>5. o \in dispatched /\ o \notin DOMAIN answers
  BY <1>1, <1>2 DEF WorldMatches
<1> HIDE DEF e, s, o
<1>6. EpisodeTypeOK' BY <1>2, <1>3, <1>4 DEF EpisodeTypeOK, At
<1>7. RowsAreAttempts' BY <1>3, <1>4 DEF RowsAreAttempts, SameCaptures
<1>8. WorldMatches'
  BY <1>3, <1>4, <1>5 DEF WorldMatches, At
<1>9. CapturesAreReplays' BY <1>3, CapturesStay
<1>10. HostReplays'
  <2>1. \A d, t : Replayed(d, t) => Replayed(d, t)'
    BY ReplaysStay, <1>3
  <2>2. QED
    BY <1>1, <1>3, <1>4, <2>1 DEF HostReplays, Working, Attempting, At, SameCaptures, e, s
<1>11. FinishedMatches'
  BY <1>1, <1>3, <1>4 DEF FinishedMatches, Attempting, At, EpisodeOps, Completed, SameCaptures, e
<1>12. QED BY <1>6, <1>7, <1>8, <1>9, <1>10, <1>11

(* The service acts on a request that is on the wire, or never sees it. *)
LEMMA WorldStep ==
    ASSUME EpisodeInv, NEW o \in OpIds, Execute(o) \/ Lose(o)
    PROVE  EpisodeInv'
<1> USE DEF EpisodeInv
<1>1. /\ SameLedger /\ SameCaptures /\ UNCHANGED <<operations, dispatched, completions>>
      /\ \A p \in DOMAIN completions : Settlement(p)' = Settlement(p)
      /\ UNCHANGED <<checkpoint, host>>
      /\ o \in wire /\ wire' = wire \ {o}
  BY UnchangedLedger DEF Execute, Lose, vars, SameLedger, SameSettlements
<1>2. o \in Slots /\ o \in dispatched /\ o \notin DOMAIN answers /\ effects[o] = 0
  BY <1>1 DEF EpisodeTypeOK, WorldMatches
<1>3. RowsAreAttempts' BY <1>1 DEF RowsAreAttempts, SameCaptures
<1>4. CapturesAreReplays' BY <1>1, CapturesStay
<1>5. HostReplays' BY <1>1, HostReplaysStay
<1>6. FinishedMatches'
  BY <1>1 DEF FinishedMatches, Attempting, At, EpisodeOps, Completed, SameCaptures
<1>7. CASE Lose(o)
  <2>1. UNCHANGED <<answers, effects>> BY <1>7 DEF Lose
  <2>2. EpisodeTypeOK' BY <1>1, <2>1 DEF EpisodeTypeOK, At
  <2>3. WorldMatches' BY <1>1, <2>1 DEF WorldMatches, Working, At
  <2>4. QED BY <1>3, <1>4, <1>5, <1>6, <2>2, <2>3
<1>8. CASE Execute(o)
  <2>1. PICK a \in Answers(o) :
          /\ a.result.outcome = "succeeded" <=> a.raw # Failure
          /\ answers' = With(answers, o, a)
    BY <1>8 DEF Execute
  <2>2. effects' = [effects EXCEPT ![o] = effects[o] + 1] BY <1>8 DEF Execute
  <2>3. /\ DOMAIN answers' = DOMAIN answers \cup {o}
        /\ \A p \in DOMAIN answers : answers'[p] = answers[p]
        /\ answers'[o] = a
        /\ answers' = [p \in DOMAIN answers' |-> answers'[p]]
    BY <1>2, <2>1 DEF With
  <2>4. effects' \in [OpIds -> Nat] /\ effects'[o] = 1
        /\ \A p \in OpIds \ {o} : effects'[p] = effects[p]
    BY <1>2, <2>2 DEF EpisodeTypeOK
  <2>5. EpisodeTypeOK' BY <1>1, <1>2, <2>1, <2>3, <2>4 DEF EpisodeTypeOK, At
  <2>6. WorldMatches'
    <3>1. /\ \A p \in wire' : p \in dispatched' /\ p \notin DOMAIN answers'
          /\ DOMAIN answers' \subseteq dispatched'
      BY <1>1, <1>2, <2>3 DEF WorldMatches
    <3>2. \A p \in OpIds : effects'[p] = IF p \in DOMAIN answers' THEN 1 ELSE 0
      BY <2>3, <2>4 DEF WorldMatches
    <3>3. \A p \in DOMAIN completions : p \in DOMAIN answers' /\ Settlement(p)' = answers'[p]
      BY <1>1, <2>3 DEF WorldMatches
    <3>4. \A e \in Episodes, s \in Seq(Results) :
             Working(e, s)' /\ At("send")' =>
                /\ Attempt(e, s) \in dispatched' /\ Attempt(e, s) \notin wire'
                /\ Attempt(e, s) \notin DOMAIN answers'
      BY <1>1, <2>3 DEF WorldMatches, Working, At
    <3>5. QED BY <1>1, <3>1, <3>2, <3>3, <3>4 DEF WorldMatches
  <2>7. QED BY <1>3, <1>4, <1>5, <1>6, <2>5, <2>6
<1>9. QED BY <1>7, <1>8

(* The agent sees what its attempt brought: the replay goes on.            *)
LEMMA ObserveStep ==
    ASSUME EpisodeInv, Observe
    PROVE  EpisodeInv'
<1> DEFINE e == host.episode
           s == host.seen
           o == Attempt(e, s)
           x == Settlement(o).raw
           next == Append(s, x)
<1>1. At("observe") /\ ~At("down") /\ Attempting BY DEF Observe, At, Attempting
<1>2. /\ e \in Episodes /\ s \in Seq(Results) /\ Working(e, s) /\ o \in Slots
      /\ o[1] = e /\ o[2] = Kind(s) /\ ~Ended(s) /\ Replayed(e, s) /\ WithinLimit(s)
  BY <1>1, AtWork
<1>3. /\ SameLedger /\ SameCaptures /\ UNCHANGED <<operations, dispatched, completions>>
      /\ \A p \in DOMAIN completions : Settlement(p)' = Settlement(p)
      /\ UNCHANGED <<checkpoint, wire, answers, effects>>
  BY UnchangedLedger DEF Observe, vars, worldVars, SameLedger, SameSettlements
<1>4. CASE completions[o].result.outcome # "succeeded"
  BY <1>3, <1>4, StopStep DEF Observe, worldVars
<1>5. CASE completions[o].result.outcome = "succeeded"
  <2>1. host' = [host EXCEPT !.pc = "attempt", !.seen = next]
    BY <1>5 DEF Observe, Settlement
  <2>2. Completed(o) /\ Settlement(o) = answers[o] /\ o \in DOMAIN answers
    BY <1>1, <1>2 DEF EpisodeInv, HostReplays, WorldMatches, Completed
  <2>3. answers[o].result.outcome = "succeeded" /\ x = answers[o].raw
    BY <1>5, <2>2 DEF Settlement
  <2>4. x \in RawOfKind(Kind(s))
    BY <1>2, <2>2, <2>3 DEF EpisodeInv, EpisodeTypeOK, Answers, RawOfKind
  <2>5. x \in Results BY <2>4 DEF RawOfKind, Results
  <2>6. next \in Seq(Results) /\ WithinLimit(next) BY <1>2, <2>4, ResultKeepsLimit
  <2>7. Replayed(e, next) BY <1>2, <1>5, <2>2, <2>4, ReplayGoesOn
  <2>8. /\ \A q \in Slots : \A b \in BodiesOf(RequestRecord(q)) : q[1] = e => Agree(next, b)
        /\ \A b \in BodiesOf(FinishedRecord(e)) : Agree(next, b)
    <3>1. \A b : Replayed(e, b) /\ Agree(s, b) => Agree(next, b)
      BY <1>2, <2>5, ResultAgrees
    <3>2. \A q \in Slots : \A b \in BodiesOf(RequestRecord(q)) :
             q[1] = e => Replayed(e, b) /\ Agree(s, b)
      BY <1>2 DEF EpisodeInv, HostReplays, CapturesAreReplays
    <3>3. \A b \in BodiesOf(FinishedRecord(e)) : Replayed(e, b) /\ Agree(s, b)
      BY <1>2 DEF EpisodeInv, HostReplays, CapturesAreReplays
    <3>4. QED BY <3>1, <3>2, <3>3
  <2> HIDE DEF next, x, o
  <2>9. /\ host'.pc = "attempt" /\ host'.episode = e
        /\ host'.seen = next /\ host'.todo = host.todo
        /\ host' \in [pc : Places, episode : Episodes \cup {"none"}, seen : Seq(Results), todo : SUBSET Slots]
    BY <2>1, <2>6 DEF EpisodeInv, EpisodeTypeOK, Places
  <2> HIDE DEF e, s
  <2> USE DEF EpisodeInv
  <2>10. EpisodeTypeOK' BY <1>2, <1>3, <2>9 DEF EpisodeTypeOK, At
  <2>11. RowsAreAttempts' BY <1>3, <2>9 DEF RowsAreAttempts, SameCaptures
  <2>12. WorldMatches' BY <1>3, <2>9 DEF WorldMatches, At
  <2>13. CapturesAreReplays' BY <1>3, CapturesStay
  <2>14. HostReplays'
    <3> SUFFICES ASSUME NEW d \in Episodes, NEW t \in Seq(Results), Working(d, t)'
                 PROVE  /\ Replayed(d, t)' /\ WithinLimit(t)
                        /\ \A q \in Slots : \A b \in BodiesOf(RequestRecord(q)) :
                              q[1] = d => Agree(t, b)
                        /\ \A b \in BodiesOf(FinishedRecord(d)) : Agree(t, b)
      <4>1. ~Attempting' /\ ~At("observe")' BY <2>9 DEF Attempting, At
      <4>2. QED BY <1>3, <4>1 DEF HostReplays, SameCaptures
    <3>1. d = e /\ t = next BY <2>9 DEF Working
    <3>2. Replayed(d, t) BY <2>7, <3>1
    <3>3. Replayed(d, t)' BY <1>3, <3>2, ReplaysStay
    <3>4. QED BY <2>6, <2>8, <3>1, <3>3
  <2>15. FinishedMatches'
    BY <1>1, <1>3, <2>9
    DEF FinishedMatches, Attempting, At, EpisodeOps, Completed, SameCaptures, e
  <2>16. QED BY <2>10, <2>11, <2>12, <2>13, <2>14, <2>15
<1>6. QED BY <1>4, <1>5

(* The episode is recorded. *)
LEMMA OpenJournalStep ==
    ASSUME LedgerInv, EpisodeInv, OpenJournal
    PROVE  [Next]_vars /\ EpisodeInv'
<1>0. At("reconcile") /\ ~At("down") BY DEF OpenJournal, At
<1>1. PICK e \in Episodes : host.episode = e BY <1>0, AtWork
<1> DEFINE id == EpisodeRecord(e)
<1>2. id \in RecordIds /\ <<>> \in Bodies /\ "command" \in Raw
  <2>2. <<>> \in [1..0 -> ModelRaw \cup ToolRaw] /\ 0 \in 0..(2 * MaxSteps)
    BY EpisodeAssumption
  <2>3. QED BY <2>2, EpisodeAssumption DEF ModelRaw
<1>3. PICK u \in sessions : RecordOnce(u, id, <<>>, "command") BY <1>1 DEF OpenJournal
<1>4. /\ [Next]_vars /\ UNCHANGED <<operations, dispatched>> /\ SameSettlements
      /\ \A other : other # id => BodiesOf(other)' = BodiesOf(other)
  BY <1>2, <1>3, RecordOnceEffect
<1>5. SameLedger
  BY <1>4 DEF SameLedger, SameCaptures, EpisodeRecord, RequestRecord, FinishedRecord
<1>6. GoTo("invoke") /\ UNCHANGED <<checkpoint, worldVars>> BY DEF OpenJournal
<1>7. "invoke" \in Places \ {"down", "send", "observe"} BY DEF Places
<1>8. EpisodeInv' BY <1>0, <1>5, <1>6, <1>7, MoveStep
<1>9. QED BY <1>4, <1>8

(* The request is captured: as it was the first time, if there was one. *)
LEMMA CaptureStep ==
    ASSUME LedgerInv, EpisodeInv, CaptureRequest
    PROVE  [Next]_vars /\ EpisodeInv'
<1>0. At("attempt") /\ ~At("down") /\ ~Ended(host.seen) BY DEF CaptureRequest, At
<1>1. PICK e \in Episodes, s \in Seq(Results) :
         host.episode = e /\ host.seen = s /\ ~Ended(s)
  BY <1>0, AtWork
<1> DEFINE o == Attempt(e, s)
<1>2. /\ Working(e, s) /\ o \in Slots /\ o[1] = e
      /\ Replayed(e, s) /\ WithinLimit(s) /\ s \in Bodies
  BY <1>0, <1>1, AtWork
<1>3. RequestRecord(o) \in RecordIds /\ "command" \in Raw
  BY <1>2, EpisodeAssumption DEF ModelRaw
<1>4. PICK u \in sessions : RecordOnce(u, RequestRecord(o), s, "command")
  BY <1>1 DEF CaptureRequest
<1>5. /\ [Next]_vars /\ UNCHANGED <<operations, dispatched>> /\ SameSettlements
      /\ BodiesOf(RequestRecord(o)) \subseteq {s} /\ BodiesOf(RequestRecord(o))' = {s}
      /\ \A id : id # RequestRecord(o) => BodiesOf(id)' = BodiesOf(id)
  BY <1>2, <1>3, <1>4, RecordOnceEffect
<1>6. /\ UNCHANGED <<operations, dispatched, completions, checkpoint, wire, answers, effects>>
      /\ \A p \in DOMAIN completions : Settlement(p)' = Settlement(p)
      /\ host' = [host EXCEPT !.pc = "reserve"]
  BY <1>5 DEF CaptureRequest, SameSettlements, worldVars, GoTo
<1>7. /\ \A q : q # o => BodiesOf(RequestRecord(q))' = BodiesOf(RequestRecord(q))
      /\ \A d : BodiesOf(FinishedRecord(d))' = BodiesOf(FinishedRecord(d))
  BY <1>5 DEF RequestRecord, FinishedRecord
<1> HIDE DEF o
<1> USE DEF EpisodeInv
<1>8. /\ host'.pc = "reserve" /\ host'.episode = e
      /\ host'.seen = s /\ host'.todo = host.todo
      /\ host' \in [pc : Places, episode : Episodes \cup {"none"}, seen : Seq(Results), todo : SUBSET Slots]
  BY <1>1, <1>6 DEF EpisodeTypeOK, Places
<1>9. EpisodeTypeOK' BY <1>2, <1>6, <1>8 DEF EpisodeTypeOK, At
<1>10. RowsAreAttempts' BY <1>5, <1>6, <1>7, <1>8 DEF RowsAreAttempts
<1>11. WorldMatches' BY <1>6, <1>8 DEF WorldMatches, At
<1>12. \A d, t : Replayed(d, t) => Replayed(d, t)' BY ReplaysStay, <1>6
<1>13. CapturesAreReplays'
  <2>1. ASSUME NEW q \in Slots, NEW b \in BodiesOf(RequestRecord(q))'
        PROVE  Replayed(q[1], b)' /\ ~Ended(b) /\ Attempt(q[1], b) = q
    <3>1. CASE q = o
      <4>1. b = s BY <1>5, <3>1
      <4>2. Replayed(q[1], b) BY <1>2, <3>1, <4>1
      <4>3. QED BY <1>1, <1>2, <1>12, <3>1, <4>1, <4>2 DEF o
    <3>2. CASE q # o BY <1>7, <1>12, <3>2 DEF CapturesAreReplays
    <3>3. QED BY <3>1, <3>2
  <2>2. QED BY <1>7, <1>12, <2>1 DEF CapturesAreReplays
<1>14. HostReplays'
  <2> SUFFICES ASSUME NEW d \in Episodes, NEW t \in Seq(Results), Working(d, t)'
               PROVE  /\ Replayed(d, t)' /\ WithinLimit(t)
                      /\ \A q \in Slots : \A b \in BodiesOf(RequestRecord(q))' :
                            q[1] = d => Agree(t, b)
                      /\ \A b \in BodiesOf(FinishedRecord(d)) : Agree(t, b)
                      /\ ~Ended(t) /\ t \in BodiesOf(RequestRecord(Attempt(d, t)))'
    <3>1. ~At("observe")' BY <1>8 DEF At
    <3>2. QED BY <1>7, <3>1 DEF HostReplays
  <2>1. d = e /\ t = s BY <1>8 DEF Working
  <2>2. Working(d, t) /\ Replayed(d, t) BY <1>2, <2>1
  <2>3. Replayed(d, t)' BY <1>12, <2>2
  <2>4. ASSUME NEW q \in Slots, NEW b \in BodiesOf(RequestRecord(q))', q[1] = d
        PROVE  Agree(t, b)
    <3>1. CASE q = o
      <4>1. b = t BY <1>5, <2>1, <3>1
      <4>2. QED BY <4>1 DEF Agree
    <3>2. CASE q # o BY <1>7, <2>2, <2>4, <3>2 DEF HostReplays
    <3>3. QED BY <3>1, <3>2
  <2>5. Attempt(d, t) = o BY <2>1 DEF o
  <2>6. t \in BodiesOf(RequestRecord(o))' BY <1>5, <2>1
  <2>7. t \in BodiesOf(RequestRecord(Attempt(d, t)))' BY <2>5, <2>6
  <2>8. QED BY <1>1, <2>1, <2>2, <2>3, <2>4, <2>7 DEF HostReplays
<1>15. FinishedMatches'
  BY <1>0, <1>1, <1>6, <1>7, <1>8 DEF FinishedMatches, Attempting, At, EpisodeOps, Completed
<1>16. QED BY <1>5, <1>9, <1>10, <1>11, <1>13, <1>14, <1>15

(* The receipt of an episode is recorded once all is settled. *)
LEMMA FinishStep ==
    ASSUME LedgerInv, EpisodeInv, Finish
    PROVE  [Next]_vars /\ EpisodeInv'
<1>0. /\ At("attempt") /\ ~At("down") /\ Ended(host.seen)
      /\ \A o \in EpisodeOps(host.episode) : Completed(o)
  BY DEF Finish, At
<1>1. PICK e \in Episodes, s \in Seq(Results) :
         /\ host.episode = e /\ host.seen = s /\ Ended(s)
         /\ \A o \in EpisodeOps(e) : Completed(o)
  BY <1>0, AtWork
<1>2. /\ Working(e, s)
      /\ Replayed(e, s) /\ WithinLimit(s) /\ s \in Bodies
  BY <1>0, <1>1, AtWork
<1>3. FinishedRecord(e) \in RecordIds /\ "command" \in Raw
  BY <1>2, EpisodeAssumption DEF ModelRaw
<1>4. PICK u \in sessions : RecordOnce(u, FinishedRecord(e), s, "command")
  BY <1>1 DEF Finish
<1>5. /\ [Next]_vars /\ UNCHANGED <<operations, dispatched>> /\ SameSettlements
      /\ BodiesOf(FinishedRecord(e))' = {s}
      /\ \A id : id # FinishedRecord(e) => BodiesOf(id)' = BodiesOf(id)
  BY <1>2, <1>3, <1>4, RecordOnceEffect
<1>6. /\ UNCHANGED <<operations, dispatched, completions, checkpoint, wire, answers, effects>>
      /\ \A p \in DOMAIN completions : Settlement(p)' = Settlement(p)
      /\ host' = [host EXCEPT !.pc = "checkpoint"]
  BY <1>5 DEF Finish, SameSettlements, worldVars, GoTo
<1>7. /\ \A q : BodiesOf(RequestRecord(q))' = BodiesOf(RequestRecord(q))
      /\ \A d : d # e => BodiesOf(FinishedRecord(d))' = BodiesOf(FinishedRecord(d))
  BY <1>5 DEF RequestRecord, FinishedRecord
<1> USE DEF EpisodeInv
<1>8. /\ host'.pc = "checkpoint" /\ host'.episode = e
      /\ host'.seen = s /\ host'.todo = host.todo
      /\ host' \in [pc : Places, episode : Episodes \cup {"none"}, seen : Seq(Results), todo : SUBSET Slots]
  BY <1>1, <1>6 DEF EpisodeTypeOK, Places
<1>9. EpisodeTypeOK' BY <1>2, <1>6, <1>8 DEF EpisodeTypeOK, At
<1>10. RowsAreAttempts' BY <1>6, <1>7, <1>8 DEF RowsAreAttempts
<1>11. WorldMatches' BY <1>6, <1>8 DEF WorldMatches, At
<1>12. \A d, t : Replayed(d, t) => Replayed(d, t)' BY ReplaysStay, <1>6
<1>13. CapturesAreReplays'
  <2>1. ASSUME NEW d \in Episodes, NEW b \in BodiesOf(FinishedRecord(d))'
        PROVE  Replayed(d, b)' /\ Ended(b)
    <3>1. CASE d = e
      <4>1. b = s BY <1>5, <3>1
      <4>2. Replayed(d, b) /\ Ended(b) BY <1>1, <1>2, <3>1, <4>1
      <4>3. QED BY <1>12, <4>2
    <3>2. CASE d # e BY <1>7, <1>12, <3>2 DEF CapturesAreReplays
    <3>3. QED BY <3>1, <3>2
  <2>2. QED BY <1>7, <1>12, <2>1 DEF CapturesAreReplays
<1>14. HostReplays'
  <2> SUFFICES ASSUME NEW d \in Episodes, NEW t \in Seq(Results), Working(d, t)'
               PROVE  /\ Replayed(d, t)' /\ WithinLimit(t)
                      /\ \A q \in Slots : \A b \in BodiesOf(RequestRecord(q)) :
                            q[1] = d => Agree(t, b)
                      /\ \A b \in BodiesOf(FinishedRecord(d))' : Agree(t, b)
    <3>1. ~At("observe")' /\ ~Attempting' BY <1>8 DEF At, Attempting
    <3>2. QED BY <1>7, <3>1 DEF HostReplays
  <2>1. d = e /\ t = s BY <1>8 DEF Working
  <2>2. Working(d, t) /\ Replayed(d, t) BY <1>2, <2>1
  <2>3. Replayed(d, t)' BY <1>12, <2>2
  <2>4. ASSUME NEW b \in BodiesOf(FinishedRecord(d))' PROVE Agree(t, b)
    <3>1. b = t BY <1>5, <2>1
    <3>2. QED BY <3>1 DEF Agree
  <2>5. QED BY <2>2, <2>3, <2>4 DEF HostReplays
<1>15. FinishedMatches'
  <2>1. \A d \in Episodes : EpisodeOps(d)' = EpisodeOps(d) BY <1>6 DEF EpisodeOps
  <2>2. \A o : Completed(o)' = Completed(o) BY <1>6 DEF Completed
  <2>3. BodiesOf(FinishedRecord(e))' # {} BY <1>5
  <2>4. ~(Attempting \/ At("attempt"))' BY <1>8 DEF At, Attempting
  <2>5. \A d \in Episodes : d # e => UNCHANGED BodiesOf(FinishedRecord(d)) BY <1>7
  <2>6. \A d \in Episodes : checkpoint'[d] = "done" => BodiesOf(FinishedRecord(d))' # {}
    BY <1>6, <2>3, <2>5 DEF FinishedMatches
  <2>7. \A d \in Episodes : BodiesOf(FinishedRecord(d))' # {} =>
           \A o \in EpisodeOps(d) : Completed(o)
    BY <1>1, <2>5 DEF FinishedMatches
  <2>8. QED BY <1>8, <2>1, <2>2, <2>3, <2>4, <2>6, <2>7 DEF FinishedMatches
<1>16. QED BY <1>5, <1>9, <1>10, <1>11, <1>13, <1>14, <1>15

(* The attempt is reserved, in its episode's scope, if it is not already.  *)
LEMMA ReserveStep ==
    ASSUME LedgerInv, EpisodeInv, ReserveAttempt
    PROVE  [Next]_vars /\ EpisodeInv'
<1>0. At("reserve") /\ ~At("down") /\ Attempting BY DEF ReserveAttempt, At, Attempting
<1>1. PICK e \in Episodes, s \in Seq(Results) : host.episode = e /\ host.seen = s
  BY <1>0, AtWork
<1> DEFINE o == Attempt(e, s)
           request == AttemptRequest(e, s)
           place == IF Completed(o) THEN "observe" ELSE "begin"
<1>2. /\ Working(e, s) /\ o \in Slots /\ o[1] = e /\ o[2] = Kind(s)
      /\ s \in BodiesOf(RequestRecord(o)) /\ ~Ended(s)
      /\ Scope = ScopeOf[e] /\ ScopeOf[e] \in Scopes \cup {Root} /\ request \in Request
  BY <1>0, <1>1, AtWork
<1>3. request.id = o /\ request.body = s BY DEF AttemptRequest
<1>4. AttemptReservation(e, s) \in Reservations
  BY EpisodeAssumption DEF AttemptReservation, Kind
<1>5. /\ [Next]_vars /\ UNCHANGED dispatched /\ SameSettlements
      /\ \A id : BodiesOf(id)' = BodiesOf(id)
      /\ DOMAIN operations' = DOMAIN operations \cup {o}
      /\ \A p \in DOMAIN operations : operations'[p] = operations[p]
      /\ o \notin DOMAIN operations =>
           operations'[o].scope = ScopeOf[e] /\ operations'[o].request.body = s
  <2>1. CASE Reserved(o)
    <3>1. UNCHANGED vars BY <1>1, <1>3, <2>1 DEF ReserveAttempt
    <3>2. QED
      BY <2>1, <3>1, UnchangedLedger
      DEF vars, Reserved, SameSettlements, Settlement, BodiesOf, Captures
  <2>2. CASE ~Reserved(o)
    <3>1. PICK u \in sessions : Reserve(u, request, AttemptReservation(e, s), ScopeOf[e])
      BY <1>1, <1>2, <1>3, <2>2 DEF ReserveAttempt
    <3> HIDE DEF request, o
    <3>2. /\ [Next]_vars /\ UNCHANGED dispatched /\ SameSettlements
          /\ \A id : BodiesOf(id)' = BodiesOf(id)
          /\ DOMAIN operations' = DOMAIN operations \cup {request.id}
          /\ \A p \in DOMAIN operations : operations'[p] = operations[p]
          /\ operations'[request.id] = [request |-> request, scope |-> ScopeOf[e],
                                        reservation |-> AttemptReservation(e, s)]
      BY <1>2, <1>4, <3>1, ReserveEffect, ZenonT(60)
    <3>3. QED BY <1>3, <3>2
  <2>3. QED BY <2>1, <2>2
<1>6. /\ UNCHANGED <<dispatched, completions, checkpoint, wire, answers, effects>>
      /\ \A p \in DOMAIN completions : Settlement(p)' = Settlement(p)
      /\ SameCaptures
  BY <1>5 DEF ReserveAttempt, SameSettlements, SameCaptures, worldVars
<1>7. host' = [host EXCEPT !.pc = place]
  BY <1>1, <1>3 DEF ReserveAttempt, GoTo
<1> HIDE DEF o, request
<1> USE DEF EpisodeInv
<1>8. /\ host'.pc = place /\ host'.episode = e
      /\ host'.seen = s /\ host'.todo = host.todo
      /\ host' \in [pc : Places, episode : Episodes \cup {"none"}, seen : Seq(Results), todo : SUBSET Slots]
  BY <1>1, <1>7 DEF EpisodeTypeOK, Places
<1>9. EpisodeTypeOK' BY <1>6, <1>8 DEF EpisodeTypeOK, At
<1>10. RowsAreAttempts' BY <1>2, <1>5, <1>6, <1>8 DEF RowsAreAttempts, SameCaptures
<1>11. WorldMatches' BY <1>6, <1>8 DEF WorldMatches, At
<1>12. \A d, t : Replayed(d, t) => Replayed(d, t)' BY ReplaysStay, <1>6
<1>13. CapturesAreReplays' BY <1>6, <1>12 DEF CapturesAreReplays, SameCaptures
<1>14. HostReplays'
  <2> SUFFICES ASSUME NEW d \in Episodes, NEW t \in Seq(Results), Working(d, t)'
               PROVE  /\ Replayed(d, t)' /\ WithinLimit(t)
                      /\ \A q \in Slots : \A b \in BodiesOf(RequestRecord(q)) :
                            q[1] = d => Agree(t, b)
                      /\ \A b \in BodiesOf(FinishedRecord(d)) : Agree(t, b)
                      /\ ~Ended(t) /\ t \in BodiesOf(RequestRecord(Attempt(d, t)))
                      /\ At("observe")' => Completed(Attempt(d, t))'
    BY <1>6 DEF HostReplays, SameCaptures
  <2>1. d = e /\ t = s BY <1>8 DEF Working
  <2>2. Working(d, t) BY <1>2, <2>1
  <2>3. Replayed(d, t)' BY <1>12, <2>2 DEF HostReplays
  <2>4. At("observe")' => Completed(o)' BY <1>6, <1>8 DEF At, Completed
  <2>5. Attempt(d, t) = o BY <2>1 DEF o
  <2>6. QED BY <1>2, <2>1, <2>2, <2>3, <2>4, <2>5 DEF HostReplays
<1>15. FinishedMatches'
  <2>1. BodiesOf(FinishedRecord(e)) = {} BY <1>0, <1>1 DEF FinishedMatches
  <2>2. \A d \in Episodes : d # e => EpisodeOps(d)' = EpisodeOps(d)
    BY <1>2, <1>5 DEF EpisodeOps
  <2>3. \A p : Completed(p)' = Completed(p) BY <1>6 DEF Completed
  <2>4. ~At("checkpoint")' BY <1>8 DEF At
  <2>5. QED BY <1>6, <1>8, <2>1, <2>2, <2>3, <2>4 DEF FinishedMatches, SameCaptures
<1>16. QED BY <1>5, <1>9, <1>10, <1>11, <1>13, <1>14, <1>15

(* The dispatch is marked: of what is marked for the first time nothing    *)
(* can be on the wire yet.                                                 *)
LEMMA BeginStep ==
    ASSUME LedgerInv, EpisodeInv, BeginAttempt
    PROVE  [Next]_vars /\ EpisodeInv'
<1>0. At("begin") /\ ~At("down") /\ Attempting BY DEF BeginAttempt, At, Attempting
<1>1. PICK e \in Episodes, s \in Seq(Results) : host.episode = e /\ host.seen = s
  BY <1>0, AtWork
<1> DEFINE o == Attempt(e, s)
           request == AttemptRequest(e, s)
<1>2. Working(e, s) /\ o \in Slots /\ request \in Request
  BY <1>0, <1>1, AtWork
<1>3. request.id = o BY DEF AttemptRequest
<1>4. PICK u \in sessions : Begin(u, request) BY <1>1 DEF BeginAttempt
<1> HIDE DEF o, request
<1>5. /\ [Next]_vars /\ Pending(o) /\ dispatched' = dispatched \cup {o}
      /\ UNCHANGED operations /\ SameSettlements
      /\ \A id : BodiesOf(id)' = BodiesOf(id)
  BY <1>2, <1>3, <1>4, BeginEffect
<1>6. /\ UNCHANGED <<operations, completions, checkpoint, wire, answers, effects>>
      /\ \A p \in DOMAIN completions : Settlement(p)' = Settlement(p)
      /\ SameCaptures
      /\ host' = [host EXCEPT !.pc = "send"]
  BY <1>5 DEF BeginAttempt, SameSettlements, SameCaptures, worldVars, GoTo
<1> USE DEF EpisodeInv
<1>7. o \notin dispatched /\ o \notin wire /\ o \notin DOMAIN answers
  BY <1>5 DEF Pending, WorldMatches
<1>8. /\ host'.pc = "send" /\ host'.episode = e
      /\ host'.seen = s /\ host'.todo = host.todo
      /\ host' \in [pc : Places, episode : Episodes \cup {"none"}, seen : Seq(Results), todo : SUBSET Slots]
  BY <1>1, <1>6 DEF EpisodeTypeOK, Places
<1>9. EpisodeTypeOK' BY <1>6, <1>8 DEF EpisodeTypeOK, At
<1>10. RowsAreAttempts' BY <1>6, <1>8 DEF RowsAreAttempts, SameCaptures
<1>11. WorldMatches'
  <2>1. ASSUME NEW d \in Episodes, NEW t \in Seq(Results), Working(d, t)'
        PROVE  /\ Attempt(d, t) \in dispatched' /\ Attempt(d, t) \notin wire
               /\ Attempt(d, t) \notin DOMAIN answers
    <3>1. d = e /\ t = s BY <1>8, <2>1 DEF Working
    <3>2. Attempt(d, t) = o BY <3>1 DEF o
    <3>3. QED BY <1>5, <1>7, <3>2
  <2>2. QED BY <1>5, <1>6, <2>1 DEF WorldMatches
<1>12. \A d, t : Replayed(d, t) => Replayed(d, t)' BY ReplaysStay, <1>6
<1>13. CapturesAreReplays' BY <1>6, <1>12 DEF CapturesAreReplays, SameCaptures
<1>14. HostReplays'
  BY <1>0, <1>1, <1>6, <1>8, <1>12 DEF HostReplays, Working, Attempting, At, SameCaptures
<1>15. FinishedMatches'
  BY <1>0, <1>1, <1>6, <1>8
  DEF FinishedMatches, Attempting, At, EpisodeOps, Completed, SameCaptures
<1>16. QED BY <1>5, <1>9, <1>10, <1>11, <1>13, <1>14, <1>15

(* An operation is settled by its receipt, now or on a later resume. *)
LEMMA SettleStep ==
    ASSUME LedgerInv, EpisodeInv, NEW o \in Slots, o \in DOMAIN answers,
           NEW request \in Request, request.id = o,
           NEW u \in sessions, Complete(u, request, answers[o].result, answers[o].raw),
           UNCHANGED <<checkpoint, worldVars>>,
           \/ At("reconcile") /\ host' = [host EXCEPT !.todo = host.todo \ {o}]
           \/ /\ At("wait") /\ host' = [host EXCEPT !.pc = "observe"]
              /\ Attempt(host.episode, host.seen) = o
    PROVE  [Next]_vars /\ EpisodeInv'
<1>1. ~At("down") /\ (At("wait") => Attempting) BY DEF At, Attempting
<1>2. PICK e \in Episodes, s \in Seq(Results) : host.episode = e /\ host.seen = s
  BY <1>1, AtWork
<1>3. Working(e, s) /\ (At("wait") => Attempt(e, s) = o) BY <1>1, <1>2 DEF Working, At
<1> USE DEF EpisodeInv
<1>4. PICK result \in Result, raw \in Raw : answers[o] = [result |-> result, raw |-> raw]
  <2>1. answers[o] \in Answers(o) BY DEF EpisodeTypeOK
  <2>2. PICK r \in Result, d \in ModelRaw \cup ToolRaw \cup {Failure} :
          answers[o] = [result |-> r, raw |-> d]
    BY <2>1 DEF Answers
  <2>3. QED BY <2>2, EpisodeAssumption
<1>5. /\ [Next]_vars /\ Unknown(o)
      /\ DOMAIN completions' = DOMAIN completions \cup {o}
      /\ \A p \in DOMAIN completions :
           completions'[p] = completions[p] /\ Settlement(p)' = Settlement(p)
      /\ Settlement(o)' = answers[o]
      /\ UNCHANGED <<operations, dispatched>>
      /\ \A id : id # o => BodiesOf(id)' = BodiesOf(id)
  <2>1. Complete(u, request, result, raw) BY <1>4
  <2>2. /\ [Next]_vars /\ Unknown(request.id)
        /\ DOMAIN completions' = DOMAIN completions \cup {request.id}
        /\ \A p \in DOMAIN completions :
             completions'[p] = completions[p] /\ Settlement(p)' = Settlement(p)
        /\ Settlement(request.id)' = [result |-> result, raw |-> raw]
        /\ UNCHANGED <<operations, dispatched>>
        /\ \A id : id # request.id => BodiesOf(id)' = BodiesOf(id)
    BY <2>1, CompleteEffect
  <2>3. QED BY <1>4, <2>2
<1>6. \A q : RequestRecord(q) # o /\ FinishedRecord(q) # o
  BY DEF Slots, RequestRecord, FinishedRecord
<1>7. SameCaptures BY <1>5, <1>6 DEF SameCaptures
<1>8. UNCHANGED <<checkpoint, wire, answers, effects>> BY DEF worldVars
<1>9. /\ host'.episode = e /\ host'.seen = s /\ host'.todo \subseteq host.todo
      /\ host'.pc = (IF At("wait") THEN "observe" ELSE "reconcile")
      /\ host' \in [pc : Places, episode : Episodes \cup {"none"}, seen : Seq(Results), todo : SUBSET Slots]
  BY <1>2 DEF EpisodeTypeOK, Places, At
<1>10. EpisodeTypeOK' BY <1>8, <1>9 DEF EpisodeTypeOK, At
<1>11. RowsAreAttempts' BY <1>5, <1>7, <1>9 DEF RowsAreAttempts, SameCaptures
<1>12. WorldMatches'
  <2>1. \A p \in DOMAIN completions' : p \in DOMAIN answers /\ Settlement(p)' = answers[p]
    BY <1>5 DEF WorldMatches
  <2>2. ~At("send")' BY <1>9 DEF At
  <2>3. QED BY <1>5, <1>8, <2>1, <2>2 DEF WorldMatches
<1>13. \A d, t : Replayed(d, t) => Replayed(d, t)' BY ReplaysStay, <1>5
<1>14. CapturesAreReplays' BY <1>7, <1>13 DEF CapturesAreReplays, SameCaptures
<1>15. HostReplays'
  <2> SUFFICES ASSUME NEW d \in Episodes, NEW t \in Seq(Results), Working(d, t)'
               PROVE  /\ Replayed(d, t)' /\ WithinLimit(t)
                      /\ \A q \in Slots : \A b \in BodiesOf(RequestRecord(q)) :
                            q[1] = d => Agree(t, b)
                      /\ \A b \in BodiesOf(FinishedRecord(d)) : Agree(t, b)
                      /\ Attempting' => ~Ended(t) /\ t \in BodiesOf(RequestRecord(Attempt(d, t)))
                      /\ At("observe")' => Completed(Attempt(d, t))'
    BY <1>7 DEF HostReplays, SameCaptures
  <2>1. d = e /\ t = s BY <1>9 DEF Working
  <2>2. Working(d, t) BY <1>3, <2>1
  <2>3. Replayed(d, t)' BY <1>13, <2>2 DEF HostReplays
  <2>4. Attempting' => At("wait") /\ Attempting BY <1>1, <1>9 DEF At, Attempting
  <2>5. At("observe")' => Completed(o)' /\ Attempt(d, t) = o
    BY <1>3, <1>5, <1>9, <2>1 DEF At, Completed
  <2>6. QED BY <2>2, <2>3, <2>4, <2>5 DEF HostReplays
<1>16. FinishedMatches'
  <2>1. \A d \in Episodes : EpisodeOps(d)' = EpisodeOps(d) BY <1>5 DEF EpisodeOps
  <2>2. \A p : Completed(p) => Completed(p)' BY <1>5 DEF Completed
  <2>3. /\ Attempting' \/ At("attempt")' => Attempting
        /\ ~At("checkpoint")'
    BY <1>1, <1>9 DEF At, Attempting
  <2>4. QED BY <1>2, <1>7, <1>8, <1>9, <2>1, <2>2, <2>3 DEF FinishedMatches, SameCaptures
<1>17. QED BY <1>5, <1>10, <1>11, <1>12, <1>14, <1>15, <1>16

LEMMA CompleteStep ==
    ASSUME LedgerInv, EpisodeInv, CompleteAttempt
    PROVE  [Next]_vars /\ EpisodeInv'
<1>0. At("wait") /\ ~At("down") /\ Attempting BY DEF CompleteAttempt, At, Attempting
<1>1. PICK e \in Episodes, s \in Seq(Results) : host.episode = e /\ host.seen = s
  BY <1>0, AtWork
<1> DEFINE o == Attempt(e, s)
<1>2. o \in Slots /\ AttemptRequest(e, s) \in Request /\ AttemptRequest(e, s).id = o
  BY <1>0, <1>1, AtWork DEF AttemptRequest
<1>3. PICK u \in sessions :
        Complete(u, AttemptRequest(e, s), answers[o].result, answers[o].raw)
  BY <1>1 DEF CompleteAttempt
<1>4. /\ o \in DOMAIN answers /\ UNCHANGED <<checkpoint, worldVars>>
      /\ host' = [host EXCEPT !.pc = "observe"]
  BY <1>1 DEF CompleteAttempt, GoTo
<1>5. QED BY <1>0, <1>1, <1>2, <1>3, <1>4, SettleStep

LEMMA ReconcileStep ==
    ASSUME LedgerInv, EpisodeInv, NEW o \in OpIds, Reconcile(o)
    PROVE  [Next]_vars /\ EpisodeInv'
<1>1. /\ At("reconcile") /\ o \in host.todo /\ UNCHANGED <<checkpoint, worldVars>>
      /\ host' = [host EXCEPT !.todo = host.todo \ {o}]
  BY DEF Reconcile
<1>2. o \in DOMAIN operations /\ o \in Slots
  BY <1>1 DEF EpisodeInv, RowsAreAttempts
<1>3. operations[o].request \in Request /\ operations[o].request.id = o
  BY <1>2 DEF LedgerInv, TypeOK, RowsLoad, Operation
<1>4. CASE o \in Receipts
  <2>1. PICK u \in sessions :
          Complete(u, operations[o].request, answers[o].result, answers[o].raw)
    BY <1>4 DEF Reconcile
  <2>2. o \in DOMAIN answers BY <1>4 DEF Receipts
  <2>3. QED BY <1>1, <1>2, <1>3, <2>1, <2>2, SettleStep
<1>5. CASE o \notin Receipts
  <2>1. UNCHANGED vars BY <1>5 DEF Reconcile
  <2>2. SameLedger /\ [Next]_vars BY <2>1, UnchangedLedger
  <2> USE DEF EpisodeInv
  <2>3. /\ UNCHANGED <<operations, dispatched, completions, checkpoint, wire, answers, effects>>
        /\ SameCaptures
        /\ \A p \in DOMAIN completions : Settlement(p)' = Settlement(p)
    BY <1>1, <2>2 DEF SameLedger, SameSettlements, worldVars
  <2>4. /\ host'.episode = host.episode /\ host'.seen = host.seen
        /\ host'.pc = host.pc /\ host'.todo \subseteq host.todo
        /\ host' \in [pc : Places, episode : Episodes \cup {"none"}, seen : Seq(Results), todo : SUBSET Slots]
    BY <1>1 DEF EpisodeTypeOK
  <2>5. EpisodeTypeOK' BY <2>3, <2>4 DEF EpisodeTypeOK, At
  <2>6. RowsAreAttempts' BY <2>3, <2>4 DEF RowsAreAttempts, SameCaptures
  <2>7. /\ \A e, s : Working(e, s)' = Working(e, s)
        /\ Attempting' = Attempting /\ \A place : At(place)' = At(place)
    BY <2>4 DEF Working, Attempting, At
  <2>8. WorldMatches' BY <2>3, <2>7 DEF WorldMatches
  <2>9. CapturesAreReplays' BY <2>2, CapturesStay
  <2>10. \A d, t : Replayed(d, t) => Replayed(d, t)' BY ReplaysStay, <2>3
  <2>11. HostReplays' BY <2>3, <2>7, <2>10 DEF HostReplays, Completed, SameCaptures
  <2>12. FinishedMatches'
    BY <2>3, <2>4, <2>7 DEF FinishedMatches, EpisodeOps, Completed, SameCaptures
  <2>13. QED BY <2>2, <2>5, <2>6, <2>8, <2>9, <2>11, <2>12
<1>6. QED BY <1>4, <1>5

-----------------------------------------------------------------------------
(* The invariant and its consequences.                                     *)

LEMMA RecordedBodies == \A id : Recorded(id) <=> BodiesOf(id) # {}
BY DEF Recorded, BodiesOf

LEMMA EpisodeStart == EpisodeInit => LedgerInv /\ EpisodeInv
<1> SUFFICES ASSUME EpisodeInit PROVE LedgerInv /\ EpisodeInv
  OBVIOUS
<1>1. Init /\ host = Down /\ wire = {} BY DEF EpisodeInit
<1>2. LedgerInv BY <1>1, LedgerStart
<1>3. operations = [o \in {} |-> {}] /\ dispatched = {} /\ completions = [o \in {} |-> {}]
      /\ history = <<>>
  BY <1>1 DEF Init
<1>4. \A id : BodiesOf(id) = {} BY <1>3 DEF BodiesOf, Captures
<1>5. EpisodeTypeOK BY DEF EpisodeInit, EpisodeTypeOK, Down, Places, At
<1>6. RowsAreAttempts BY <1>1, <1>3 DEF RowsAreAttempts, Down
<1>7. WorldMatches
  BY <1>1, <1>3 DEF EpisodeInit, WorldMatches, Working, Down, At
<1>8. CapturesAreReplays BY <1>4 DEF CapturesAreReplays
<1>9. HostReplays BY <1>1 DEF HostReplays, Working, Down, At
<1>10. FinishedMatches
  BY <1>1, <1>4 DEF EpisodeInit, FinishedMatches, Attempting, Down, At
<1>11. QED BY <1>2, <1>5, <1>6, <1>7, <1>8, <1>9, <1>10 DEF EpisodeInv

(* The steps of the host that the ledger does not see. *)
LEMMA QuietStep ==
    ASSUME EpisodeInv, UNCHANGED vars,
           \/ ReceiptUnread \/ Refused \/ Invoke \/ Work \/ BudgetExceeded \/ BoundaryRaises
           \/ SaveCheckpoint \/ Return \/ Crash
    PROVE  EpisodeInv'
<1>1. SameLedger BY UnchangedLedger
<1>2. CASE ReceiptUnread \/ Refused \/ BudgetExceeded \/ BoundaryRaises \/ Return \/ Crash
  BY <1>1, <1>2, StopStep
  DEF ReceiptUnread, Refused, BudgetExceeded, BoundaryRaises, Return, Crash
<1>3. CASE Invoke
  <2>1. PICK place \in {"return", "work"} : GoTo(place) BY <1>3 DEF Invoke
  <2>2. /\ ~At("down") /\ UNCHANGED worldVars
        /\ \/ UNCHANGED checkpoint
           \/ checkpoint' = [checkpoint EXCEPT ![host.episode] = "input"]
    BY <1>3 DEF Invoke, At
  <2>3. place \in Places \ {"down", "send", "observe"} BY DEF Places
  <2>4. QED BY <1>1, <2>1, <2>2, <2>3, MoveStep
<1>4. CASE Work
  <2> DEFINE recorded == Recorded(FinishedRecord(host.episode))
             place == IF recorded THEN "checkpoint" ELSE "attempt"
  <2>1. ~At("down") /\ UNCHANGED <<checkpoint, worldVars>> /\ GoTo(place)
    BY <1>4 DEF Work, At
  <2>2. recorded <=> BodiesOf(FinishedRecord(host.episode)) # {} BY RecordedBodies
  <2>3. /\ place \in Places \ {"down", "send", "observe"}
        /\ place \notin {"reserve", "begin", "wait"}
        /\ place = "attempt" => ~recorded
        /\ place = "checkpoint" => recorded
    BY DEF Places
  <2> HIDE DEF place, recorded
  <2>4. QED BY <1>1, <2>1, <2>2, <2>3, MoveStep
<1>5. CASE SaveCheckpoint
  <2>1. /\ At("checkpoint") /\ ~At("down") /\ UNCHANGED worldVars /\ GoTo("return")
        /\ checkpoint' = [checkpoint EXCEPT ![host.episode] = "done"]
    BY <1>5 DEF SaveCheckpoint, At
  <2>2. "return" \in Places \ {"down", "send", "observe"} BY DEF Places
  <2>3. QED BY <1>1, <2>1, <2>2, MoveStep
<1>6. QED BY <1>2, <1>3, <1>4, <1>5

LEMMA EpisodeStep ==
    ASSUME LedgerInv, EpisodeInv, [EpisodeNext]_episodeVars
    PROVE  [Next]_vars /\ EpisodeInv'
<1>1. CASE UNCHANGED vars /\ UNCHANGED <<host, checkpoint, worldVars>>
  BY <1>1, UnchangedLedger, SameHostStep
<1>2. CASE NewSession
  <2>1. PICK s \in Sessions : StartSession(s) BY <1>2 DEF NewSession
  <2>2. Next /\ SameLedger
    BY <2>1
    DEF Next, StartSession, SameLedger, SameSettlements, SameCaptures, Settlement, BodiesOf,
        Captures
  <2>3. UNCHANGED <<host, checkpoint, worldVars>> BY <1>2 DEF NewSession
  <2>4. QED BY <2>2, <2>3, SameHostStep
<1>3. ASSUME NEW e \in Episodes, OpenRun(e) PROVE [Next]_vars /\ EpisodeInv'
  <2>1. PICK s \in Sessions, caps \in CapChoices : OpenScope(s, ScopeOf[e], caps)
    BY <1>3 DEF OpenRun
  <2>2. ScopeOf[e] \in Scopes BY <1>3, EpisodeAssumption DEF OpenRun
  <2>3. Next /\ SameLedger
    BY <2>1, <2>2
    DEF Next, OpenScope, SameLedger, SameSettlements, SameCaptures, Settlement, BodiesOf,
        Captures
  <2>4. UNCHANGED <<host, checkpoint, worldVars>> BY <1>3 DEF OpenRun
  <2>5. QED BY <2>3, <2>4, SameHostStep
<1>4. ASSUME NEW e \in Episodes, Resume(e) PROVE [Next]_vars /\ EpisodeInv'
  BY <1>4, ResumeStep, UnchangedLedger DEF Resume
<1>5. ASSUME NEW o \in OpIds, Reconcile(o) PROVE [Next]_vars /\ EpisodeInv'
  BY <1>5, ReconcileStep
<1>6. ASSUME NEW o \in OpIds, Execute(o) \/ Lose(o) PROVE [Next]_vars /\ EpisodeInv'
  BY <1>6, WorldStep, UnchangedLedger DEF Execute, Lose
<1>7. CASE \/ ReceiptUnread \/ Refused \/ Invoke \/ Work \/ BudgetExceeded \/ BoundaryRaises
           \/ SaveCheckpoint \/ Return \/ Crash
  <2>1. UNCHANGED vars
    BY <1>7 DEF ReceiptUnread, Refused, Invoke, Work, BudgetExceeded, BoundaryRaises, SaveCheckpoint,
                Return, Crash
  <2>2. QED BY <1>7, <2>1, QuietStep, UnchangedLedger
<1>8. CASE Send \/ Observe
  BY <1>8, SendStep, ObserveStep, UnchangedLedger DEF Send, Observe
<1>9. CASE OpenJournal \/ CaptureRequest \/ ReserveAttempt \/ BeginAttempt
           \/ CompleteAttempt \/ Finish
  BY <1>9, OpenJournalStep, CaptureStep, ReserveStep, BeginStep, CompleteStep, FinishStep
<1>10. QED
  BY <1>1, <1>2, <1>3, <1>4, <1>5, <1>6, <1>7, <1>8, <1>9
  DEF EpisodeNext, HostStep, episodeVars

LEMMA EpisodeInvariant == EpisodeSpec => [](LedgerInv /\ EpisodeInv)
<1>1. LedgerInv /\ EpisodeInv /\ [EpisodeNext]_episodeVars => (LedgerInv /\ EpisodeInv)'
  BY EpisodeStep, LedgerStep
<1>2. QED BY <1>1, EpisodeStart, PTL DEF EpisodeSpec

(* Whatever episodes do to it, the ledger is the one module Ledger         *)
(* describes: what is proved of that one holds here.                       *)
THEOREM EpisodesUseTheLedger == EpisodeSpec => Spec /\ []LedgerInv
<1>1. EpisodeInit => Init BY DEF EpisodeInit
<1>2. LedgerInv /\ EpisodeInv /\ [EpisodeNext]_episodeVars => [Next]_vars
  BY EpisodeStep
<1>3. QED BY <1>1, <1>2, EpisodeInvariant, PTL DEF EpisodeSpec, Spec

(* A resumed episode never conflicts with what earlier hosts recorded, for *)
(* any number of episodes, attempts and crashes.                           *)
THEOREM ReplaysDoNotConflict == EpisodeSpec => []ReplayNeverConflicts
<1>1. LedgerInv /\ EpisodeInv => ReplayNeverConflicts
  <2> SUFFICES ASSUME LedgerInv, EpisodeInv PROVE ReplayNeverConflicts
    OBVIOUS
  <2>1. CASE At("down") BY <2>1 DEF ReplayNeverConflicts, At
  <2>2. CASE ~At("down")
    <3>1. PICK e \in Episodes, s \in Seq(Results) : host.episode = e /\ host.seen = s
      BY <2>2, AtWork
    <3> DEFINE o == Attempt(e, s)
    <3>2. /\ Working(e, s) /\ Replayed(e, s)
          /\ ~Ended(s) => o \in Slots /\ o[1] = e
          /\ Attempting => ~Ended(s)
      BY <2>2, <3>1, AtWork
    <3>3. ASSUME ~Ended(s), NEW b \in BodiesOf(RequestRecord(o)) PROVE b = s
      <4>1. Replayed(e, b) /\ Attempt(e, b) = o /\ Agree(s, b)
        BY <3>2, <3>3 DEF EpisodeInv, CapturesAreReplays, HostReplays
      <4>2. QED BY <3>2, <4>1, SameAttempt
    <3>4. ASSUME Ended(s), NEW b \in BodiesOf(FinishedRecord(e)) PROVE b = s
      <4>1. Replayed(e, b) /\ Ended(b) /\ Agree(s, b)
        BY <3>2, <3>4 DEF EpisodeInv, CapturesAreReplays, HostReplays
      <4>2. QED BY <3>2, <3>4, <4>1, SameAttempt
    <3> DEFINE request == AttemptRequest(e, s)
    <3>5. request.id = o /\ request.body = s /\ request = [id |-> o, body |-> s]
      BY DEF AttemptRequest
    <3>6. ASSUME ~Ended(s), Reserved(o) PROVE Names(request)
      <4>1. operations[o].request.id = o /\ operations[o].request \in Request
        BY <3>6 DEF LedgerInv, TypeOK, RowsLoad, Operation, Reserved
      <4>2. operations[o].request.body = s
        BY <3>3, <3>6 DEF EpisodeInv, RowsAreAttempts, Reserved
      <4>3. operations[o].request = request BY <3>5, <4>1, <4>2 DEF Request
      <4>4. QED BY <3>5, <3>6, <4>3 DEF Names
    <3> HIDE DEF o, request
    <3>7. ~Ended(s) => RecordedAs(RequestRecord(o), s)
      BY <3>3 DEF RecordedAs, BodiesOf
    <3>8. Ended(s) => RecordedAs(FinishedRecord(e), s)
      BY <3>4 DEF RecordedAs, BodiesOf
    <3>9. At("reserve") => ~Ended(s) BY <3>2 DEF At, Attempting
    <3>10. QED
      BY <3>1, <3>5, <3>6, <3>7, <3>8, <3>9 DEF ReplayNeverConflicts, request
  <2>3. QED BY <2>1, <2>2
<1>2. QED BY <1>1, EpisodeInvariant, PTL

(* A finished checkpoint is never ahead of the receipt, and an episode     *)
(* with a receipt has nothing unsettled, whatever is killed in between.    *)
THEOREM FinishedStaysFinal == EpisodeSpec => []FinishedIsFinal
<1>1. EpisodeInv => FinishedIsFinal
  BY RecordedBodies DEF EpisodeInv, FinishedMatches, FinishedIsFinal
<1>2. QED BY <1>1, EpisodeInvariant, PTL

-----------------------------------------------------------------------------
(* Attempts without a receipt.                                             *)

(* Steps that settle nothing, dispatch nothing and start no waiting. *)
LEMMA AbandonedKept ==
    ASSUME NEW o \in OpIds, Abandoned(o), UNCHANGED <<dispatched, completions>>,
           DOMAIN operations \subseteq DOMAIN operations',
           \/ UNCHANGED host
           \/ host'.pc \notin {"send", "wait"}
           \/ At("send") /\ host'.episode = host.episode /\ host'.seen = host.seen
    PROVE  Abandoned(o)'
BY DEF Abandoned, Unknown, Completed, Reserved, Waiting, At

LEMMA AbandonedStep ==
    ASSUME LedgerInv, EpisodeInv, [EpisodeNext]_episodeVars, NEW o \in OpIds, Abandoned(o)
    PROVE  Abandoned(o)'
<1>1. Unknown(o) /\ o[2] \notin Receipted /\ ~Waiting(o) BY DEF Abandoned
<1>2. host.episode \in Episodes \cup {"none"} /\ host = [host EXCEPT !.pc = host.pc]
      /\ DOMAIN host = {"pc", "episode", "seen", "todo"}
  BY DEF EpisodeInv, EpisodeTypeOK
<1>3. CASE UNCHANGED episodeVars
  BY <1>3, AbandonedKept DEF episodeVars, vars
<1>4. CASE NewSession \/ \E e \in Episodes : OpenRun(e)
  BY <1>4, AbandonedKept DEF NewSession, OpenRun, StartSession, OpenScope
<1>5. CASE \E p \in OpIds : Execute(p) \/ Lose(p)
  BY <1>5, AbandonedKept DEF Execute, Lose, vars
<1>6. CASE \/ ReceiptUnread \/ Refused \/ Invoke \/ Work \/ BudgetExceeded \/ BoundaryRaises
           \/ Observe \/ SaveCheckpoint \/ Return \/ Crash \/ \E e \in Episodes : Resume(e)
  <2>1. UNCHANGED <<dispatched, completions>> /\ DOMAIN operations \subseteq DOMAIN operations'
    BY <1>6 DEF ReceiptUnread, Refused, Invoke, Work, BudgetExceeded, BoundaryRaises, Observe,
                SaveCheckpoint, Return, Crash, Resume, vars
  <2>2. host'.pc \notin {"send", "wait"}
    <3>1. CASE Invoke \/ Work \/ SaveCheckpoint
      BY <1>2, <3>1 DEF Invoke, Work, SaveCheckpoint, GoTo
    <3>2. CASE Observe
      <4>1. Stop \/ \E s : host' = [host EXCEPT !.pc = "attempt", !.seen = s]
        BY <3>2, Zenon DEF Observe
      <4>2. CASE Stop BY <4>2 DEF Stop, Down
      <4>3. ASSUME NEW s, host' = [host EXCEPT !.pc = "attempt", !.seen = s]
            PROVE  host'.pc = "attempt"
        BY <1>2, <4>3
      <4>4. QED BY <4>1, <4>2, <4>3
    <3>3. CASE \E e \in Episodes : Resume(e) BY <3>3 DEF Resume
    <3>4. CASE ReceiptUnread \/ Refused \/ BudgetExceeded \/ BoundaryRaises \/ Return \/ Crash
      BY <3>4 DEF ReceiptUnread, Refused, BudgetExceeded, BoundaryRaises, Return, Crash, Stop,
                  Down
    <3>5. QED BY <1>6, <3>1, <3>2, <3>3, <3>4
  <2>3. QED BY <2>1, <2>2, AbandonedKept
<1>7. CASE Send
  BY <1>2, <1>7, AbandonedKept DEF Send, GoTo, vars
<1>8. CASE OpenJournal \/ CaptureRequest \/ ReserveAttempt \/ Finish
  <2>1. UNCHANGED <<dispatched, completions>> /\ DOMAIN operations \subseteq DOMAIN operations'
    BY <1>8 DEF OpenJournal, CaptureRequest, ReserveAttempt, Finish, RecordOnce, Record,
                Reserve, With, vars
  <2>2. host'.pc \notin {"send", "wait"}
    BY <1>2, <1>8 DEF OpenJournal, CaptureRequest, ReserveAttempt, Finish, GoTo
  <2>3. QED BY <2>1, <2>2, AbandonedKept
<1> DEFINE mine == Attempt(host.episode, host.seen)
<1>9. AttemptRequest(host.episode, host.seen).id = mine BY DEF AttemptRequest
<1>10. CASE BeginAttempt
  <2>1. PICK s \in sessions : Begin(s, AttemptRequest(host.episode, host.seen))
    BY <1>10 DEF BeginAttempt
  <2>2. Pending(mine) /\ dispatched' = dispatched \cup {mine} /\ completions' = completions
        /\ operations' = operations
    BY <1>9, <2>1 DEF Begin
  <2>3. o # mine BY <1>1, <2>2 DEF Pending, Unknown
  <2>4. host'.episode = host.episode /\ host'.seen = host.seen
    BY <1>2, <1>10 DEF BeginAttempt, GoTo
  <2>5. ~Waiting(o)' BY <2>3, <2>4 DEF Waiting
  <2>6. QED BY <1>1, <2>2, <2>5 DEF Abandoned, Unknown, Completed, Reserved
<1>11. CASE CompleteAttempt
  <2>1. PICK s \in sessions :
          Complete(s, AttemptRequest(host.episode, host.seen), answers[mine].result,
                   answers[mine].raw)
    BY <1>11 DEF CompleteAttempt
  <2>2. /\ UNCHANGED <<operations, dispatched>>
        /\ DOMAIN completions' = DOMAIN completions \cup {mine}
    BY <1>9, <2>1 DEF Complete, Settle, With
  <2>3. o # mine BY <1>1, <1>11 DEF Waiting, CompleteAttempt
  <2>4. host'.pc = "observe" BY <1>2, <1>11 DEF CompleteAttempt, GoTo
  <2>5. ~Waiting(o)' BY <2>4 DEF Waiting, At
  <2>6. QED BY <1>1, <2>2, <2>3, <2>5 DEF Abandoned, Unknown, Completed, Reserved
<1>12. ASSUME NEW p \in OpIds, Reconcile(p) PROVE Abandoned(o)'
  <2>1. At("reconcile") /\ p \in host.todo /\ host' = [host EXCEPT !.todo = host.todo \ {p}]
    BY <1>12 DEF Reconcile
  <2>2. host'.pc = "reconcile" BY <1>2, <2>1 DEF At
  <2>3. CASE p \notin Receipts
    BY <1>12, <2>2, <2>3, AbandonedKept DEF Reconcile, vars
  <2>4. CASE p \in Receipts
    <3>1. o # p BY <1>1, <2>4 DEF Receipts
    <3>2. p \in DOMAIN operations BY <2>1 DEF EpisodeInv, RowsAreAttempts
    <3>3. operations[p].request.id = p
      BY <3>2 DEF LedgerInv, TypeOK, RowsLoad, Operation
    <3>4. PICK s \in sessions :
            Complete(s, operations[p].request, answers[p].result, answers[p].raw)
      BY <1>12, <2>4 DEF Reconcile
    <3>5. /\ UNCHANGED <<operations, dispatched>>
          /\ DOMAIN completions' = DOMAIN completions \cup {p}
      BY <3>3, <3>4 DEF Complete, Settle, With
    <3>6. ~Waiting(o)' BY <2>2 DEF Waiting, At
    <3>7. QED BY <1>1, <3>1, <3>5, <3>6 DEF Abandoned, Unknown, Completed, Reserved
  <2>5. QED BY <2>3, <2>4
<1>13. QED
  BY <1>3, <1>4, <1>5, <1>6, <1>7, <1>8, <1>10, <1>11, <1>12 DEF EpisodeNext, HostStep

(* An attempt of a kind that has no receipts, once nobody waits for it, is *)
(* never settled or waited for again, through any crashes and resumes.     *)
THEOREM AbandonedAttemptsStay == EpisodeSpec => AbandonedStays
<1>1. LedgerInv /\ EpisodeInv /\ [EpisodeNext]_episodeVars
        => [\A o \in OpIds : Abandoned(o) => Abandoned(o)']_episodeVars
  BY AbandonedStep
<1>2. QED BY <1>1, EpisodeInvariant, PTL DEF EpisodeSpec, AbandonedStays

-----------------------------------------------------------------------------
(* The refinement of module Attempts.                                      *)

LEMMA AbstractStart == EpisodeInit => Abstract!AttemptsInit
<1> SUFFICES ASSUME EpisodeInit PROVE Abstract!AttemptsInit OBVIOUS
<1>1. \A o \in OpIds : Phase(o) = "none"
  BY DEF EpisodeInit, Init, Phase, Completed, Unknown, Reserved
<1>2. DOMAIN completions = {} /\ answers = [o \in {} |-> {}] /\ effects = [o \in OpIds |-> 0]
  BY DEF EpisodeInit, Init
<1>3. QED BY <1>1, <1>2 DEF Abstract!AttemptsInit

(* A step changes the ledger or the world, never both. *)
LEMMA LedgerOrWorld ==
    ASSUME [EpisodeNext]_episodeVars
    PROVE  \/ UNCHANGED <<answers, effects>>
           \/ UNCHANGED vars /\ \E o \in OpIds : Execute(o)
BY DEF EpisodeNext, HostStep, episodeVars, worldVars, NewSession, OpenRun, Resume, Reconcile,
       ReceiptUnread, Refused, OpenJournal, Invoke, Work, CaptureRequest, ReserveAttempt, BudgetExceeded,
       BeginAttempt, Send, CompleteAttempt, BoundaryRaises, Observe, Finish, SaveCheckpoint,
       Return, Crash, Execute, Lose

LEMMA AbstractStep ==
    ASSUME LedgerInv, EpisodeInv, [EpisodeNext]_episodeVars
    PROVE  [Abstract!AttemptsNext]_Abstract!attemptsVars
<1> DEFINE phase == [o \in OpIds |-> Phase(o)]
           settlement == [o \in DOMAIN completions |-> Settlement(o)]
           same == settlement' = settlement
<1>1. [Next]_vars /\ EpisodeInv' /\ LedgerInv' BY EpisodeStep, LedgerStep
<1>2. SameSettlements => same BY DEF SameSettlements
<1>3. CASE UNCHANGED vars /\ \E o \in OpIds : Execute(o)
  <2>1. PICK o \in OpIds : Execute(o) BY <1>3
  <2>2. PICK a \in Answers(o) : answers' = With(answers, o, a) BY <2>1 DEF Execute
  <2>3. /\ o \in wire /\ effects' = [effects EXCEPT ![o] = effects[o] + 1]
    BY <2>1 DEF Execute
  <2>4. o \in dispatched /\ o \notin DOMAIN answers /\ effects[o] = 0
    BY <2>3 DEF EpisodeInv, WorldMatches
  <2>5. o \in DOMAIN operations /\ o \notin DOMAIN completions
    BY <2>4 DEF LedgerInv, TypeOK, EpisodeInv, WorldMatches
  <2>6. Phase(o) = "dispatched" BY <2>4, <2>5 DEF Phase, Completed, Unknown, Reserved
  <2>7. (\A p : Phase(p)' = Phase(p)) /\ SameSettlements
    BY <1>3 DEF vars, SameSettlements, Settlement, Phase, Completed, Unknown, Reserved
  <2>8. effects' = [effects EXCEPT ![o] = 1] BY <2>3, <2>4
  <2>9. /\ DOMAIN answers' = DOMAIN answers \cup {o}
        /\ Abstract!Restrict(answers', DOMAIN answers) = answers
    <3>1. /\ DOMAIN answers' = DOMAIN answers \cup {o}
          /\ \A p \in DOMAIN answers : answers'[p] = answers[p]
      BY <2>2, <2>4 DEF With
    <3>2. answers = [p \in DOMAIN answers |-> answers[p]]
      BY DEF EpisodeInv, EpisodeTypeOK
    <3>3. QED BY <3>1, <3>2 DEF Abstract!Restrict
  <2>10. phase' = phase /\ same BY <1>2, <2>7
  <2>11. Abstract!Perform(o)
    BY <2>4, <2>6, <2>8, <2>9, <2>10 DEF Abstract!Perform
  <2>12. QED BY <2>11 DEF Abstract!AttemptsNext
<1>4. CASE UNCHANGED <<answers, effects>>
  <2>1. CASE (\A o \in OpIds : Phase(o)' = Phase(o)) /\ SameSettlements
    <3>1. phase' = phase /\ same BY <1>2, <2>1
    <3>2. QED BY <1>4, <3>1 DEF Abstract!attemptsVars
  <2>2. ASSUME NEW o \in OpIds, Moves(o, "none", "reserved"), SameSettlements
        PROVE  Abstract!Reserve(o)
    <3>1. phase[o] = "none" /\ phase' = [phase EXCEPT ![o] = "reserved"] /\ same
      BY <1>2, <2>2 DEF Moves
    <3>2. QED BY <1>4, <3>1 DEF Abstract!Reserve
  <2>3. ASSUME NEW o \in OpIds, Moves(o, "reserved", "dispatched"), SameSettlements,
               Unblocked(operations[o].scope)
        PROVE  Abstract!Dispatch(o)
    <3>1. phase[o] = "reserved" /\ phase' = [phase EXCEPT ![o] = "dispatched"] /\ same
      BY <1>2, <2>3 DEF Moves
    <3>2. o \in DOMAIN operations
      BY <2>3 DEF Moves, Phase, Completed, Unknown, Reserved
    <3>3. ASSUME NEW p \in OpIds, Phase(p) = "dispatched"
          PROVE  ScopeOf[p[1]] \notin {ScopeOf[o[1]], Root}
      <4>1. Unknown(p) /\ p \in DOMAIN operations
        BY <3>3 DEF Phase, Completed, Unknown, Reserved
      <4>2. ~In(p, operations[o].scope) BY <2>3, <4>1 DEF Unblocked
      <4>3. operations[p].scope = ScopeOf[p[1]] /\ operations[o].scope = ScopeOf[o[1]]
        BY <3>2, <4>1 DEF EpisodeInv, RowsAreAttempts
      <4>4. QED BY <4>2, <4>3 DEF In
    <3>4. \A p \in OpIds : ~Abstract!Contends(p, o)
      BY <3>3 DEF Abstract!Contends
    <3>5. QED BY <1>4, <3>1, <3>4 DEF Abstract!Dispatch
  <2>4. ASSUME NEW o \in OpIds, Moves(o, "dispatched", "settled"), MoreSettlements(o)
        PROVE  Abstract!Settle(o)
    <3>1. phase[o] = "dispatched" /\ phase' = [phase EXCEPT ![o] = "settled"]
      BY <2>4 DEF Moves
    <3>2. /\ DOMAIN settlement' = DOMAIN settlement \cup {o}
          /\ Abstract!Restrict(settlement', DOMAIN settlement) = settlement
      BY <2>4 DEF MoreSettlements, Abstract!Restrict
    <3>3. o \in DOMAIN completions' BY <2>4 DEF MoreSettlements
    <3>4. o \in DOMAIN answers /\ settlement'[o] = answers[o]
      BY <1>1, <1>4, <3>3 DEF EpisodeInv, WorldMatches
    <3>5. settlement'[o] \in Abstract!Settlements(o)
      BY <3>4 DEF Abstract!Settlements
    <3>6. QED BY <1>4, <3>1, <3>2, <3>5 DEF Abstract!Settle
  <2>5. QED BY <1>1, <2>1, <2>2, <2>3, <2>4, PhaseStep DEF Abstract!AttemptsNext
<1>5. QED BY <1>3, <1>4, LedgerOrWorld

(* The host, its ledger and the service together implement module          *)
(* Attempts, for any number of episodes, attempts, crashes and lost or     *)
(* late requests.                                                          *)
THEOREM EpisodesImplementAttempts == EpisodeSpec => ImplementsAttempts
<1>1. LedgerInv /\ EpisodeInv /\ [EpisodeNext]_episodeVars
        => [Abstract!AttemptsNext]_Abstract!attemptsVars
  BY AbstractStep
<1>2. QED
  BY <1>1, AbstractStart, EpisodeInvariant, PTL
  DEF EpisodeSpec, ImplementsAttempts, Abstract!AttemptsSpec
=============================================================================
