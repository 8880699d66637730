---------------------------- MODULE LedgerProofs ----------------------------
(* Proofs about Ledger, for every value of its constants. *)
EXTENDS Records, FiniteSetTheorems, FunctionTheorems, TLAPS

-----------------------------------------------------------------------------
(* The token count Total behaves like a sum.                               *)

(* A function with finitely many arguments has finitely many tokens. *)
LEMMA TokensFinite ==
    ASSUME NEW S, IsFiniteSet(S), NEW f \in [S -> Nat]
    PROVE  IsFiniteSet(Tokens(f)) /\ Total(f) \in Nat
<1> DEFINE column == [x \in S |-> {x} \X (1..f[x])]
           columns == {{x} \X (1..f[x]) : x \in S}
<1>1. column \in Surjection(S, columns)
  BY DEF Surjection
<1>2. IsFiniteSet(columns)
  BY <1>1, FS_Surjection
<1>3. ASSUME NEW x \in S PROVE IsFiniteSet({x} \X (1..f[x]))
  <2>1. IsFiniteSet({x}) BY FS_Singleton
  <2>2. IsFiniteSet(1..f[x])
    <3>1. f[x] \in Int OBVIOUS
    <3>2. QED BY <3>1, FS_Interval
  <2>3. QED BY <2>1, <2>2, FS_Product
<1>4. \A T \in columns : IsFiniteSet(T) BY <1>3
<1>5. IsFiniteSet(UNION columns) BY <1>2, <1>4, FS_UNION
<1>6. Tokens(f) = UNION columns BY DEF Tokens
<1>7. QED BY <1>5, <1>6, FS_CardinalityType DEF Total

(* The tokens of one argument, and the tokens of all the others. *)
LEMMA TotalSplit ==
    ASSUME NEW S, IsFiniteSet(S), NEW f \in [S -> Nat], NEW x \in S
    PROVE  LET rest == {t \in Tokens(f) : t[1] # x}
           IN  /\ IsFiniteSet(rest)
               /\ Cardinality(rest) \in Nat
               /\ Total(f) = Cardinality(rest) + f[x]
<1> DEFINE rest == {t \in Tokens(f) : t[1] # x}
           column == {x} \X (1..f[x])
<1>1. IsFiniteSet(Tokens(f)) BY TokensFinite
<1>2. IsFiniteSet(rest) /\ Cardinality(rest) \in Nat
  <2>1. rest \in SUBSET Tokens(f) OBVIOUS
  <2>2. IsFiniteSet(rest) BY <1>1, <2>1, FS_Subset
  <2>3. QED BY <2>2, FS_CardinalityType
<1>3. IsFiniteSet(column) /\ Cardinality(column) = f[x]
  <2>1. IsFiniteSet({x}) /\ Cardinality({x}) = 1 BY FS_Singleton
  <2>2. f[x] \in Nat OBVIOUS
  <2>3. IsFiniteSet(1..f[x]) /\ Cardinality(1..f[x]) = f[x]
    BY <2>2, FS_Interval
  <2>4. IsFiniteSet(column)
        /\ Cardinality(column) = Cardinality({x}) * Cardinality(1..f[x])
    BY <2>1, <2>3, FS_Product
  <2>5. QED BY <2>1, <2>2, <2>3, <2>4
<1>4. Tokens(f) = rest \cup column
  <2>1. ASSUME NEW t \in Tokens(f) PROVE t \in rest \cup column
    BY <2>1 DEF Tokens
  <2>2. ASSUME NEW t \in column PROVE t \in Tokens(f)
    BY <2>2 DEF Tokens
  <2>3. QED BY <2>1, <2>2
<1>5. rest \cap column = {}
  OBVIOUS
<1>6. Cardinality(rest \cup column)
        = Cardinality(rest) + Cardinality(column) - Cardinality(rest \cap column)
  BY <1>2, <1>3, FS_Union
<1>7. Cardinality(rest \cap column) = 0 BY <1>5, FS_EmptySet
<1>8. f[x] \in Nat OBVIOUS
<1> HIDE DEF rest, column
<1>9. Total(f) = Cardinality(rest) + f[x]
  BY <1>2, <1>3, <1>4, <1>6, <1>7, <1>8 DEF Total
<1>10. QED BY <1>2, <1>9 DEF rest

(* Functions that differ in one argument differ by that in their totals. *)
LEMMA TotalUpdate ==
    ASSUME NEW S, IsFiniteSet(S), NEW f \in [S -> Nat], NEW g \in [S -> Nat],
           NEW x \in S, \A y \in S \ {x} : g[y] = f[y]
    PROVE  Total(g) = Total(f) - f[x] + g[x]
<1> DEFINE restf == {t \in Tokens(f) : t[1] # x}
           restg == {t \in Tokens(g) : t[1] # x}
<1>1. restf = restg
  <2>1. ASSUME NEW t \in restf PROVE t \in restg BY <2>1 DEF Tokens
  <2>2. ASSUME NEW t \in restg PROVE t \in restf BY <2>2 DEF Tokens
  <2>3. QED BY <2>1, <2>2
<1>2. Cardinality(restf) \in Nat /\ Total(f) = Cardinality(restf) + f[x]
  BY TotalSplit
<1>3. Total(g) = Cardinality(restg) + g[x]
  BY TotalSplit
<1>4. f[x] \in Nat /\ g[x] \in Nat OBVIOUS
<1> HIDE DEF restf, restg
<1>5. QED BY <1>1, <1>2, <1>3, <1>4

(* Nothing adds up to nothing. *)
LEMMA TotalZero ==
    ASSUME NEW S, NEW f \in [S -> Nat], \A x \in S : f[x] = 0
    PROVE  Total(f) = 0
<1>1. Tokens(f) = {}
  BY DEF Tokens
<1>2. QED BY <1>1, FS_EmptySet DEF Total

-----------------------------------------------------------------------------
(* Type correctness.                                                       *)

(* Every step of the ledger leaves rows of the declared types. *)
LEMMA TypeStep ==
    ASSUME TypeOK, [Next]_vars
    PROVE  TypeOK'
<1> USE DEF TypeOK, Request, Origin, Result, Operation,
                 Completion, Observation
<1>1. ASSUME NEW s \in Sessions, StartSession(s) PROVE TypeOK'
  BY <1>1 DEF StartSession
<1>2. ASSUME NEW s \in Sessions, NEW sc \in Scopes, NEW caps \in CapChoices,
             OpenScope(s, sc, caps)
      PROVE  TypeOK'
  BY <1>2 DEF OpenScope, With
<1>3. ASSUME NEW s \in Sessions, NEW origin \in Origin, NEW raw \in Raw,
             NEW n \in 0..Len(history), Record(s, origin, raw, n)
      PROVE  TypeOK'
  BY <1>3 DEF Record
<1>4. ASSUME NEW s \in Sessions, NEW request \in Request,
             NEW reservation \in Reservations, NEW sc \in Scopes \cup {Root},
             Reserve(s, request, reservation, sc)
      PROVE  TypeOK'
  BY <1>4 DEF Reserve, With, Reserved
<1>5. ASSUME NEW s \in Sessions, NEW request \in Request, Begin(s, request)
      PROVE  TypeOK'
  BY <1>5 DEF Begin, Pending, Reserved
<1>6. ASSUME NEW s \in Sessions, NEW request \in Request, NEW raw \in Raw,
             NEW result \in Result, Complete(s, request, result, raw)
      PROVE  TypeOK'
  <2>1. Breaches(operations[request.id].reservation, result.usage)
          \in SUBSET Units
    BY LedgerAssumption DEF Breaches, IsAmounts
  <2>2. QED BY <1>6, <2>1 DEF Complete, Settle, With, Unknown, Reserved
<1>7. CASE UNCHANGED vars
  BY <1>7 DEF vars
<1>8. QED BY <1>1, <1>2, <1>3, <1>4, <1>5, <1>6, <1>7 DEF Next

(* Type correctness: whatever calls a host makes, in any order, every      *)
(* stored row has the columns its dataclass declares.                      *)
THEOREM TypeCorrect == Spec => []TypeOK
<1>1. Init => TypeOK
  BY DEF Init, TypeOK
<1>2. QED BY <1>1, TypeStep, PTL DEF Spec

-----------------------------------------------------------------------------
(* The inductive invariant: the properties of Ledger together.  The        *)
(* accounting bounds need RowsLoad (a scope not yet recorded holds         *)
(* nothing); one breach per scope needs that a breached scope has nothing  *)
(* in flight, which needs that a scope has one operation in flight.        *)
LedgerInv ==
    /\ TypeOK
    /\ RowsLoad
    /\ ProjectWithinAllowance
    /\ ScopesWithinCaps
    /\ OneUnknownPerScope
    /\ OneBreachPerScope
    /\ BreachStopsScope

(* Every balance is a sum of naturals over the operation ids. *)
ChargesTyped ==
    \A u \in Units :
        /\ Limit(u) \in Nat
        /\ Charges(u) \in [OpIds -> Nat]
        /\ Overruns(u) \in [OpIds -> Nat]
        /\ Total(Charges(u)) \in Nat
        /\ Total(Overruns(u)) \in Nat
        /\ \A sc \in Scopes :
             /\ ScopeLimit(sc, u) \in Nat
             /\ ScopeCharges(sc, u) \in [OpIds -> Nat]
             /\ ScopeOverruns(sc, u) \in [OpIds -> Nat]
             /\ Total(ScopeCharges(sc, u)) \in Nat
             /\ Total(ScopeOverruns(sc, u)) \in Nat

(* TypeOK is enough for that. *)
LEMMA ChargeTypes == TypeOK => ChargesTyped
<1> SUFFICES ASSUME TypeOK, NEW u \in Units
             PROVE  /\ Limit(u) \in Nat
                    /\ Charges(u) \in [OpIds -> Nat]
                    /\ Overruns(u) \in [OpIds -> Nat]
                    /\ Total(Charges(u)) \in Nat
                    /\ Total(Overruns(u)) \in Nat
                    /\ \A sc \in Scopes :
                         /\ ScopeLimit(sc, u) \in Nat
                         /\ ScopeCharges(sc, u) \in [OpIds -> Nat]
                         /\ ScopeOverruns(sc, u) \in [OpIds -> Nat]
                         /\ Total(ScopeCharges(sc, u)) \in Nat
                         /\ Total(ScopeOverruns(sc, u)) \in Nat
  BY DEF ChargesTyped
<1>1. Limit(u) \in Nat
  BY LedgerAssumption DEF Limit, Amount, Declared
<1>2. ASSUME NEW map, IsAmounts(map, Units) \/ IsAmounts(map, Declared)
      PROVE  Amount(map, u) \in Nat
  BY <1>2 DEF Amount, IsAmounts
<1>3. \A o \in DOMAIN operations :
         Amount(operations[o].reservation, u) \in Nat
  BY <1>2, LedgerAssumption DEF TypeOK, Operation
<1>4. \A o \in DOMAIN completions :
         Amount(completions[o].result.usage, u) \in Nat
  BY <1>2, LedgerAssumption DEF TypeOK, Completion, Result
<1>5. \A o \in OpIds : Charge(o, u) \in Nat /\ Overrun(o, u) \in Nat
  BY <1>3, <1>4 DEF Charge, Overrun, TypeOK, Completed, Reserved
<1>6. Charges(u) \in [OpIds -> Nat] /\ Overruns(u) \in [OpIds -> Nat]
  BY <1>5 DEF Charges, Overruns
<1>7. ASSUME NEW sc \in Scopes
      PROVE  /\ ScopeLimit(sc, u) \in Nat
             /\ ScopeCharges(sc, u) \in [OpIds -> Nat]
             /\ ScopeOverruns(sc, u) \in [OpIds -> Nat]
  <2>1. ScopeLimit(sc, u) \in Nat
    BY <1>1, LedgerAssumption DEF ScopeLimit, TypeOK, IsAmounts
  <2>2. QED BY <1>5, <2>1 DEF ScopeCharges, ScopeOverruns
<1>8. QED BY <1>1, <1>6, <1>7, TokensFinite, LedgerAssumption

(* The same of the state a step leads to. *)
LEMMA ChargeTypesNext == TypeOK' => ChargesTyped'
BY ChargeTypes, PTL

(* A step that leaves the operation rows alone leaves every charge alone. *)
LEMMA ChargesUnchanged ==
    ASSUME UNCHANGED <<operations, completions>>, NEW u
    PROVE  /\ Charges(u)' = Charges(u)
           /\ Overruns(u)' = Overruns(u)
           /\ \A sc : /\ ScopeCharges(sc, u)' = ScopeCharges(sc, u)
                       /\ ScopeOverruns(sc, u)' = ScopeOverruns(sc, u)
BY DEF Charges, Overruns, ScopeCharges, ScopeOverruns, Charge, Overrun,
       Completed, Reserved

(* Reserving adds the reservation to one charge and overruns nothing. *)
LEMMA ReserveCharges ==
    ASSUME TypeOK, TypeOK', NEW s, NEW request \in Request,
           NEW reservation \in Reservations, NEW sc \in Scopes \cup {Root},
           Reserve(s, request, reservation, sc), NEW u \in Units
    PROVE  /\ Total(Charges(u))' = Total(Charges(u)) + Amount(reservation, u)
           /\ Total(Overruns(u))' = Total(Overruns(u))
           /\ \A d \in Scopes :
                /\ Total(ScopeCharges(d, u))' =
                     Total(ScopeCharges(d, u))
                       + (IF d = sc THEN Amount(reservation, u) ELSE 0)
                /\ Total(ScopeOverruns(d, u))' = Total(ScopeOverruns(d, u))
<1> DEFINE id == request.id
<1>1. id \in OpIds BY DEF Request
<1>2. /\ Charges(u) \in [OpIds -> Nat]
      /\ Overruns(u) \in [OpIds -> Nat]
      /\ Total(Charges(u)) \in Nat
      /\ \A d \in Scopes : /\ ScopeCharges(d, u) \in [OpIds -> Nat]
                            /\ Total(ScopeCharges(d, u)) \in Nat
                            /\ ScopeOverruns(d, u) \in [OpIds -> Nat]
  BY ChargeTypes DEF ChargesTyped
<1>3. /\ Charges(u)' \in [OpIds -> Nat]
      /\ \A d \in Scopes : ScopeCharges(d, u)' \in [OpIds -> Nat]
  BY ChargeTypesNext DEF ChargesTyped
<1>4. id \notin DOMAIN operations /\ id \notin DOMAIN completions
  BY DEF Reserve, Reserved, TypeOK
<1>5. /\ operations' = With(operations, id, [request |-> request, scope |-> sc,
                                             reservation |-> reservation])
      /\ completions' = completions
  BY DEF Reserve
<1>6. /\ Charge(id, u) = 0
      /\ Charge(id, u)' = Amount(reservation, u)
      /\ \A o \in OpIds \ {id} : Charge(o, u)' = Charge(o, u)
  BY <1>4, <1>5 DEF Charge, Completed, Reserved, With
<1>7. \A o \in OpIds : Overrun(o, u)' = Overrun(o, u)
  BY <1>4, <1>5 DEF Overrun, Completed, With, TypeOK
<1>8. Overrun(id, u) = 0
  BY <1>4 DEF Overrun, Completed
<1>9. /\ Reserved(id)' /\ operations'[id].scope = sc
      /\ ~Reserved(id)
      /\ \A o \in OpIds \ {id} :
            /\ Reserved(o)' <=> Reserved(o)
            /\ Reserved(o) => operations'[o] = operations[o]
  BY <1>4, <1>5 DEF Reserved, With
<1>10. Amount(reservation, u) \in Nat
  BY LedgerAssumption DEF Amount, IsAmounts
<1>11. Total(Charges(u))' = Total(Charges(u)) + Amount(reservation, u)
  <2>1. Charges(u)[id] = 0 /\ Charges(u)'[id] = Amount(reservation, u)
    BY <1>1, <1>6 DEF Charges
  <2>2. \A o \in OpIds \ {id} : Charges(u)'[o] = Charges(u)[o]
    BY <1>6 DEF Charges
  <2>3. Total(Charges(u)') = Total(Charges(u)) - Charges(u)[id] + Charges(u)'[id]
    BY <1>1, <1>2, <1>3, <2>2, TotalUpdate, LedgerAssumption
  <2>4. Total(Charges(u))' = Total(Charges(u)') BY DEF Total, Tokens
  <2>5. QED BY <1>2, <1>10, <2>1, <2>3, <2>4
<1>12. Total(Overruns(u))' = Total(Overruns(u))
  <2>1. Overruns(u)' = Overruns(u) BY <1>7 DEF Overruns
  <2>2. QED BY <2>1 DEF Total, Tokens
<1>13. ASSUME NEW d \in Scopes
       PROVE  /\ Total(ScopeCharges(d, u))' =
                   Total(ScopeCharges(d, u))
                     + (IF d = sc THEN Amount(reservation, u) ELSE 0)
              /\ Total(ScopeOverruns(d, u))' = Total(ScopeOverruns(d, u))
  <2>1. /\ ScopeCharges(d, u)[id] = 0
        /\ ScopeCharges(d, u)'[id] = IF d = sc THEN Amount(reservation, u) ELSE 0
    BY <1>1, <1>6, <1>9 DEF ScopeCharges
  <2>2. \A o \in OpIds \ {id} : ScopeCharges(d, u)'[o] = ScopeCharges(d, u)[o]
    BY <1>6, <1>9 DEF ScopeCharges
  <2>3. Total(ScopeCharges(d, u)') =
          Total(ScopeCharges(d, u)) - ScopeCharges(d, u)[id]
            + ScopeCharges(d, u)'[id]
    BY <1>1, <1>2, <1>3, <2>2, TotalUpdate, LedgerAssumption
  <2>4. Total(ScopeCharges(d, u))' = Total(ScopeCharges(d, u)')
    BY DEF Total, Tokens
  <2>5. Total(ScopeCharges(d, u))' =
          Total(ScopeCharges(d, u))
            + (IF d = sc THEN Amount(reservation, u) ELSE 0)
    BY <1>2, <1>10, <2>1, <2>3, <2>4
  <2>6. \A o \in OpIds : ScopeOverruns(d, u)'[o] = ScopeOverruns(d, u)[o]
    BY <1>7, <1>8, <1>9 DEF ScopeOverruns
  <2>7. ScopeOverruns(d, u)' = ScopeOverruns(d, u)
    BY <2>6 DEF ScopeOverruns
  <2>8. QED BY <2>5, <2>7 DEF Total, Tokens
<1>14. QED BY <1>11, <1>12, <1>13

(* Completing may raise what is held only by what it adds to the overruns. *)
LEMMA CompleteCharges ==
    ASSUME TypeOK, TypeOK', NEW s, NEW request \in Request, NEW raw,
           NEW result \in Result, Complete(s, request, result, raw),
           NEW u \in Units
    PROVE  /\ Total(Charges(u))' - Total(Charges(u))
                <= Total(Overruns(u))' - Total(Overruns(u))
           /\ \A d \in Scopes :
                Total(ScopeCharges(d, u))' - Total(ScopeCharges(d, u))
                  <= Total(ScopeOverruns(d, u))' - Total(ScopeOverruns(d, u))
<1> DEFINE id == request.id
           held == Amount(operations[id].reservation, u)
           used == Amount(result.usage, u)
<1>1. id \in OpIds BY DEF Request
<1>2. /\ Charges(u) \in [OpIds -> Nat]
      /\ Overruns(u) \in [OpIds -> Nat]
      /\ Total(Charges(u)) \in Nat
      /\ Total(Overruns(u)) \in Nat
      /\ \A d \in Scopes : /\ ScopeCharges(d, u) \in [OpIds -> Nat]
                            /\ Total(ScopeCharges(d, u)) \in Nat
                            /\ ScopeOverruns(d, u) \in [OpIds -> Nat]
                            /\ Total(ScopeOverruns(d, u)) \in Nat
  BY ChargeTypes DEF ChargesTyped
<1>3. /\ Charges(u)' \in [OpIds -> Nat]
      /\ Overruns(u)' \in [OpIds -> Nat]
      /\ \A d \in Scopes : /\ ScopeCharges(d, u)' \in [OpIds -> Nat]
                            /\ ScopeOverruns(d, u)' \in [OpIds -> Nat]
  BY ChargeTypesNext DEF ChargesTyped
<1>4. id \in DOMAIN operations /\ id \notin DOMAIN completions
  BY DEF Complete, Settle, Unknown, Reserved, Completed
<1>5. /\ operations' = operations
      /\ DOMAIN completions' = DOMAIN completions \cup {id}
      /\ completions'[id].result = result
      /\ \A o \in DOMAIN completions : completions'[o] = completions[o]
  BY <1>4 DEF Complete, Settle, With
<1>6. held \in Nat /\ used \in Nat
  BY <1>4, LedgerAssumption DEF TypeOK, Operation, Result, Amount, IsAmounts
<1>7. /\ Charge(id, u) = held /\ Charge(id, u)' = used
      /\ \A o \in OpIds \ {id} : Charge(o, u)' = Charge(o, u)
  BY <1>4, <1>5 DEF Charge, Completed, Reserved
<1>8. /\ Overrun(id, u) = 0
      /\ Overrun(id, u)' = IF used > held THEN used - held ELSE 0
      /\ \A o \in OpIds \ {id} : Overrun(o, u)' = Overrun(o, u)
  BY <1>4, <1>5 DEF Overrun, Completed
<1> HIDE DEF held, used, id
<1>9. Total(Charges(u))' - Total(Charges(u))
        <= Total(Overruns(u))' - Total(Overruns(u))
  <2>1. Charges(u)[id] = held /\ Charges(u)'[id] = used
    BY <1>1, <1>7 DEF Charges
  <2>2. \A o \in OpIds \ {id} : Charges(u)'[o] = Charges(u)[o]
    BY <1>7 DEF Charges
  <2>3. Total(Charges(u)') = Total(Charges(u)) - Charges(u)[id] + Charges(u)'[id]
    BY <1>1, <1>2, <1>3, <2>2, TotalUpdate, LedgerAssumption, SMTT(30)
  <2>4. /\ Overruns(u)[id] = 0
        /\ Overruns(u)'[id] = IF used > held THEN used - held ELSE 0
    BY <1>1, <1>8 DEF Overruns
  <2>5. \A o \in OpIds \ {id} : Overruns(u)'[o] = Overruns(u)[o]
    BY <1>8 DEF Overruns
  <2>6. Total(Overruns(u)') =
          Total(Overruns(u)) - Overruns(u)[id] + Overruns(u)'[id]
    BY <1>1, <1>2, <1>3, <2>5, TotalUpdate, LedgerAssumption
  <2>7. /\ Total(Charges(u))' = Total(Charges(u)')
        /\ Total(Overruns(u))' = Total(Overruns(u)')
    BY DEF Total, Tokens
  <2>8. QED BY <1>2, <1>6, <2>1, <2>3, <2>4, <2>6, <2>7
<1>10. ASSUME NEW d \in Scopes
       PROVE  Total(ScopeCharges(d, u))' - Total(ScopeCharges(d, u))
                <= Total(ScopeOverruns(d, u))' - Total(ScopeOverruns(d, u))
  <2> DEFINE here == operations[id].scope = d
  <2>1. /\ ScopeCharges(d, u)[id] = IF here THEN held ELSE 0
        /\ ScopeCharges(d, u)'[id] = IF here THEN used ELSE 0
    BY <1>1, <1>4, <1>5, <1>7 DEF ScopeCharges, Reserved, id
  <2>2. \A o \in OpIds \ {id} : ScopeCharges(d, u)'[o] = ScopeCharges(d, u)[o]
    BY <1>5, <1>7 DEF ScopeCharges, Reserved
  <2>3. Total(ScopeCharges(d, u)') =
          Total(ScopeCharges(d, u)) - ScopeCharges(d, u)[id]
            + ScopeCharges(d, u)'[id]
    BY <1>1, <1>2, <1>3, <2>2, TotalUpdate, LedgerAssumption
  <2>4. /\ ScopeOverruns(d, u)[id] = 0
        /\ ScopeOverruns(d, u)'[id] =
             IF here /\ used > held THEN used - held ELSE 0
    BY <1>1, <1>4, <1>5, <1>8 DEF ScopeOverruns, Reserved, id
  <2>5. \A o \in OpIds \ {id} : ScopeOverruns(d, u)'[o] = ScopeOverruns(d, u)[o]
    BY <1>5, <1>8 DEF ScopeOverruns, Reserved
  <2>6. Total(ScopeOverruns(d, u)') =
          Total(ScopeOverruns(d, u)) - ScopeOverruns(d, u)[id]
            + ScopeOverruns(d, u)'[id]
    BY <1>1, <1>2, <1>3, <2>5, TotalUpdate, LedgerAssumption
  <2>7. /\ Total(ScopeCharges(d, u))' = Total(ScopeCharges(d, u)')
        /\ Total(ScopeOverruns(d, u))' = Total(ScopeOverruns(d, u)')
    BY DEF Total, Tokens
  <2> HIDE DEF here
  <2>8. QED BY <1>2, <1>6, <2>1, <2>3, <2>4, <2>6, <2>7
<1>11. QED BY <1>9, <1>10

-----------------------------------------------------------------------------
(* Each part of the invariant is kept by each action.                      *)

(* The accounting bounds. *)
LEMMA BudgetStep ==
    ASSUME LedgerInv, TypeOK', [Next]_vars
    PROVE  ProjectWithinAllowance' /\ ScopesWithinCaps'
<1> USE DEF LedgerInv
<1> SUFFICES ASSUME NEW u \in Units
             PROVE  /\ Total(Charges(u))' <= Limit(u) + Total(Overruns(u))'
                    /\ \A d \in DOMAIN scopes' :
                         Total(ScopeCharges(d, u))'
                           <= ScopeLimit(d, u)' + Total(ScopeOverruns(d, u))'
  BY DEF ProjectWithinAllowance, ScopesWithinCaps, Limit
<1>1. /\ Limit(u) \in Nat
      /\ Total(Charges(u)) \in Nat /\ Total(Overruns(u)) \in Nat
      /\ \A d \in Scopes : /\ ScopeLimit(d, u) \in Nat
                            /\ Total(ScopeCharges(d, u)) \in Nat
                            /\ Total(ScopeOverruns(d, u)) \in Nat
  BY ChargeTypes DEF ChargesTyped
<1>2. /\ Total(Charges(u))' \in Nat /\ Total(Overruns(u))' \in Nat
      /\ \A d \in Scopes : /\ ScopeLimit(d, u)' \in Nat
                            /\ Total(ScopeCharges(d, u))' \in Nat
                            /\ Total(ScopeOverruns(d, u))' \in Nat
  BY ChargeTypesNext DEF ChargesTyped
<1>3. /\ Total(Charges(u)) <= Limit(u) + Total(Overruns(u))
      /\ \A d \in DOMAIN scopes :
            Total(ScopeCharges(d, u)) <= ScopeLimit(d, u) + Total(ScopeOverruns(d, u))
  BY DEF ProjectWithinAllowance, ScopesWithinCaps
<1>4. DOMAIN scopes \subseteq Scopes /\ DOMAIN scopes' \subseteq Scopes
  BY DEF TypeOK
<1>5. ASSUME UNCHANGED <<operations, completions>>
      PROVE  /\ Total(Charges(u))' = Total(Charges(u))
             /\ Total(Overruns(u))' = Total(Overruns(u))
             /\ \A d : /\ Total(ScopeCharges(d, u))' = Total(ScopeCharges(d, u))
                       /\ Total(ScopeOverruns(d, u))' = Total(ScopeOverruns(d, u))
  <2>1. Charges(u)' = Charges(u) /\ Overruns(u)' = Overruns(u)
    BY <1>5, ChargesUnchanged
  <2>2. ASSUME NEW d
        PROVE  /\ ScopeCharges(d, u)' = ScopeCharges(d, u)
               /\ ScopeOverruns(d, u)' = ScopeOverruns(d, u)
    BY <1>5, ChargesUnchanged
  <2>3. Total(Charges(u))' = Total(Charges(u))
    BY <2>1 DEF Total, Tokens
  <2>4. Total(Overruns(u))' = Total(Overruns(u))
    BY <2>1 DEF Total, Tokens
  <2>5. ASSUME NEW d PROVE Total(ScopeCharges(d, u))' = Total(ScopeCharges(d, u))
    BY <2>2 DEF Total, Tokens
  <2>6. ASSUME NEW d PROVE Total(ScopeOverruns(d, u))' = Total(ScopeOverruns(d, u))
    BY <2>2 DEF Total, Tokens
  <2>7. QED BY <2>3, <2>4, <2>5, <2>6
<1>6. ASSUME UNCHANGED scopes, NEW d PROVE ScopeLimit(d, u)' = ScopeLimit(d, u)
  BY <1>6 DEF ScopeLimit, Limit
<1>7. CASE UNCHANGED <<scopes, operations, completions>>
  BY <1>1, <1>3, <1>4, <1>5, <1>6, <1>7
<1>8. ASSUME NEW s \in Sessions, NEW sc \in Scopes, NEW caps \in CapChoices,
             OpenScope(s, sc, caps)
      PROVE  /\ Total(Charges(u))' <= Limit(u) + Total(Overruns(u))'
             /\ \A d \in DOMAIN scopes' :
                  Total(ScopeCharges(d, u))'
                    <= ScopeLimit(d, u)' + Total(ScopeOverruns(d, u))'
  <2>1. UNCHANGED <<operations, completions>> BY <1>8 DEF OpenScope
  <2>2. \A d \in DOMAIN scopes : ScopeLimit(d, u)' = ScopeLimit(d, u)
    BY <1>8 DEF OpenScope, With, ScopeLimit, Limit
  <2>3. Total(ScopeCharges(sc, u)) = 0
    <3>1. \A o \in DOMAIN operations : operations[o].scope # sc
      BY <1>8, LedgerAssumption DEF OpenScope, RowsLoad, KnownScope
    <3>2. \A o \in OpIds : ScopeCharges(sc, u)[o] = 0
      BY <3>1 DEF ScopeCharges, Reserved
    <3>3. ScopeCharges(sc, u) \in [OpIds -> Nat]
      BY ChargeTypes DEF ChargesTyped
    <3>4. QED BY <3>2, <3>3, TotalZero
  <2>4. DOMAIN scopes' = DOMAIN scopes \cup {sc}
    BY <1>8 DEF OpenScope, With
  <2>5. QED BY <1>1, <1>2, <1>3, <1>4, <1>5, <2>1, <2>2, <2>3, <2>4
<1>9. ASSUME NEW s \in Sessions, NEW request \in Request,
             NEW reservation \in Reservations, NEW sc \in Scopes \cup {Root},
             Reserve(s, request, reservation, sc)
      PROVE  /\ Total(Charges(u))' <= Limit(u) + Total(Overruns(u))'
             /\ \A d \in DOMAIN scopes' :
                  Total(ScopeCharges(d, u))'
                    <= ScopeLimit(d, u)' + Total(ScopeOverruns(d, u))'
  <2>1. UNCHANGED scopes /\ Fits(reservation, sc) BY <1>9 DEF Reserve
  <2>2. Amount(reservation, u) \in Nat
    BY LedgerAssumption DEF Amount, IsAmounts
  <2> DEFINE amount == Amount(reservation, u)
  <2>3. /\ Total(Charges(u))' = Total(Charges(u)) + amount
        /\ Total(Overruns(u))' = Total(Overruns(u))
        /\ \A d \in Scopes :
             /\ Total(ScopeCharges(d, u))' =
                  Total(ScopeCharges(d, u)) + (IF d = sc THEN amount ELSE 0)
             /\ Total(ScopeOverruns(d, u))' = Total(ScopeOverruns(d, u))
    BY <1>9, ReserveCharges
  <2>4. CASE u \in DOMAIN reservation
    <3>1. Total(Charges(u)) + Amount(reservation, u) <= Limit(u)
      BY <1>1, <2>1, <2>2, <2>4 DEF Fits, Available, Amount
    <3>2. sc \in Scopes =>
            Total(ScopeCharges(sc, u)) + Amount(reservation, u)
              <= ScopeLimit(sc, u)
      BY <1>1, <2>1, <2>2, <2>4, LedgerAssumption
         DEF Fits, ScopeAvailable, Amount
    <3>3. QED BY <1>1, <1>3, <1>4, <1>6, <2>1, <2>2, <2>3, <3>1, <3>2
  <2>5. CASE u \notin DOMAIN reservation
    <3>1. Amount(reservation, u) = 0 BY <2>5 DEF Amount
    <3>2. QED BY <1>1, <1>3, <1>4, <1>6, <2>1, <2>3, <3>1
  <2>6. QED BY <2>4, <2>5
<1>10. ASSUME NEW s \in Sessions, NEW request \in Request, NEW raw \in Raw,
              NEW result \in Result, Complete(s, request, result, raw)
       PROVE  /\ Total(Charges(u))' <= Limit(u) + Total(Overruns(u))'
              /\ \A d \in DOMAIN scopes' :
                   Total(ScopeCharges(d, u))'
                     <= ScopeLimit(d, u)' + Total(ScopeOverruns(d, u))'
  <2>1. UNCHANGED scopes BY <1>10 DEF Complete, Settle
  <2>2. /\ Total(Charges(u))' - Total(Charges(u))
             <= Total(Overruns(u))' - Total(Overruns(u))
        /\ \A d \in Scopes :
             Total(ScopeCharges(d, u))' - Total(ScopeCharges(d, u))
               <= Total(ScopeOverruns(d, u))' - Total(ScopeOverruns(d, u))
    BY <1>10, CompleteCharges
  <2>3. QED BY <1>1, <1>2, <1>3, <1>4, <1>6, <2>1, <2>2
<1>11. QED BY <1>7, <1>8, <1>9, <1>10
           DEF Next, StartSession, Record, Begin, vars

(* The rows stay loadable. *)
LEMMA RowsStep ==
    ASSUME LedgerInv, TypeOK', [Next]_vars
    PROVE  RowsLoad'
<1> USE DEF LedgerInv, TypeOK, RowsLoad, KnownScope
<1>1. CASE UNCHANGED <<scopes, operations, completions, history>>
  BY <1>1
<1>2. ASSUME NEW s \in Sessions, NEW sc \in Scopes, NEW caps \in CapChoices,
             OpenScope(s, sc, caps)
      PROVE  RowsLoad'
  BY <1>2 DEF OpenScope, With
<1>3. ASSUME NEW s \in Sessions, NEW origin \in Origin, NEW raw \in Raw,
             NEW n \in 0..Len(history), Record(s, origin, raw, n)
      PROVE  RowsLoad'
  <2>1. \A k \in DOMAIN history : k \in DOMAIN history' /\ history'[k] = history[k]
    BY <1>3 DEF Record
  <2>2. UNCHANGED <<scopes, operations, completions>> BY <1>3 DEF Record
  <2>3. QED BY <2>1, <2>2
<1>4. ASSUME NEW s \in Sessions, NEW request \in Request,
             NEW reservation \in Reservations, NEW sc \in Scopes \cup {Root},
             Reserve(s, request, reservation, sc)
      PROVE  RowsLoad'
  <2>1. /\ DOMAIN operations' = DOMAIN operations \cup {request.id}
        /\ operations'[request.id].request = request
        /\ operations'[request.id].scope = sc
        /\ request.id \notin DOMAIN operations
        /\ \A o \in DOMAIN operations : operations'[o] = operations[o]
    BY <1>4 DEF Reserve, With, Reserved
  <2>2. UNCHANGED <<scopes, completions, history>> /\ KnownScope(sc)
    BY <1>4 DEF Reserve
  <2>3. DOMAIN completions \subseteq DOMAIN operations OBVIOUS
  <2>4. QED BY <2>1, <2>2, <2>3
<1>5. ASSUME NEW s \in Sessions, NEW request \in Request, NEW raw \in Raw,
             NEW result \in Result, Complete(s, request, result, raw)
      PROVE  RowsLoad'
  <2> DEFINE id == request.id
  <2>1. /\ DOMAIN completions' = DOMAIN completions \cup {id}
        /\ id \notin DOMAIN completions
        /\ completions'[id].sequence = Len(history) + 1
        /\ completions'[id].result = result
        /\ completions'[id].breaches =
             Breaches(operations[id].reservation, result.usage)
        /\ \A o \in DOMAIN completions : completions'[o] = completions[o]
    BY <1>5 DEF Complete, Settle, With, Unknown, Completed
  <2>2. /\ \A k \in DOMAIN history :
             k \in DOMAIN history' /\ history'[k] = history[k]
        /\ Len(history) + 1 \in DOMAIN history'
        /\ Len(history) + 1 \notin DOMAIN history
        /\ history'[Len(history) + 1].origin = request
        /\ history'[Len(history) + 1].supersedes = 0
    BY <1>5 DEF Complete, Settle
  <2>3. /\ UNCHANGED <<scopes, operations>>
        /\ operations[id].request = request
        /\ DOMAIN operations[id].reservation \subseteq DOMAIN result.usage
    BY <1>5 DEF Complete, Settle, Names
  <2> HIDE DEF id
  <2>4. QED BY <2>1, <2>2, <2>3
<1>6. QED BY <1>1, <1>2, <1>3, <1>4, <1>5
          DEF Next, StartSession, Begin, vars

(* One operation in flight, and one breach, per scope. *)
LEMMA ScopeStep ==
    ASSUME LedgerInv, TypeOK', [Next]_vars
    PROVE  OneUnknownPerScope' /\ OneBreachPerScope' /\ BreachStopsScope'
<1> USE DEF LedgerInv, TypeOK, OneUnknownPerScope, OneBreachPerScope,
            BreachStopsScope, Unknown, Reserved, Completed
<1>1. CASE UNCHANGED <<operations, dispatched, completions>>
  BY <1>1
<1>2. ASSUME NEW s \in Sessions, NEW request \in Request,
             NEW reservation \in Reservations, NEW sc \in Scopes \cup {Root},
             Reserve(s, request, reservation, sc)
      PROVE  OneUnknownPerScope' /\ OneBreachPerScope' /\ BreachStopsScope'
  <2>1. /\ DOMAIN operations' = DOMAIN operations \cup {request.id}
        /\ request.id \notin DOMAIN operations
        /\ \A o \in DOMAIN operations : operations'[o] = operations[o]
        /\ UNCHANGED <<dispatched, completions>>
    BY <1>2 DEF Reserve, With
  <2>2. request.id \notin dispatched /\ DOMAIN completions \subseteq DOMAIN operations
    BY <2>1
  <2>3. \A o \in DOMAIN operations' :
          Unknown(o)' => o \in DOMAIN operations /\ Unknown(o)
    BY <2>1, <2>2
  <2>4. OneUnknownPerScope' BY <2>1, <2>3
  <2>5. OneBreachPerScope'
    <3>1. \A o \in DOMAIN completions : operations'[o] = operations[o]
      BY <2>1, <2>2
    <3>2. QED BY <2>1, <3>1
  <2>6. BreachStopsScope' BY <2>1, <2>2, <2>3
  <2>7. QED BY <2>4, <2>5, <2>6
<1>3. ASSUME NEW s \in Sessions, NEW request \in Request, Begin(s, request)
      PROVE  OneUnknownPerScope' /\ OneBreachPerScope' /\ BreachStopsScope'
  <2> DEFINE sc == operations[request.id].scope
  <2>1. /\ dispatched' = dispatched \cup {request.id}
        /\ UNCHANGED <<operations, completions>>
    BY <1>3 DEF Begin
  <2>2. \A o \in DOMAIN operations : Unknown(o) => operations[o].scope # sc
    BY <1>3 DEF Begin, Unblocked, In
  <2>3. \A o \in DOMAIN completions :
          completions[o].breaches # {} => operations[o].scope # sc
    BY <1>3 DEF Begin, CheckBudget, In
  <2>4. \A o \in DOMAIN operations :
          Unknown(o)' => Unknown(o) \/ o = request.id
    BY <2>1
  <2>5. OneUnknownPerScope' BY <2>1, <2>2, <2>4
  <2>6. OneBreachPerScope' BY <2>1
  <2>7. BreachStopsScope' BY <2>1, <2>3, <2>4
  <2>8. QED BY <2>5, <2>6, <2>7
<1>4. ASSUME NEW s \in Sessions, NEW request \in Request, NEW raw \in Raw,
             NEW result \in Result, Complete(s, request, result, raw)
      PROVE  OneUnknownPerScope' /\ OneBreachPerScope' /\ BreachStopsScope'
  <2>1. /\ DOMAIN completions' = DOMAIN completions \cup {request.id}
        /\ \A o \in DOMAIN completions : completions'[o] = completions[o]
        /\ UNCHANGED <<operations, dispatched>>
        /\ Unknown(request.id)
    BY <1>4 DEF Complete, Settle, With
  <2>2. \A o \in DOMAIN operations :
          Unknown(o)' => Unknown(o) /\ o # request.id
    BY <2>1
  <2>3. OneUnknownPerScope'
    BY <2>1, <2>2
  <2>4. OneBreachPerScope'
    <3> SUFFICES ASSUME NEW o \in DOMAIN completions',
                        NEW q \in DOMAIN completions',
                        completions'[o].breaches # {},
                        completions'[q].breaches # {},
                        operations[o].scope = operations[q].scope
                 PROVE  o = q
      BY <2>1
    <3>1. CASE o = request.id \/ q = request.id BY <2>1, <3>1
    <3>2. CASE o # request.id /\ q # request.id BY <2>1, <3>2
    <3>3. QED BY <3>1, <3>2
  <2>5. BreachStopsScope'
    BY <2>1, <2>2
  <2>6. QED BY <2>3, <2>4, <2>5
<1>5. QED BY <1>1, <1>2, <1>3, <1>4
          DEF Next, StartSession, OpenScope, Record, vars

-----------------------------------------------------------------------------
(* The invariant holds of an empty ledger, every step keeps it, and so it  *)
(* holds of every ledger.                                                  *)
LEMMA LedgerStart == Init => LedgerInv
<1> SUFFICES ASSUME Init PROVE LedgerInv
  OBVIOUS
<1>1. TypeOK BY DEF Init, TypeOK
<1>2. RowsLoad /\ OneUnknownPerScope /\ OneBreachPerScope /\ BreachStopsScope
  BY DEF Init, RowsLoad, OneUnknownPerScope, OneBreachPerScope, BreachStopsScope
<1>3. ProjectWithinAllowance /\ ScopesWithinCaps
  <2> SUFFICES ASSUME NEW u \in Units
               PROVE  Total(Charges(u)) <= Limit(u) + Total(Overruns(u))
    BY DEF ProjectWithinAllowance, ScopesWithinCaps, Init
  <2>1. /\ Limit(u) \in Nat /\ Total(Overruns(u)) \in Nat
        /\ Charges(u) \in [OpIds -> Nat]
    BY <1>1, ChargeTypes DEF ChargesTyped
  <2>2. \A o \in OpIds : Charges(u)[o] = 0
    BY DEF Init, Charges, Charge, Completed, Reserved
  <2>3. Total(Charges(u)) = 0 BY <2>1, <2>2, TotalZero
  <2>4. QED BY <2>1, <2>3
<1>4. QED BY <1>1, <1>2, <1>3 DEF LedgerInv

LEMMA LedgerStep ==
    ASSUME LedgerInv, [Next]_vars
    PROVE  LedgerInv'
<1>1. TypeOK' BY TypeStep DEF LedgerInv
<1>2. QED BY <1>1, BudgetStep, RowsStep, ScopeStep DEF LedgerInv

LEMMA LedgerInvariant == Spec => []LedgerInv
BY LedgerStart, LedgerStep, PTL DEF Spec

(* For every project, every set of scopes and caps, and every sequence of  *)
(* calls: what is spent and reserved exceeds an allowance or a cap by no   *)
(* more than the overruns that completions recorded.                       *)
THEOREM BudgetsHold == Spec => []WithinBudgets
BY LedgerInvariant, PTL DEF LedgerInv, WithinBudgets

(* Ledger._operation loads every row the ledger has written. *)
THEOREM RowsAlwaysLoad == Spec => []RowsLoad
BY LedgerInvariant, PTL DEF LedgerInv

(* A scope has at most one outstanding operation and at most one breach,   *)
(* and nothing outstanding once it has the breach.                         *)
THEOREM ScopesStop == Spec => []DoubtAndBreachStop
BY LedgerInvariant, PTL DEF LedgerInv, DoubtAndBreachStop

(* No method closes a session, changes the caps of a scope, rewrites a     *)
(* reservation, a completion or an observation, or withdraws a dispatch    *)
(* marker.                                                                 *)
THEOREM RowsAreWrittenOnce == Spec => WriteOnce
<1> DEFINE Kept ==
      /\ sessions \subseteq sessions'
      /\ \A sc \in DOMAIN scopes :
            sc \in DOMAIN scopes' /\ scopes'[sc] = scopes[sc]
      /\ dispatched \subseteq dispatched'
      /\ \A o \in DOMAIN operations :
            o \in DOMAIN operations' /\ operations'[o] = operations[o]
      /\ \A o \in DOMAIN completions :
            o \in DOMAIN completions' /\ completions'[o] = completions[o]
      /\ \A n \in DOMAIN history :
            n \in DOMAIN history' /\ history'[n] = history[n]
<1>1. ASSUME TypeOK, [Next]_vars PROVE [Kept]_vars
  <2>1. CASE UNCHANGED vars BY <2>1
  <2>2. ASSUME NEW s \in Sessions, StartSession(s) PROVE Kept
    BY <2>2 DEF StartSession
  <2>3. ASSUME NEW s \in Sessions, NEW origin \in Origin, NEW raw \in Raw,
               NEW n \in 0..Len(history), Record(s, origin, raw, n)
        PROVE  Kept
    BY <1>1, <2>3 DEF Record, TypeOK
  <2>4. ASSUME NEW s \in Sessions, NEW request \in Request,
               NEW reservation \in Reservations, NEW sc \in Scopes \cup {Root},
               Reserve(s, request, reservation, sc)
        PROVE  Kept
    BY <2>4 DEF Reserve, With, Reserved
  <2>5. ASSUME NEW s \in Sessions, NEW request \in Request, Begin(s, request)
        PROVE  Kept
    BY <2>5 DEF Begin
  <2>6. ASSUME NEW s \in Sessions, NEW request \in Request, NEW raw \in Raw,
               NEW result \in Result, Complete(s, request, result, raw)
        PROVE  Kept
    BY <1>1, <2>6 DEF Complete, Settle, With, Unknown, Completed, TypeOK
  <2>7. ASSUME NEW s \in Sessions, NEW sc \in Scopes, NEW caps \in CapChoices,
               OpenScope(s, sc, caps)
        PROVE  Kept
    BY <2>7 DEF OpenScope, With
  <2> HIDE DEF Kept
  <2>8. QED BY <1>1, <2>1, <2>2, <2>3, <2>4, <2>5, <2>6, <2>7 DEF Next
<1>2. QED BY <1>1, TypeCorrect, PTL DEF Spec, WriteOnce

-----------------------------------------------------------------------------
(* What the users of the ledger (Records, Episode, HostOperations) need of *)
(* one of its transactions.                                                *)

(* What has been captured under an id: the requests and the raw evidence. *)
BodiesOf(id) == {history[n].origin.body : n \in Captures(id)}
RawsOf(id) == {history[n].raw : n \in Captures(id)}

(* Nothing that was recorded or settled is lost or rewritten. *)
SameSettlements ==
    /\ completions' = completions
    /\ \A o \in DOMAIN completions : Settlement(o)' = Settlement(o)

LEMMA AppendKeeps ==
    ASSUME NEW S, history \in Seq(S), NEW x \in S, history' = Append(history, x)
    PROVE  /\ DOMAIN history' = DOMAIN history \cup {Len(history) + 1}
           /\ Len(history) + 1 \notin DOMAIN history
           /\ \A n \in DOMAIN history : history'[n] = history[n]
           /\ history'[Len(history) + 1] = x
OBVIOUS

(* A capture is new or there already, and then as it was.                  *)
LEMMA RecordOnceEffect ==
    ASSUME LedgerInv, NEW s \in sessions, NEW id \in RecordIds, NEW body \in Bodies,
           NEW raw \in Raw, RecordOnce(s, id, body, raw)
    PROVE  /\ [Next]_vars
           /\ UNCHANGED <<operations, dispatched>> /\ SameSettlements
           /\ BodiesOf(id) \subseteq {body} /\ BodiesOf(id)' = {body}
           /\ RawsOf(id)' = IF Recorded(id) THEN RawsOf(id) ELSE {raw}
           /\ \A other : other # id => /\ BodiesOf(other)' = BodiesOf(other)
                                      /\ RawsOf(other)' = RawsOf(other)
<1>1. BodiesOf(id) \subseteq {body}
  <2>1. ASSUME NEW n \in Captures(id) PROVE history[n].origin.body = body
    BY DEF RecordOnce, RecordedAs, Recorded
  <2>2. QED BY <2>1 DEF BodiesOf
<1>2. CASE Recorded(id)
  <2>1. UNCHANGED vars BY <1>2 DEF RecordOnce
  <2>2. BodiesOf(id) # {} BY <1>2 DEF Recorded, BodiesOf
  <2>3. QED
    BY <1>1, <1>2, <2>1, <2>2 DEF vars, SameSettlements, Settlement, BodiesOf, RawsOf, Captures
<1>3. CASE ~Recorded(id)
  <2> DEFINE row == [origin |-> [id |-> id, body |-> body], raw |-> raw, supersedes |-> 0]
  <2>1. Record(s, [id |-> id, body |-> body], raw, 0) BY <1>3 DEF RecordOnce
  <2>2. s \in Sessions /\ [id |-> id, body |-> body] \in Origin /\ 0 \in 0..Len(history)
    BY DEF LedgerInv, TypeOK, Origin
  <2>3. Next BY <2>1, <2>2 DEF Next
  <2>4. /\ UNCHANGED <<operations, dispatched, completions>>
        /\ history' = Append(history, row)
    BY <2>1 DEF Record
  <2>5. row \in Observation /\ history \in Seq(Observation)
    BY <2>2 DEF Observation, LedgerInv, TypeOK
  <2>6. /\ DOMAIN history' = DOMAIN history \cup {Len(history) + 1}
        /\ Len(history) + 1 \notin DOMAIN history
        /\ \A n \in DOMAIN history : history'[n] = history[n]
        /\ history'[Len(history) + 1] = row
    BY <2>4, <2>5, AppendKeeps
  <2>7. row.origin.id = id /\ row.origin.body = body /\ row.raw = raw OBVIOUS
  <2> HIDE DEF row
  <2>8. \A other : other # id => Captures(other)' = Captures(other)
    BY <2>6, <2>7 DEF Captures
  <2>9. Captures(id)' = {Len(history) + 1}
    BY <1>3, <2>6, <2>7 DEF Captures, Recorded
  <2>10. \A other : other # id => BodiesOf(other)' = BodiesOf(other)
    BY <2>6, <2>8 DEF BodiesOf, Captures
  <2>11. BodiesOf(id)' = {body}
    BY <2>6, <2>7, <2>9 DEF BodiesOf
  <2>12. \A other : other # id => RawsOf(other)' = RawsOf(other)
    BY <2>6, <2>8 DEF RawsOf, Captures
  <2>13. RawsOf(id)' = {raw} BY <2>6, <2>7, <2>9 DEF RawsOf
  <2>14. SameSettlements
    BY <2>4, <2>6 DEF SameSettlements, Settlement, LedgerInv, RowsLoad
  <2>15. QED BY <1>1, <1>3, <2>3, <2>4, <2>10, <2>11, <2>14, <2>12, <2>13
<1>4. QED BY <1>2, <1>3

(* A reservation is a new row. *)
LEMMA ReserveEffect ==
    ASSUME LedgerInv, NEW s \in sessions, NEW request \in Request,
           NEW reservation \in Reservations, NEW sc \in Scopes \cup {Root},
           Reserve(s, request, reservation, sc)
    PROVE  /\ [Next]_vars
           /\ DOMAIN operations' = DOMAIN operations \cup {request.id}
           /\ request.id \notin DOMAIN operations
           /\ \A o \in DOMAIN operations : operations'[o] = operations[o]
           /\ operations'[request.id] =
                [request |-> request, scope |-> sc, reservation |-> reservation]
           /\ UNCHANGED dispatched /\ SameSettlements
           /\ \A id : BodiesOf(id)' = BodiesOf(id) /\ RawsOf(id)' = RawsOf(id)
<1>1. s \in Sessions BY DEF LedgerInv, TypeOK
<1>2. [Next]_vars BY <1>1 DEF Next
<1>3. QED
  BY <1>2 DEF Reserve, With, Reserved, SameSettlements, Settlement, BodiesOf, RawsOf, Captures

(* A dispatch marker moves one row from reserved to unknown. *)
LEMMA BeginEffect ==
    ASSUME LedgerInv, NEW s \in sessions, NEW request \in Request, Begin(s, request)
    PROVE  /\ [Next]_vars
           /\ Pending(request.id)
           /\ dispatched' = dispatched \cup {request.id}
           /\ UNCHANGED operations /\ SameSettlements
           /\ \A id : BodiesOf(id)' = BodiesOf(id) /\ RawsOf(id)' = RawsOf(id)
<1>1. s \in Sessions BY DEF LedgerInv, TypeOK
<1>2. [Next]_vars BY <1>1 DEF Next
<1>3. QED
  BY <1>2 DEF Begin, SameSettlements, Settlement, BodiesOf, RawsOf, Captures

(* Settling captures what the boundary answered. *)
LEMMA CompleteEffect ==
    ASSUME LedgerInv, NEW s \in sessions, NEW request \in Request,
           NEW result \in Result, NEW raw \in Raw, Complete(s, request, result, raw)
    PROVE  /\ [Next]_vars
           /\ Unknown(request.id)
           /\ DOMAIN completions' = DOMAIN completions \cup {request.id}
           /\ \A o \in DOMAIN completions :
                completions'[o] = completions[o] /\ Settlement(o)' = Settlement(o)
           /\ completions'[request.id].result = result
           /\ Settlement(request.id)' = [result |-> result, raw |-> raw]
           /\ UNCHANGED <<operations, dispatched>>
           /\ \A id : id # request.id => BodiesOf(id)' = BodiesOf(id) /\ RawsOf(id)' = RawsOf(id)
<1> DEFINE row == [origin |-> request, raw |-> raw, supersedes |-> 0]
           o == request.id
<1>1. s \in Sessions BY DEF LedgerInv, TypeOK
<1>2. [Next]_vars BY <1>1 DEF Next
<1>3. row \in Observation /\ history \in Seq(Observation)
  BY DEF Observation, Origin, Request, LedgerInv, TypeOK
<1>4. /\ Unknown(o)
      /\ history' = Append(history, row)
      /\ DOMAIN completions' = DOMAIN completions \cup {o}
      /\ \A p \in DOMAIN completions : p # o => completions'[p] = completions[p]
      /\ completions'[o].result = result
      /\ completions'[o].sequence = Len(history) + 1
      /\ UNCHANGED <<operations, dispatched>>
  BY DEF Complete, Settle, With
<1>5. o \notin DOMAIN completions BY <1>4 DEF Unknown, Completed
<1>6. /\ DOMAIN history' = DOMAIN history \cup {Len(history) + 1}
      /\ Len(history) + 1 \notin DOMAIN history
      /\ \A n \in DOMAIN history : history'[n] = history[n]
      /\ history'[Len(history) + 1] = row
  BY <1>3, <1>4, AppendKeeps
<1>7. row.raw = raw /\ row.origin.id = o OBVIOUS
<1> HIDE DEF row, o
<1>8. Settlement(o)' = [result |-> result, raw |-> raw]
  <2>1. history'[completions'[o].sequence].raw = raw BY <1>4, <1>6, <1>7
  <2>2. QED BY <1>4, <2>1 DEF Settlement
<1>9. \A p \in DOMAIN completions :
         completions'[p] = completions[p] /\ Settlement(p)' = Settlement(p)
  BY <1>4, <1>5, <1>6 DEF Settlement, LedgerInv, RowsLoad
<1>10. \A id : id # o => Captures(id)' = Captures(id)
  BY <1>6, <1>7 DEF Captures
<1>11. ASSUME NEW id, id # o
       PROVE  BodiesOf(id)' = BodiesOf(id) /\ RawsOf(id)' = RawsOf(id)
  <2>1. \A n \in Captures(id) : history'[n] = history[n] BY <1>6 DEF Captures
  <2>2. QED BY <1>10, <1>11, <2>1 DEF BodiesOf, RawsOf
<1>12. QED BY <1>2, <1>4, <1>8, <1>9, <1>11 DEF o

(* Operation o, and no other, goes from one phase to the next. *)
Moves(o, from, to) ==
    /\ Phase(o) = from /\ Phase(o)' = to
    /\ \A p \in OpIds \ {o} : Phase(p)' = Phase(p)

MoreSettlements(o) ==
    /\ DOMAIN completions' = DOMAIN completions \cup {o}
    /\ \A p \in DOMAIN completions : Settlement(p)' = Settlement(p)

(* Whatever is done to the ledger, one operation at most goes one phase    *)
(* on, and none is dispatched while its scope is blocked.                  *)
LEMMA PhaseStep ==
    ASSUME LedgerInv, [Next]_vars
    PROVE  \/ (\A o \in OpIds : Phase(o)' = Phase(o)) /\ SameSettlements
           \/ \E o \in OpIds :
                \/ Moves(o, "none", "reserved") /\ SameSettlements
                \/ /\ Moves(o, "reserved", "dispatched") /\ SameSettlements
                   /\ Unblocked(operations[o].scope)
                \/ Moves(o, "dispatched", "settled") /\ MoreSettlements(o)
<1> USE DEF Phase, Completed, Unknown, Reserved
<1>1. DOMAIN completions \subseteq dispatched /\ dispatched \subseteq DOMAIN operations
  BY DEF LedgerInv, TypeOK
<1>2. CASE UNCHANGED <<operations, dispatched, completions, history>>
  BY <1>2 DEF SameSettlements, Settlement
<1>3. ASSUME NEW s \in Sessions, NEW origin \in Origin, NEW raw \in Raw,
             NEW supersedes \in 0..Len(history), Record(s, origin, raw, supersedes)
      PROVE  (\A o \in OpIds : Phase(o)' = Phase(o)) /\ SameSettlements
  <2> DEFINE row == [origin |-> origin, raw |-> raw, supersedes |-> supersedes]
  <2>1. /\ UNCHANGED <<operations, dispatched, completions>>
        /\ history' = Append(history, row)
    BY <1>3 DEF Record
  <2>2. row \in Observation /\ history \in Seq(Observation)
    BY DEF Observation, LedgerInv, TypeOK
  <2> HIDE DEF row
  <2>3. \A n \in DOMAIN history : history'[n] = history[n]
    BY <2>1, <2>2, AppendKeeps
  <2>4. SameSettlements
    BY <2>1, <2>3 DEF SameSettlements, Settlement, LedgerInv, RowsLoad
  <2>5. QED BY <2>1, <2>4
<1>4. ASSUME NEW s \in Sessions, NEW request \in Request, NEW reservation \in Reservations,
             NEW sc \in Scopes \cup {Root}, Reserve(s, request, reservation, sc)
      PROVE  Moves(request.id, "none", "reserved") /\ SameSettlements
  <2>1. s \in sessions BY <1>4 DEF Reserve
  <2>2. /\ DOMAIN operations' = DOMAIN operations \cup {request.id}
        /\ request.id \notin DOMAIN operations
        /\ UNCHANGED dispatched /\ SameSettlements
    BY <1>4, <2>1, ReserveEffect
  <2>3. QED BY <1>1, <2>2 DEF Moves, SameSettlements
<1>5. ASSUME NEW s \in Sessions, NEW request \in Request, Begin(s, request)
      PROVE  /\ Moves(request.id, "reserved", "dispatched") /\ SameSettlements
             /\ Unblocked(operations[request.id].scope)
  <2>1. s \in sessions /\ Unblocked(operations[request.id].scope)
    BY <1>5 DEF Begin
  <2>2. /\ Pending(request.id) /\ dispatched' = dispatched \cup {request.id}
        /\ UNCHANGED operations /\ SameSettlements
    BY <1>5, <2>1, BeginEffect
  <2>3. QED BY <1>1, <2>1, <2>2 DEF Moves, SameSettlements, Pending
<1>6. ASSUME NEW s \in Sessions, NEW request \in Request, NEW raw \in Raw,
             NEW result \in Result, Complete(s, request, result, raw)
      PROVE  Moves(request.id, "dispatched", "settled") /\ MoreSettlements(request.id)
  <2>1. s \in sessions BY <1>6 DEF Complete, Settle
  <2>2. /\ Unknown(request.id)
        /\ DOMAIN completions' = DOMAIN completions \cup {request.id}
        /\ \A o \in DOMAIN completions :
             completions'[o] = completions[o] /\ Settlement(o)' = Settlement(o)
        /\ UNCHANGED <<operations, dispatched>>
    BY <1>6, <2>1, CompleteEffect
  <2>3. QED BY <1>1, <2>2 DEF Moves, MoreSettlements
<1>7. \A request \in Request : request.id \in OpIds BY DEF Request
<1>8. QED
  BY <1>2, <1>3, <1>4, <1>5, <1>6, <1>7 DEF Next, vars, StartSession, OpenScope
=============================================================================
