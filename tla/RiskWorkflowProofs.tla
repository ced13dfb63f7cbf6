-------------------------- MODULE RiskWorkflowProofs --------------------------
(***************************************************************************)
(* No two plans ever have commands pending on the same symbol, no approval *)
(* overspends the policy or the broker, and a single leg is sized as large *)
(* as what is left allows: for any intents, policy, metadata and order of  *)
(* the evidence.                                                           *)
(*                                                                         *)
(* Sums over sets of commands come first: Total agrees with the recursion  *)
(* of the sizing code, grows with its set and splits over disjoint sets.   *)
(* Then what position sizing promises: scaled and rounded lots stay within *)
(* every cap, and a lone leg could not be one lot larger.  RiskInv is what *)
(* the evidence means: everything at stake fits the policy (StakesInv), a  *)
(* report shows all that was opened before it (ReportsInv), and the stored *)
(* evidence came from such reports (EvidenceInv).  An approval keeps it    *)
(* because what the evaluator counts covers all that is really at stake    *)
(* (RoomIsReal).                                                           *)
(***************************************************************************)
EXTENDS RiskWorkflow, FiniteSetTheorems, TLAPS

\* Zenon proves a leaf that names no other prover.
USE ZenonT(30)

\* A row of the commands table has its four columns.
HasColumns(row) ==
    row = [standing |-> row.standing, updated |-> row.updated,
           expires |-> row.expires, lots |-> row.lots]

\* The table has a row for every command, and OnePlanPerSymbol holds.
TableIsSound ==
    /\ commands = [c \in Commands |-> commands[c]]
    /\ \A c \in Commands : HasColumns(commands[c])
    /\ OnePlanPerSymbol

\* A step that activates nothing keeps the table sound.
LEMMA NothingActivated ==
    ASSUME TableIsSound,
           commands' = [c \in Commands |-> commands'[c]],
           \A c \in Commands : HasColumns(commands[c])',
           \A c \in Commands : commands'[c].standing = "ACTIVE" => commands[c].standing = "ACTIVE"
    PROVE  TableIsSound'
<1>1. \A c \in Active' : c \in Active
  BY DEF Active
<1>2. OnePlanPerSymbol'
  BY <1>1 DEF TableIsSound, OnePlanPerSymbol
<1> QED
  BY <1>2 DEF TableIsSound

\* Approving an intent activates its commands only where nothing is pending.
LEMMA ApproveKeepsTable ==
    ASSUME TableIsSound, NEW i \in Intents, Approve(i)
    PROVE  TableIsSound'
<1>1. commands' = [c \in Commands |-> IF c[1] = i THEN NewCommand(i, c) ELSE commands[c]]
  BY DEF Approve, WritesCommands
<1>2. \A c \in Commands : c[1] = i => c[2] \in LegsOf(i)
  BY SMTT(30) DEF Commands
<1>3. ASSUME NEW c \in Commands, c[1] = i, NEW d \in Active
      PROVE  SymbolOf(c) # SymbolOf(d)
  <2>1. Action(i) \in {"BUY", "SELL"}
    BY <1>2, <1>3, IntentsAssumption
  <2>2. PendingExposureAllows(i)
    BY <2>1 DEF Approve, Approves
  <2> QED
    BY <1>2, <1>3, <2>2 DEF PendingExposureAllows, On, SymbolOf
<1>4. \A c \in Active' : c \in Commands /\ (c[1] = i \/ c \in Active)
  BY <1>1 DEF Active
<1>5. OnePlanPerSymbol'
  <2> SUFFICES ASSUME NEW c \in Active', NEW d \in Active', SymbolOf(c) = SymbolOf(d)
               PROVE  c[1] = d[1]
    BY DEF OnePlanPerSymbol
  <2> QED
    BY <1>3, <1>4, SMTT(30) DEF TableIsSound, OnePlanPerSymbol
<1>6. \A c \in Commands : HasColumns(commands'[c])
  BY <1>1 DEF HasColumns, NewCommand, TableIsSound
<1> QED
  BY <1>1, <1>5, <1>6 DEF TableIsSound, HasColumns

LEMMA TableStep == TableIsSound /\ [Next]_vars => TableIsSound'
<1> SUFFICES ASSUME TableIsSound, [Next]_vars
             PROVE  TableIsSound'
  OBVIOUS
<1>1. ASSUME NEW c \in Commands, MoveCommand(c)
      PROVE  TableIsSound'
  <2>1. commands' = [commands EXCEPT ![c].updated = Stamp(c, clock)]
    BY <1>1 DEF MoveCommand
  <2> QED
    BY <2>1, NothingActivated, SMTT(30) DEF TableIsSound, HasColumns
<1>2. ASSUME NEW c \in Commands, FinishCommand(c)
      PROVE  TableIsSound'
  <2>1. commands' = [commands EXCEPT ![c].standing = "FINISHED",
                                     ![c].updated = Stamp(c, broker[c].at)]
    BY <1>2 DEF FinishCommand
  <2> DEFINE at == Stamp(c, broker[c].at)
  <2> HIDE DEF at
  <2>2. commands'[c] = [standing |-> "FINISHED", updated |-> at,
                        expires |-> commands[c].expires, lots |-> commands[c].lots]
    <3>1. commands'[c] = [commands[c] EXCEPT !.standing = "FINISHED", !.updated = at]
      BY <2>1 DEF TableIsSound, at
    <3>2. commands[c] = [standing |-> commands[c].standing, updated |-> commands[c].updated,
                         expires |-> commands[c].expires, lots |-> commands[c].lots]
      BY DEF TableIsSound, HasColumns
    <3> QED
      BY <3>1, <3>2
  <2>3. /\ commands' = [d \in Commands |-> commands'[d]]
        /\ \A d \in Commands : d # c => commands'[d] = commands[d]
    BY <2>1 DEF TableIsSound
  <2>4. \A d \in Commands : HasColumns(commands'[d])
    BY <2>2, <2>3 DEF TableIsSound, HasColumns
  <2>5. \A d \in Commands : commands'[d].standing = "ACTIVE" => commands[d].standing = "ACTIVE"
    BY <2>2, <2>3, SMTT(30)
  <2> QED
    BY <2>3, <2>4, <2>5, NothingActivated DEF HasColumns
<1>3. ASSUME UNCHANGED commands
      PROVE  TableIsSound'
  BY <1>3, SMTT(30) DEF TableIsSound, HasColumns, OnePlanPerSymbol, Active
<1>4. CASE UNCHANGED vars
  BY <1>3, <1>4 DEF vars
<1>5. CASE Next
  <2>1. \/ \E i \in Intents : Approve(i)
        \/ \E c \in Commands : MoveCommand(c)
        \/ \E c \in Commands : FinishCommand(c)
        \/ UNCHANGED commands
    BY <1>5 DEF Next, Tick, Submit, Reject, RecordCapacity, DeliverReport, ObserveMember,
                UpdateMarket, StoreBreaker, PlaceOrder, FillOrder, RefuseOrder, Answer,
                ClosePosition, Observe, Assemble, ObserveAccount
  <2> QED
    BY <2>1, <1>1, <1>2, <1>3, ApproveKeepsTable
<1> QED
  BY <1>4, <1>5

LEMMA TableInit == Init => TableIsSound
BY SMTT(30) DEF Init, TableIsSound, HasColumns, OnePlanPerSymbol, Active, NoCommand

\* For every policy and every order of evidence, reports and answers, two plans
\* never have commands pending on one symbol (validate_pending_exposure).
THEOREM OnePlanAlways == Spec => []OnePlanPerSymbol
<1>1. Spec => []TableIsSound
  BY TableInit, TableStep, PTL DEF Spec
<1>2. TableIsSound => OnePlanPerSymbol
  BY DEF TableIsSound
<1> QED
  BY <1>1, <1>2, PTL

-----------------------------------------------------------------------------
\* Sums over finite sets.  Total(f, S) is what MapThenSumSet computes for the
\* values of a function.

Pick(s) == CHOOSE x \in s : TRUE

\* h holds the sum of f over every subset of S.
Sums(h, f, S) ==
    h = [s \in SUBSET S |-> IF s = {} THEN 0 ELSE f[Pick(s)] + h[s \ {Pick(s)}]]

Total(f, S) == (CHOOSE h : Sums(h, f, S))[S]

IsInteger(f, S) == \A x \in S : f[x] \in Int

\* Induction on finite sets: a set of subsets has a minimal one.
LEMMA MinimalSet ==
    ASSUME NEW S, IsFiniteSet(S), NEW T, T \subseteq SUBSET S, T # {}
    PROVE  \E s \in T : \A t \in T : t \subseteq s => t = s
<1>1. IsWellFoundedOn(StrictSubsetOrdering(S), SUBSET S)
  BY FS_StrictSubsetOrderingWellFounded, FS_FiniteSubsetsOfFinite
<1>2. PICK s \in T : \A t \in T : ~(<<t, s>> \in StrictSubsetOrdering(S))
  BY <1>1, WFMin
<1> QED
  BY <1>2, Zenon DEF StrictSubsetOrdering

LEMMA PickIsIn ==
    ASSUME NEW s, s # {}
    PROVE  Pick(s) \in s
BY DEF Pick

\* The sum of a subset does not depend on the set it is taken in.
LEMMA SumsAgree ==
    ASSUME NEW f, NEW S, NEW T, NEW h, NEW g, Sums(h, f, S), Sums(g, f, T), IsFiniteSet(S),
           NEW r, r \subseteq S, r \subseteq T
    PROVE  h[r] = g[r]
<1> DEFINE B == {s \in SUBSET S : s \subseteq T /\ h[s] # g[s]}
<1> SUFFICES ASSUME B # {} PROVE FALSE
  OBVIOUS
<1>1. PICK s \in B : \A t \in B : t \subseteq s => t = s
  <2>1. B \subseteq SUBSET S
    OBVIOUS
  <2> HIDE DEF B
  <2> QED
    BY <2>1, MinimalSet, SMTT(30)
<1>2. /\ h[s] = IF s = {} THEN 0 ELSE f[Pick(s)] + h[s \ {Pick(s)}]
      /\ g[s] = IF s = {} THEN 0 ELSE f[Pick(s)] + g[s \ {Pick(s)}]
  BY DEF Sums
<1>3. s # {} => s \ {Pick(s)} \notin B
  BY <1>1, PickIsIn
<1> QED
  BY <1>2, <1>3

\* There are sums.
LEMMA SumsExist ==
    ASSUME NEW f, NEW S, IsFiniteSet(S)
    PROVE  \E h : Sums(h, f, S)
<1> DEFINE Some(s) == CHOOSE h : Sums(h, f, s)
           B == {s \in SUBSET S : ~\E h : Sums(h, f, s)}
<1> SUFFICES ASSUME B # {} PROVE FALSE
  OBVIOUS
<1>1. PICK s \in B : \A t \in B : t \subseteq s => t = s
  <2>1. B \subseteq SUBSET S
    OBVIOUS
  <2> HIDE DEF B
  <2> QED
    BY <2>1, MinimalSet, SMTT(30)
<1> DEFINE H == [t \in SUBSET s |-> IF t = {} THEN 0
                                    ELSE f[Pick(t)] + Some(t \ {Pick(t)})[t \ {Pick(t)}]]
<1>2. ASSUME NEW u \in SUBSET s, u # s
      PROVE  Sums(Some(u), f, u)
  BY <1>1, <1>2
<1>3. ASSUME NEW u \in SUBSET s, u # s
      PROVE  H[u] = Some(u)[u]
  <2>1. Sums(Some(u), f, u)
    BY <1>2, <1>3
  <2>2. Some(u)[u] = IF u = {} THEN 0 ELSE f[Pick(u)] + Some(u)[u \ {Pick(u)}]
    BY <2>1 DEF Sums
  <2>3. ASSUME u # {}
        PROVE  Some(u)[u \ {Pick(u)}] = Some(u \ {Pick(u)})[u \ {Pick(u)}]
    <3> DEFINE v == u \ {Pick(u)}
    <3>1. v \in SUBSET s /\ v # s /\ v \subseteq u
      BY <1>3
    <3>2. Sums(Some(v), f, v)
      BY <1>2, <3>1
    <3>3. IsFiniteSet(u)
      BY FS_Subset
    <3> HIDE DEF v, Some
    <3>4. Some(u)[v] = Some(v)[v]
      BY <2>1, <3>1, <3>2, <3>3, SumsAgree, SMTT(30)
    <3> QED
      BY <3>4 DEF v
  <2> HIDE DEF Some
  <2> QED
    BY <2>2, <2>3
<1>4. Sums(H, f, s)
  <2>1. ASSUME NEW t \in SUBSET s, t # {}
        PROVE  H[t] = f[Pick(t)] + H[t \ {Pick(t)}]
    <3>1. t \ {Pick(t)} \in SUBSET s /\ t \ {Pick(t)} # s
      BY <2>1, PickIsIn
    <3>2. H[t \ {Pick(t)}] = Some(t \ {Pick(t)})[t \ {Pick(t)}]
      BY <1>3, <3>1
    <3> HIDE DEF Some
    <3> QED
      BY <2>1, <3>2
  <2>2. H[{}] = 0
    OBVIOUS
  <2>3. H = [t \in SUBSET s |-> H[t]]
    BY SMTT(30)
  <2> HIDE DEF H
  <2> QED
    BY <2>1, <2>2, <2>3 DEF Sums
<1> QED
  BY <1>1, <1>4

\* The sum of a finite set, element by element.
LEMMA TotalStep ==
    ASSUME NEW f, NEW S, IsFiniteSet(S)
    PROVE  /\ S = {} => Total(f, S) = 0
           /\ S # {} => Total(f, S) = f[Pick(S)] + Total(f, S \ {Pick(S)})
<1> DEFINE Some(s) == CHOOSE h : Sums(h, f, s)
           R == S \ {Pick(S)}
<1>1. IsFiniteSet(R)
  BY FS_Subset
<1>2. Sums(Some(S), f, S) /\ Sums(Some(R), f, R)
  BY <1>1, SumsExist
<1>3. Total(f, S) = Some(S)[S] /\ Total(f, R) = Some(R)[R]
  BY DEF Total
<1> HIDE DEF Some
<1>4. Some(S)[S] = IF S = {} THEN 0 ELSE f[Pick(S)] + Some(S)[R]
  BY <1>2 DEF Sums
<1>5. Some(S)[R] = Some(R)[R]
  <2> HIDE DEF R
  <2>1. R \subseteq S
    BY DEF R
  <2> QED
    BY <1>2, <2>1, SumsAgree, SMTT(30)
<1> QED
  BY <1>3, <1>4, <1>5

LEMMA TotalIsInteger ==
    ASSUME NEW f, NEW S, IsFiniteSet(S), IsInteger(f, S)
    PROVE  Total(f, S) \in Int
<1> DEFINE B == {s \in SUBSET S : Total(f, s) \notin Int}
<1> SUFFICES ASSUME B # {} PROVE FALSE
  OBVIOUS
<1>1. PICK s \in B : \A t \in B : t \subseteq s => t = s
  <2>1. B \subseteq SUBSET S
    OBVIOUS
  <2> HIDE DEF B
  <2> QED
    BY <2>1, MinimalSet, SMTT(30)
<1>2. IsFiniteSet(s)
  BY FS_Subset
<1>3. CASE s = {}
  <2>1. Total(f, s) = 0
    BY <1>2, <1>3, TotalStep
  <2> QED
    BY <2>1, SMTT(30)
<1>4. CASE s # {}
  <2>1. Pick(s) \in s
    BY <1>4, PickIsIn
  <2>2. Total(f, s \ {Pick(s)}) \in Int /\ f[Pick(s)] \in Int
    BY <1>1, <2>1, SMTT(30) DEF IsInteger
  <2> QED
    BY <1>2, <1>4, <2>2, TotalStep, SMTT(30)
<1> QED
  BY <1>3, <1>4

\* Any element may be taken out first.
LEMMA TotalOf ==
    ASSUME NEW f, NEW S, IsFiniteSet(S), IsInteger(f, S), NEW x \in S
    PROVE  Total(f, S) = f[x] + Total(f, S \ {x})
<1> DEFINE B == {s \in SUBSET S : \E y \in s : Total(f, s) # f[y] + Total(f, s \ {y})}
<1> SUFFICES ASSUME B # {} PROVE FALSE
  OBVIOUS
<1>1. PICK s \in B : \A t \in B : t \subseteq s => t = s
  <2>1. B \subseteq SUBSET S
    OBVIOUS
  <2> HIDE DEF B
  <2> QED
    BY <2>1, MinimalSet, SMTT(30)
<1>2. PICK y \in s : Total(f, s) # f[y] + Total(f, s \ {y})
  OBVIOUS
<1>3. PICK p : p = Pick(s)
  OBVIOUS
<1>4. \A t \in SUBSET s : IsFiniteSet(t) /\ IsInteger(f, t) /\ Total(f, t) \in Int
  BY FS_Subset, TotalIsInteger DEF IsInteger
<1>5. p \in s /\ Total(f, s) = f[p] + Total(f, s \ {p})
  BY <1>3, <1>4, PickIsIn, TotalStep
<1>6. p # y
  BY <1>2, <1>5
<1>7. s \ {p} \notin B /\ s \ {y} \notin B
  BY <1>1, <1>5
<1>8. Total(f, s \ {p}) = f[y] + Total(f, (s \ {p}) \ {y})
  BY <1>6, <1>7
<1>9. Total(f, s \ {y}) = f[p] + Total(f, (s \ {y}) \ {p})
  BY <1>5, <1>6, <1>7
<1>10. (s \ {p}) \ {y} = (s \ {y}) \ {p}
  OBVIOUS
<1>11. /\ f[p] \in Int /\ f[y] \in Int
       /\ Total(f, (s \ {y}) \ {p}) \in Int
  BY <1>4, <1>5 DEF IsInteger
<1> QED
  BY <1>2, <1>5, <1>8, <1>9, <1>10, <1>11, SMTT(30)

\* Terms that compare, with integer weights, have sums that compare.
LEMMA TotalsCompare ==
    ASSUME NEW f, NEW g, NEW S, IsFiniteSet(S), IsInteger(f, S), IsInteger(g, S),
           NEW a \in Int, NEW b \in Int, \A x \in S : a * f[x] <= b * g[x]
    PROVE  a * Total(f, S) <= b * Total(g, S)
<1> DEFINE B == {s \in SUBSET S : ~(a * Total(f, s) <= b * Total(g, s))}
<1> SUFFICES ASSUME B # {} PROVE FALSE
  OBVIOUS
<1>1. PICK s \in B : \A t \in B : t \subseteq s => t = s
  <2>1. B \subseteq SUBSET S
    OBVIOUS
  <2> HIDE DEF B
  <2> QED
    BY <2>1, MinimalSet, SMTT(30)
<1>2. IsFiniteSet(s) /\ IsInteger(f, s) /\ IsInteger(g, s)
  BY FS_Subset DEF IsInteger
<1>3. CASE s = {}
  <2>1. Total(f, s) = 0 /\ Total(g, s) = 0
    BY <1>2, <1>3, TotalStep
  <2> QED
    BY <2>1, SMTT(30)
<1>4. CASE s # {}
  <2>1. PICK x \in s : TRUE
    BY <1>4
  <2>2. PICK t : t = s \ {x}
    OBVIOUS
  <2>3. IsFiniteSet(t) /\ IsInteger(f, t) /\ IsInteger(g, t)
    BY <1>2, <2>2, FS_Subset DEF IsInteger
  <2>4. t \notin B
    BY <1>1, <2>2
  <2>5. /\ Total(f, s) = f[x] + Total(f, t) /\ Total(g, s) = g[x] + Total(g, t)
        /\ Total(f, t) \in Int /\ Total(g, t) \in Int /\ f[x] \in Int /\ g[x] \in Int
    BY <1>2, <2>2, <2>3, TotalOf, TotalIsInteger, SMTT(30) DEF IsInteger
  <2>6. a * Total(f, t) <= b * Total(g, t) /\ a * f[x] <= b * g[x]
    BY <2>2, <2>4
  <2>7. ASSUME NEW m \in Int, NEW n \in Int, NEW k \in Int, NEW l \in Int,
               a * m <= b * k, a * n <= b * l
        PROVE  a * (m + n) <= b * (k + l)
    BY <2>7, SMTT(30)
  <2>8. a * Total(f, s) <= b * Total(g, s)
    BY <2>5, <2>6, <2>7
  <2> QED
    BY <2>8
<1> QED
  BY <1>3, <1>4

\* Equal terms have equal sums.
LEMMA TotalsEqual ==
    ASSUME NEW f, NEW g, NEW S, IsFiniteSet(S), IsInteger(f, S), \A x \in S : f[x] = g[x]
    PROVE  Total(f, S) = Total(g, S)
<1>1. IsInteger(g, S)
  BY DEF IsInteger
<1>2. \A x \in S : 1 * f[x] <= 1 * g[x] /\ 1 * g[x] <= 1 * f[x]
  BY SMTT(30) DEF IsInteger
<1>3. Total(f, S) \in Int /\ Total(g, S) \in Int
  BY <1>1, TotalIsInteger
<1>4. 1 * Total(f, S) <= 1 * Total(g, S)
  BY <1>1, <1>2, TotalsCompare, SMTT(30)
<1>5. 1 * Total(g, S) <= 1 * Total(f, S)
  BY <1>1, <1>2, TotalsCompare, SMTT(30)
<1> QED
  BY <1>3, <1>4, <1>5, SMTT(30)

\* Disjoint sets add up.
LEMMA TotalOfUnion ==
    ASSUME NEW f, NEW S, NEW T, IsFiniteSet(S), IsFiniteSet(T), S \cap T = {},
           IsInteger(f, S), IsInteger(f, T)
    PROVE  Total(f, S \cup T) = Total(f, S) + Total(f, T)
<1> DEFINE B == {s \in SUBSET S : Total(f, s \cup T) # Total(f, s) + Total(f, T)}
<1> SUFFICES ASSUME B # {} PROVE FALSE
  OBVIOUS
<1>1. PICK s \in B : \A t \in B : t \subseteq s => t = s
  <2>1. B \subseteq SUBSET S
    OBVIOUS
  <2> HIDE DEF B
  <2> QED
    BY <2>1, MinimalSet, SMTT(30)
<1>2. \A t \in SUBSET S : /\ IsFiniteSet(t) /\ IsInteger(f, t) /\ Total(f, t) \in Int
                          /\ IsFiniteSet(t \cup T) /\ IsInteger(f, t \cup T)
                          /\ Total(f, t \cup T) \in Int
  <2> TAKE t \in SUBSET S
  <2>1. IsFiniteSet(t) /\ IsInteger(f, t) /\ IsInteger(f, t \cup T)
    BY FS_Subset DEF IsInteger
  <2>2. IsFiniteSet(t \cup T)
    BY <2>1, FS_Union
  <2> QED
    BY <2>1, <2>2, TotalIsInteger
<1>3. Total(f, T) \in Int
  BY TotalIsInteger
<1>4. CASE s = {}
  <2>1. Total(f, s) = 0 /\ s \cup T = T
    BY <1>2, <1>4, TotalStep
  <2>2. Total(f, s \cup T) = Total(f, T)
    BY <2>1
  <2>3. Total(f, s \cup T) # Total(f, s) + Total(f, T)
    OBVIOUS
  <2> QED
    BY <1>3, <2>1, <2>2, <2>3, SMTT(30)
<1>5. CASE s # {}
  <2>1. PICK x \in s : TRUE
    BY <1>5
  <2>2. PICK t : t = s \ {x}
    OBVIOUS
  <2>3. t \in SUBSET S /\ t \notin B /\ (s \cup T) \ {x} = t \cup T
    BY <1>1, <2>1, <2>2
  <2>4. Total(f, s) = f[x] + Total(f, t)
    BY <1>2, <2>2, TotalOf, SMTT(30)
  <2>5. Total(f, s \cup T) = f[x] + Total(f, t \cup T)
    <3>1. PICK J, K : J = s \cup T /\ K = t \cup T
      OBVIOUS
    <3>2. IsFiniteSet(J) /\ IsInteger(f, J) /\ x \in J /\ J \ {x} = K
      BY <1>2, <2>3, <3>1
    <3>3. Total(f, J) = f[x] + Total(f, K)
      BY <3>2, TotalOf, SMTT(30)
    <3> QED
      BY <3>1, <3>3
  <2>6. f[x] \in Int /\ Total(f, t) \in Int /\ Total(f, t \cup T) \in Int
    BY <1>2, <2>3 DEF IsInteger
  <2>7. Total(f, t \cup T) = Total(f, t) + Total(f, T)
    BY <2>3
  <2> QED
    BY <1>3, <2>4, <2>5, <2>6, <2>7, SMTT(30)
<1> QED
  BY <1>4, <1>5

\* A sum of terms that are not negative only grows with its set.
LEMMA TotalGrows ==
    ASSUME NEW f, NEW S, IsFiniteSet(S), \A x \in S : f[x] \in Nat, NEW T, T \subseteq S
    PROVE  Total(f, T) <= Total(f, S) /\ Total(f, T) \in Nat
<1> DEFINE zero == [x \in S |-> 0]
<1>1. \A t \in SUBSET S : IsFiniteSet(t) /\ IsInteger(f, t) /\ IsInteger(zero, t)
  BY FS_Subset, SMTT(30) DEF IsInteger
<1>2. \A t \in SUBSET S : Total(f, t) \in Nat
  <2> TAKE t \in SUBSET S
  <2>1. PICK a, b : a = 0 /\ b = 1
    OBVIOUS
  <2>2. \A x \in t : a * zero[x] <= b * f[x]
    BY <2>1, SMTT(30)
  <2>3. Total(f, t) \in Int /\ Total(zero, t) \in Int
    BY <1>1, TotalIsInteger
  <2> HIDE DEF zero
  <2>4. a * Total(zero, t) <= b * Total(f, t)
    BY <1>1, <2>1, <2>2, TotalsCompare, SMTT(30)
  <2> QED
    BY <2>1, <2>3, <2>4, SMTT(30)
<1>3. S = T \cup (S \ T)
  OBVIOUS
<1>4. Total(f, S) = Total(f, T) + Total(f, S \ T)
  <2>1. PICK R : R = S \ T
    OBVIOUS
  <2>2. IsFiniteSet(T) /\ IsFiniteSet(R) /\ IsInteger(f, T) /\ IsInteger(f, R) /\ T \cap R = {}
    BY <1>1, <2>1
  <2>3. Total(f, T \cup R) = Total(f, T) + Total(f, R)
    BY <2>2, TotalOfUnion
  <2> QED
    BY <1>3, <2>1, <2>3
<1>5. Total(f, T) \in Nat /\ Total(f, S \ T) \in Nat
  BY <1>2
<1> QED
  BY <1>4, <1>5, SMTT(30)

\* Renaming: the sum over an injective image.
LEMMA TotalOfImage ==
    ASSUME NEW f, NEW g, NEW m, NEW S, IsFiniteSet(S), IsInteger(g, S),
           \A x, y \in S : m[x] = m[y] => x = y,
           \A x \in S : f[m[x]] = g[x]
    PROVE  IsFiniteSet({m[x] : x \in S}) /\ Total(f, {m[x] : x \in S}) = Total(g, S)
<1> DEFINE I(s) == {m[x] : x \in s}
           B == {s \in SUBSET S : ~(IsFiniteSet(I(s)) /\ Total(f, I(s)) = Total(g, s))}
<1> SUFFICES ASSUME B # {} PROVE FALSE
  OBVIOUS
<1>1. PICK s \in B : \A t \in B : t \subseteq s => t = s
  <2>1. B \subseteq SUBSET S
    OBVIOUS
  <2> HIDE DEF B
  <2> QED
    BY <2>1, MinimalSet, SMTT(30)
<1>2. IsFiniteSet(s) /\ IsInteger(g, s) /\ IsInteger(f, I(s))
  BY FS_Subset DEF IsInteger
<1>3. CASE s = {}
  <2>1. I(s) = {}
    BY <1>3
  <2>2. IsFiniteSet(I(s))
    BY <2>1, FS_EmptySet
  <2>3. Total(f, I(s)) = 0 /\ Total(g, s) = 0
    BY <1>2, <1>3, <2>1, <2>2, TotalStep
  <2> QED
    BY <2>2, <2>3
<1>4. CASE s # {}
  <2>1. PICK x \in s : TRUE
    BY <1>4
  <2>2. PICK t : t = s \ {x}
    OBVIOUS
  <2>3. t \in SUBSET S /\ t \notin B
    BY <1>1, <2>2
  <2>4. IsFiniteSet(I(t)) /\ Total(f, I(t)) = Total(g, t)
    BY <2>3
  <2>5. I(s) = I(t) \cup {m[x]} /\ m[x] \notin I(t) /\ m[x] \in I(s)
    BY <2>2, SMTT(30)
  <2>6. I(s) \ {m[x]} = I(t)
    BY <2>5
  <2>7. PICK J, K, y : J = I(s) /\ K = I(t) /\ y = m[x]
    OBVIOUS
  <2>8. IsFiniteSet(K \cup {y})
    BY <2>4, <2>7, FS_AddElement
  <2>9. IsFiniteSet(J) /\ y \in J /\ J \ {y} = K /\ IsInteger(f, J)
    BY <1>2, <2>5, <2>6, <2>7, <2>8
  <2>10. Total(f, J) = f[y] + Total(f, K)
    BY <2>9, TotalOf, SMTT(30)
  <2>11. Total(g, s) = g[x] + Total(g, t)
    BY <1>2, <2>2, TotalOf, SMTT(30)
  <2>12. f[y] = g[x]
    BY <2>7
  <2> QED
    BY <2>4, <2>7, <2>9, <2>10, <2>11, <2>12
<1> QED
  BY <1>3, <1>4

-----------------------------------------------------------------------------
\* Sizing: what the legs of an approval take stays within every cap.

\* Fractions: smaller is transitive.
LEMMA FractionsOrdered ==
    ASSUME NEW a \in Int, NEW b \in Nat \ {0}, NEW c \in Int, NEW d \in Nat \ {0},
           NEW e \in Int, NEW g \in Nat \ {0}, a * d <= c * b, c * g <= e * d
    PROVE  a * g <= e * b
<1>1. (a * d) * g <= (c * b) * g
  BY SMTT(30)
<1>2. (c * g) * b <= (e * d) * b
  BY SMTT(30)
<1>3. (a * g) * d <= (e * b) * d
  BY <1>1, <1>2, SMTT(30)
<1>4. ASSUME NEW x \in Int, NEW y \in Int, x * d <= y * d
      PROVE  x <= y
  BY <1>4, SMTT(30)
<1>5. a * g \in Int /\ e * b \in Int
  BY SMTT(30)
<1> QED
  BY <1>3, <1>4, <1>5

IsFraction(c) == c.n \in Int /\ c.d \in Nat \ {0}

\* The smallest of finitely many caps exists, and it is the scale.
LEMMA ScaleIsLeast ==
    ASSUME NEW caps, IsFiniteSet(caps), caps # {}, \A c \in caps : IsFraction(c)
    PROVE  /\ Scale(caps) \in caps
           /\ \A o \in caps : Scale(caps).n * o.d <= o.n * Scale(caps).d
<1> DEFINE Least(c, s) == \A o \in s : c.n * o.d <= o.n * c.d
           B == {s \in SUBSET caps : s # {} /\ ~\E c \in s : Least(c, s)}
<1>1. ASSUME B # {} PROVE FALSE
  <2>1. PICK s \in B : \A t \in B : t \subseteq s => t = s
    <3>1. B \subseteq SUBSET caps
      OBVIOUS
    <3> HIDE DEF B
    <3> QED
      BY <1>1, <3>1, MinimalSet, SMTT(30)
  <2>2. PICK x \in s : TRUE
    OBVIOUS
  <2>3. PICK t : t = s \ {x}
    OBVIOUS
  <2>4. IsFraction(x) /\ \A o \in t : IsFraction(o)
    BY <2>3
  <2>5. CASE t = {}
    <3>1. s = {x}
      BY <2>3, <2>5, SMTT(30)
    <3>2. x.n * x.d <= x.n * x.d
      BY <2>4, SMTT(30) DEF IsFraction
    <3>3. Least(x, s)
      BY <3>1, <3>2
    <3> QED
      BY <3>3
  <2>6. CASE t # {}
    <3>1. t \notin B
      BY <2>1, <2>3
    <3>2. PICK c \in t : Least(c, t)
      BY <2>3, <2>6, <3>1
    <3>3. CASE c.n * x.d <= x.n * c.d
      <4>1. Least(c, s)
        BY <2>3, <3>2, <3>3
      <4> QED
        BY <2>3, <4>1
    <3>4. CASE ~(c.n * x.d <= x.n * c.d)
      <4>1. x.n * c.d <= c.n * x.d
        BY <2>4, <3>4, SMTT(30) DEF IsFraction
      <4>2. ASSUME NEW o \in t
            PROVE  x.n * o.d <= o.n * x.d
        <5>1. c.n * o.d <= o.n * c.d
          BY <3>2
        <5> QED
          BY <2>4, <4>1, <5>1, FractionsOrdered DEF IsFraction
      <4>3. x.n * x.d <= x.n * x.d
        BY <2>4, SMTT(30) DEF IsFraction
      <4>4. Least(x, s)
        BY <2>3, <4>2, <4>3
      <4> QED
        BY <4>4
    <3> QED
      BY <3>3, <3>4
  <2> QED
    BY <2>5, <2>6
<1>2. \E c \in caps : Least(c, caps)
  BY <1>1
<1> QED
  BY <1>2 DEF Scale

\* Rounding down to the step never exceeds the scaled ratio.
LEMMA FloorFits ==
    ASSUME NEW n \in Int, NEW d \in Nat \ {0}, NEW step \in Nat \ {0}
    PROVE  FloorToStep(n, d, step) \in Int /\ FloorToStep(n, d, step) * d <= n
<1>1. PICK k : k = d * step
  OBVIOUS
<1>2. k \in Nat \ {0}
  BY <1>1, SMTT(30)
<1>3. PICK q : q = n \div k
  OBVIOUS
<1>4. q \in Int /\ k * q <= n
  BY <1>2, <1>3, SMTT(30)
<1>5. FloorToStep(n, d, step) = q * step
  BY <1>1, <1>3 DEF FloorToStep
<1>6. (q * step) * d = k * q
  BY <1>1, <1>4, SMTT(30)
<1> QED
  BY <1>4, <1>5, <1>6, SMTT(30)

\* Legs that get no more than the scale times their ratio take no more of a cap
\* than the cap allows.
LEMMA ScaledFits ==
    ASSUME NEW S, IsFiniteSet(S), NEW ratio, NEW lots, NEW w, NEW scale, IsFraction(scale),
           \A l \in S : /\ ratio[l] \in Int /\ lots[l] \in Int /\ w[l] \in Nat
                        /\ lots[l] * scale.d <= scale.n * ratio[l],
           NEW cap \in Int,
           scale.n * Total([l \in S |-> ratio[l] * w[l]], S) <= cap * scale.d
    PROVE  Total([l \in S |-> lots[l] * w[l]], S) <= cap
<1> DEFINE f == [l \in S |-> lots[l] * w[l]]
           g == [l \in S |-> ratio[l] * w[l]]
<1>1. IsInteger(f, S) /\ IsInteger(g, S)
  BY SMTT(30) DEF IsInteger
<1>2. scale.d \in Nat \ {0} /\ scale.n \in Int
  BY DEF IsFraction
<1>3. ASSUME NEW l \in S
      PROVE  scale.d * f[l] <= scale.n * g[l]
  <2>1. ASSUME NEW a \in Int, NEW b \in Int, NEW c \in Int, NEW r \in Int, NEW x \in Nat,
               a * b <= c * r
        PROVE  b * (a * x) <= c * (r * x)
    <3>1. (a * b) * x <= (c * r) * x
      BY <2>1, SMTT(30)
    <3> QED
      BY <3>1, SMTT(30)
  <2> QED
    BY <1>2, <2>1, SMTT(30)
<1> HIDE DEF f, g
<1>4. scale.d * Total(f, S) <= scale.n * Total(g, S)
  <2>1. PICK a, b : a = scale.d /\ b = scale.n
    OBVIOUS
  <2>2. a \in Int /\ b \in Int /\ \A l \in S : a * f[l] <= b * g[l]
    BY <1>2, <1>3, <2>1, SMTT(30)
  <2>3. a * Total(f, S) <= b * Total(g, S)
    BY <1>1, <2>2, TotalsCompare
  <2> QED
    BY <2>1, <2>3
<1>5. Total(f, S) \in Int /\ Total(g, S) \in Int
  BY <1>1, TotalIsInteger
<1>6. scale.n * Total(g, S) <= cap * scale.d
  BY DEF g
<1>7. ASSUME NEW x \in Int, NEW y \in Int, NEW d \in Nat \ {0}, d * x <= y, y <= cap * d
      PROVE  x <= cap
  BY <1>7, SMTT(30)
<1>8. Total(f, S) <= cap
  BY <1>2, <1>4, <1>5, <1>6, <1>7, SMTT(30)
<1> QED
  BY <1>8 DEF f

LEMMA TotalIsPositive ==
    ASSUME NEW f, NEW S, IsFiniteSet(S), S # {}, \A x \in S : f[x] \in Nat \ {0}
    PROVE  Total(f, S) \in Nat \ {0}
<1>1. PICK x \in S : TRUE
  OBVIOUS
<1>2. IsInteger(f, S)
  BY SMTT(30) DEF IsInteger
<1>3. Total(f, S) = f[x] + Total(f, S \ {x})
  BY <1>2, TotalOf, SMTT(30)
<1>4. Total(f, S \ {x}) \in Nat
  <2>1. PICK T : T = S \ {x}
    OBVIOUS
  <2>2. (\A y \in S : f[y] \in Nat) /\ T \subseteq S
    BY <2>1
  <2> QED
    BY <2>1, <2>2, TotalGrows
<1> QED
  BY <1>3, <1>4, SMTT(30)

\* The images of a finite set.
LEMMA ImageIsFinite ==
    ASSUME NEW S, IsFiniteSet(S), NEW f
    PROVE  IsFiniteSet({f[x] : x \in S})
<1> DEFINE g == [x \in S |-> f[x]]
           T == {f[x] : x \in S}
<1>1. g \in Surjection(S, T)
  BY DEF Surjection
<1> HIDE DEF g, T
<1>2. IsFiniteSet(T)
  BY <1>1, FS_Surjection
<1> QED
  BY <1>2 DEF T

\* Whatever sums f, sums it to the total.
LEMMA SumIsTotal ==
    ASSUME NEW f, NEW S, IsFiniteSet(S), NEW h, Sums(h, f, S)
    PROVE  h[S] = Total(f, S)
<1>1. PICK g : g = CHOOSE k : Sums(k, f, S)
  OBVIOUS
<1>2. Sums(g, f, S)
  BY <1>1
<1>3. h[S] = g[S]
  BY <1>2, SumsAgree, SMTT(30)
<1> QED
  BY <1>1, <1>3 DEF Total

\* The coefficients of the caps are such sums ...
LEMMA LossCoefficient ==
    ASSUME NEW legs, IsFiniteSet(legs)
    PROVE  MapThenSumSet(LAMBDA l : l.ratio * l.loss, legs)
              = Total([l \in legs |-> l.ratio * l.loss], legs)
<1> DEFINE f == [l \in legs |-> l.ratio * l.loss]
           H == CHOOSE h : h = [s \in SUBSET legs |->
                   IF s = {} THEN 0 ELSE Pick(s).ratio * Pick(s).loss + h[s \ {Pick(s)}]]
<1>1. MapThenSumSet(LAMBDA l : l.ratio * l.loss, legs) = H[legs]
  BY DEF MapThenSumSet, MapThenFoldSet, Pick
<1>2. \A s \in SUBSET legs : s # {} => f[Pick(s)] = Pick(s).ratio * Pick(s).loss
  BY PickIsIn
<1>3. PICK k : Sums(k, f, legs)
  BY SumsExist
<1>4. k = [s \in SUBSET legs |->
             IF s = {} THEN 0 ELSE Pick(s).ratio * Pick(s).loss + k[s \ {Pick(s)}]]
  <2> HIDE DEF f
  <2> QED
    BY <1>2, <1>3 DEF Sums
<1>5. H = [s \in SUBSET legs |->
             IF s = {} THEN 0 ELSE Pick(s).ratio * Pick(s).loss + H[s \ {Pick(s)}]]
  BY <1>4
<1> HIDE DEF f, H
<1>6. Sums(H, f, legs)
  BY <1>2, <1>5 DEF Sums
<1>7. H[legs] = Total(f, legs)
  BY <1>6, SumIsTotal
<1> QED
  BY <1>1, <1>7 DEF f

LEMMA NotionalCoefficient ==
    ASSUME NEW legs, IsFiniteSet(legs)
    PROVE  MapThenSumSet(LAMBDA l : l.ratio * l.notional, legs)
              = Total([l \in legs |-> l.ratio * l.notional], legs)
<1> DEFINE f == [l \in legs |-> l.ratio * l.notional]
           H == CHOOSE h : h = [s \in SUBSET legs |->
                   IF s = {} THEN 0 ELSE Pick(s).ratio * Pick(s).notional + h[s \ {Pick(s)}]]
<1>1. MapThenSumSet(LAMBDA l : l.ratio * l.notional, legs) = H[legs]
  BY DEF MapThenSumSet, MapThenFoldSet, Pick
<1>2. \A s \in SUBSET legs : s # {} => f[Pick(s)] = Pick(s).ratio * Pick(s).notional
  BY PickIsIn
<1>3. PICK k : Sums(k, f, legs)
  BY SumsExist
<1>4. k = [s \in SUBSET legs |->
             IF s = {} THEN 0 ELSE Pick(s).ratio * Pick(s).notional + k[s \ {Pick(s)}]]
  <2> HIDE DEF f
  <2> QED
    BY <1>2, <1>3 DEF Sums
<1>5. H = [s \in SUBSET legs |->
             IF s = {} THEN 0 ELSE Pick(s).ratio * Pick(s).notional + H[s \ {Pick(s)}]]
  BY <1>4
<1> HIDE DEF f, H
<1>6. Sums(H, f, legs)
  BY <1>2, <1>5 DEF Sums
<1>7. H[legs] = Total(f, legs)
  BY <1>6, SumIsTotal
<1> QED
  BY <1>1, <1>7 DEF f

LEMMA MarginCoefficient ==
    ASSUME NEW legs, IsFiniteSet(legs)
    PROVE  MapThenSumSet(LAMBDA l : l.ratio * l.margin, legs)
              = Total([l \in legs |-> l.ratio * l.margin], legs)
<1> DEFINE f == [l \in legs |-> l.ratio * l.margin]
           H == CHOOSE h : h = [s \in SUBSET legs |->
                   IF s = {} THEN 0 ELSE Pick(s).ratio * Pick(s).margin + h[s \ {Pick(s)}]]
<1>1. MapThenSumSet(LAMBDA l : l.ratio * l.margin, legs) = H[legs]
  BY DEF MapThenSumSet, MapThenFoldSet, Pick
<1>2. \A s \in SUBSET legs : s # {} => f[Pick(s)] = Pick(s).ratio * Pick(s).margin
  BY PickIsIn
<1>3. PICK k : Sums(k, f, legs)
  BY SumsExist
<1>4. k = [s \in SUBSET legs |->
             IF s = {} THEN 0 ELSE Pick(s).ratio * Pick(s).margin + k[s \ {Pick(s)}]]
  <2> HIDE DEF f
  <2> QED
    BY <1>2, <1>3 DEF Sums
<1>5. H = [s \in SUBSET legs |->
             IF s = {} THEN 0 ELSE Pick(s).ratio * Pick(s).margin + H[s \ {Pick(s)}]]
  BY <1>4
<1> HIDE DEF f, H
<1>6. Sums(H, f, legs)
  BY <1>2, <1>5 DEF Sums
<1>7. H[legs] = Total(f, legs)
  BY <1>6, SumIsTotal
<1> QED
  BY <1>1, <1>7 DEF f

\* ... and so are the risk, the exposure and the margin of commands.
LEMMA RiskSum ==
    ASSUME NEW cmds, NEW C, IsFiniteSet(C)
    PROVE  MapThenSumSet(LAMBDA c : cmds[c].lots * PreparedLeg[c].loss, C)
              = Total([c \in C |-> cmds[c].lots * PreparedLeg[c].loss], C)
<1> DEFINE f == [c \in C |-> cmds[c].lots * PreparedLeg[c].loss]
           H == CHOOSE h : h = [s \in SUBSET C |->
                   IF s = {} THEN 0 ELSE cmds[Pick(s)].lots * PreparedLeg[Pick(s)].loss + h[s \ {Pick(s)}]]
<1>1. MapThenSumSet(LAMBDA c : cmds[c].lots * PreparedLeg[c].loss, C) = H[C]
  BY DEF MapThenSumSet, MapThenFoldSet, Pick
<1>2. \A s \in SUBSET C : s # {} => f[Pick(s)] = cmds[Pick(s)].lots * PreparedLeg[Pick(s)].loss
  BY PickIsIn
<1>3. PICK k : Sums(k, f, C)
  BY SumsExist
<1>4. k = [s \in SUBSET C |->
             IF s = {} THEN 0 ELSE cmds[Pick(s)].lots * PreparedLeg[Pick(s)].loss + k[s \ {Pick(s)}]]
  <2> HIDE DEF f
  <2> QED
    BY <1>2, <1>3 DEF Sums
<1>5. H = [s \in SUBSET C |->
             IF s = {} THEN 0 ELSE cmds[Pick(s)].lots * PreparedLeg[Pick(s)].loss + H[s \ {Pick(s)}]]
  BY <1>4
<1> HIDE DEF f, H
<1>6. Sums(H, f, C)
  BY <1>2, <1>5 DEF Sums
<1>7. H[C] = Total(f, C)
  BY <1>6, SumIsTotal
<1> QED
  BY <1>1, <1>7 DEF f

LEMMA ExposureSum ==
    ASSUME NEW cmds, NEW C, IsFiniteSet(C)
    PROVE  MapThenSumSet(LAMBDA c : cmds[c].lots * PreparedLeg[c].notional, C)
              = Total([c \in C |-> cmds[c].lots * PreparedLeg[c].notional], C)
<1> DEFINE f == [c \in C |-> cmds[c].lots * PreparedLeg[c].notional]
           H == CHOOSE h : h = [s \in SUBSET C |->
                   IF s = {} THEN 0 ELSE cmds[Pick(s)].lots * PreparedLeg[Pick(s)].notional + h[s \ {Pick(s)}]]
<1>1. MapThenSumSet(LAMBDA c : cmds[c].lots * PreparedLeg[c].notional, C) = H[C]
  BY DEF MapThenSumSet, MapThenFoldSet, Pick
<1>2. \A s \in SUBSET C : s # {} => f[Pick(s)] = cmds[Pick(s)].lots * PreparedLeg[Pick(s)].notional
  BY PickIsIn
<1>3. PICK k : Sums(k, f, C)
  BY SumsExist
<1>4. k = [s \in SUBSET C |->
             IF s = {} THEN 0 ELSE cmds[Pick(s)].lots * PreparedLeg[Pick(s)].notional + k[s \ {Pick(s)}]]
  <2> HIDE DEF f
  <2> QED
    BY <1>2, <1>3 DEF Sums
<1>5. H = [s \in SUBSET C |->
             IF s = {} THEN 0 ELSE cmds[Pick(s)].lots * PreparedLeg[Pick(s)].notional + H[s \ {Pick(s)}]]
  BY <1>4
<1> HIDE DEF f, H
<1>6. Sums(H, f, C)
  BY <1>2, <1>5 DEF Sums
<1>7. H[C] = Total(f, C)
  BY <1>6, SumIsTotal
<1> QED
  BY <1>1, <1>7 DEF f

LEMMA MarginSum ==
    ASSUME NEW cmds, NEW C, IsFiniteSet(C)
    PROVE  MapThenSumSet(LAMBDA c : cmds[c].lots * PreparedLeg[c].margin, C)
              = Total([c \in C |-> cmds[c].lots * PreparedLeg[c].margin], C)
<1> DEFINE f == [c \in C |-> cmds[c].lots * PreparedLeg[c].margin]
           H == CHOOSE h : h = [s \in SUBSET C |->
                   IF s = {} THEN 0 ELSE cmds[Pick(s)].lots * PreparedLeg[Pick(s)].margin + h[s \ {Pick(s)}]]
<1>1. MapThenSumSet(LAMBDA c : cmds[c].lots * PreparedLeg[c].margin, C) = H[C]
  BY DEF MapThenSumSet, MapThenFoldSet, Pick
<1>2. \A s \in SUBSET C : s # {} => f[Pick(s)] = cmds[Pick(s)].lots * PreparedLeg[Pick(s)].margin
  BY PickIsIn
<1>3. PICK k : Sums(k, f, C)
  BY SumsExist
<1>4. k = [s \in SUBSET C |->
             IF s = {} THEN 0 ELSE cmds[Pick(s)].lots * PreparedLeg[Pick(s)].margin + k[s \ {Pick(s)}]]
  <2> HIDE DEF f
  <2> QED
    BY <1>2, <1>3 DEF Sums
<1>5. H = [s \in SUBSET C |->
             IF s = {} THEN 0 ELSE cmds[Pick(s)].lots * PreparedLeg[Pick(s)].margin + H[s \ {Pick(s)}]]
  BY <1>4
<1> HIDE DEF f, H
<1>6. Sums(H, f, C)
  BY <1>2, <1>5 DEF Sums
<1>7. H[C] = Total(f, C)
  BY <1>6, SumIsTotal
<1> QED
  BY <1>1, <1>7 DEF f

\* What sizing may rely on: everything a leg takes is positive.
IsSizable(l) ==
    /\ l.ratio \in Nat \ {0} /\ l.loss \in Nat \ {0} /\ l.notional \in Nat \ {0}
    /\ l.margin \in Nat \ {0} /\ l.max \in Nat \ {0} /\ l.step \in Nat \ {0}

OfSymbol(legs, s) == {l \in legs : l.symbol = s}

\* Every cap is a fraction, and there are finitely many.
LEMMA CapsAreFractions ==
    ASSUME NEW in, in.budget \in Int, in.total \in Int, in.margin \in Int,
           NEW legs, IsFiniteSet(legs), legs # {}, \A l \in legs : IsSizable(l),
           \A s \in SymbolsOf(legs) : in.exposure[s] \in Int
    PROVE  /\ IsFiniteSet(Caps(in, legs))
           /\ \A c \in Caps(in, legs) : IsFraction(c)
<1>1. IsFraction(BudgetCap(in, legs))
  <2> DEFINE f == [l \in legs |-> l.ratio * l.loss]
  <2>1. \A l \in legs : f[l] \in Nat \ {0}
    BY SMTT(30) DEF IsSizable
  <2> HIDE DEF f
  <2>2. Total(f, legs) \in Nat \ {0}
    BY <2>1, TotalIsPositive
  <2>3. BudgetCap(in, legs) = [n |-> in.budget, d |-> Total(f, legs)]
    BY LossCoefficient DEF BudgetCap, f
  <2> QED
    BY <2>2, <2>3, SMTT(30) DEF IsFraction
<1>2. IsFraction(MarginCap(in, legs))
  <2> DEFINE f == [l \in legs |-> l.ratio * l.margin]
  <2>1. \A l \in legs : f[l] \in Nat \ {0}
    BY SMTT(30) DEF IsSizable
  <2> HIDE DEF f
  <2>2. Total(f, legs) \in Nat \ {0}
    BY <2>1, TotalIsPositive
  <2>3. MarginCap(in, legs) = [n |-> in.margin, d |-> Total(f, legs)]
    BY MarginCoefficient DEF MarginCap, f
  <2> QED
    BY <2>2, <2>3, SMTT(30) DEF IsFraction
<1>3. IsFraction(TotalCap(in, legs))
  <2> DEFINE f == [l \in legs |-> l.ratio * l.notional]
  <2>1. \A l \in legs : f[l] \in Nat \ {0}
    BY SMTT(30) DEF IsSizable
  <2> HIDE DEF f
  <2>2. Total(f, legs) \in Nat \ {0}
    BY <2>1, TotalIsPositive
  <2>3. TotalCap(in, legs) = [n |-> in.total, d |-> Total(f, legs)]
    BY NotionalCoefficient DEF TotalCap, f
  <2> QED
    BY <2>2, <2>3, SMTT(30) DEF IsFraction
<1>4. \A c \in VolumeCaps(legs) : IsFraction(c)
  BY SMTT(30) DEF VolumeCaps, IsFraction, IsSizable
<1>5. \A c \in SymbolCaps(in, legs) : IsFraction(c)
  <2> SUFFICES ASSUME NEW s \in SymbolsOf(legs)
               PROVE  IsFraction([n |-> in.exposure[s],
                                  d |-> MapThenSumSet(LAMBDA l : l.ratio * l.notional,
                                                      {l \in legs : l.symbol = s})])
    BY DEF SymbolCaps
  <2>1. PICK S : S = OfSymbol(legs, s)
    OBVIOUS
  <2> DEFINE f == [l \in S |-> l.ratio * l.notional]
  <2>2. IsFiniteSet(S) /\ S # {}
    BY <2>1, FS_Subset DEF OfSymbol, SymbolsOf
  <2>3. \A l \in S : f[l] \in Nat \ {0}
    BY <2>1, SMTT(30) DEF OfSymbol, IsSizable
  <2> HIDE DEF f
  <2>4. Total(f, S) \in Nat \ {0}
    BY <2>2, <2>3, TotalIsPositive
  <2>5. MapThenSumSet(LAMBDA l : l.ratio * l.notional, S) = Total(f, S)
    BY <2>2, NotionalCoefficient DEF f
  <2> QED
    BY <2>1, <2>4, <2>5 DEF IsFraction, OfSymbol
<1>6. IsFiniteSet(VolumeCaps(legs))
  <2> DEFINE g == [l \in legs |-> [n |-> l.max, d |-> l.ratio]]
  <2>1. VolumeCaps(legs) = {g[l] : l \in legs}
    BY DEF VolumeCaps
  <2> HIDE DEF g
  <2> QED
    BY <2>1, ImageIsFinite, SMTT(30)
<1>7. IsFiniteSet(SymbolCaps(in, legs))
  <2> DEFINE cap(s) == [n |-> in.exposure[s],
                        d |-> MapThenSumSet(LAMBDA l : l.ratio * l.notional,
                                            {l \in legs : l.symbol = s})]
             g == [k \in legs |-> cap(k.symbol)]
  <2>1. SymbolCaps(in, legs) = {cap(s) : s \in SymbolsOf(legs)}
    BY DEF SymbolCaps
  <2> HIDE DEF cap
  <2>2. SymbolCaps(in, legs) = {g[k] : k \in legs}
    BY <2>1 DEF SymbolsOf
  <2> HIDE DEF g
  <2> QED
    BY <2>2, ImageIsFinite, SMTT(30)
<1>8. IsFiniteSet({BudgetCap(in, legs), TotalCap(in, legs), MarginCap(in, legs)})
  <2>1. PICK a, b, c : a = BudgetCap(in, legs) /\ b = TotalCap(in, legs) /\ c = MarginCap(in, legs)
    OBVIOUS
  <2>2. IsFiniteSet({a})
    BY FS_Singleton
  <2>3. IsFiniteSet({a} \cup {b})
    BY <2>2, FS_AddElement
  <2>4. IsFiniteSet(({a} \cup {b}) \cup {c})
    BY <2>3, FS_AddElement
  <2>5. ({a} \cup {b}) \cup {c} = {a, b, c}
    OBVIOUS
  <2> QED
    BY <2>1, <2>4, <2>5
<1>9. IsFiniteSet(Caps(in, legs))
  <2>1. PICK a, b, c : /\ a = {BudgetCap(in, legs), TotalCap(in, legs), MarginCap(in, legs)}
                       /\ b = VolumeCaps(legs) /\ c = SymbolCaps(in, legs)
    OBVIOUS
  <2>2. IsFiniteSet(a \cup b)
    BY <1>6, <1>8, <2>1, FS_Union
  <2>3. IsFiniteSet((a \cup b) \cup c)
    BY <1>7, <2>1, <2>2, FS_Union
  <2> QED
    BY <2>1, <2>3 DEF Caps
<1> QED
  BY <1>1, <1>2, <1>3, <1>4, <1>5, <1>9 DEF Caps

\* What the sized legs take together of one limit: w is what a lot takes.
LEMMA SizedWithin ==
    ASSUME NEW in, in.budget \in Int, in.total \in Int, in.margin \in Int,
           NEW legs, IsFiniteSet(legs), legs # {}, \A l \in legs : IsSizable(l),
           \A s \in SymbolsOf(legs) : in.exposure[s] \in Int,
           NEW S, S \subseteq legs, NEW w, \A l \in S : w[l] \in Nat,
           NEW cap \in Int, [n |-> cap, d |-> Total([l \in S |-> l.ratio * w[l]], S)] \in Caps(in, legs)
    PROVE  Total([l \in S |-> Lots(in, legs, l) * w[l]], S) <= cap
<1>1. PICK scale : scale = Scale(Caps(in, legs))
  OBVIOUS
<1>2. Caps(in, legs) # {}
  OBVIOUS
<1>3. PICK caps : caps = Caps(in, legs)
  OBVIOUS
<1>4. IsFiniteSet(caps) /\ \A c \in caps : IsFraction(c)
  BY <1>3, CapsAreFractions
<1>5. /\ Scale(caps) \in caps
      /\ \A o \in caps : Scale(caps).n * o.d <= o.n * Scale(caps).d
  BY <1>2, <1>3, <1>4, ScaleIsLeast
<1>6. IsFraction(scale) /\ \A o \in caps : scale.n * o.d <= o.n * scale.d
  BY <1>1, <1>3, <1>4, <1>5
<1> DEFINE ratio == [l \in legs |-> l.ratio]
           lots == [l \in legs |-> Lots(in, legs, l)]
<1>7. \A l \in S : /\ ratio[l] \in Int /\ lots[l] \in Int /\ w[l] \in Nat
                   /\ lots[l] * scale.d <= scale.n * ratio[l]
  <2> SUFFICES ASSUME NEW l \in S
               PROVE  /\ lots[l] \in Int /\ ratio[l] \in Int
                      /\ lots[l] * scale.d <= scale.n * ratio[l]
    OBVIOUS
  <2>1. lots[l] = FloorToStep(scale.n * l.ratio, scale.d, l.step)
    BY <1>1 DEF Lots
  <2>2. PICK n, d, st : n = scale.n * l.ratio /\ d = scale.d /\ st = l.step
    OBVIOUS
  <2>3. n \in Int /\ d \in Nat \ {0} /\ st \in Nat \ {0} /\ ratio[l] = l.ratio /\ l.ratio \in Int
    BY <1>6, <2>2, SMTT(30) DEF IsSizable, IsFraction
  <2>4. FloorToStep(n, d, st) \in Int /\ FloorToStep(n, d, st) * d <= n
    BY <2>3, FloorFits
  <2> QED
    BY <2>1, <2>2, <2>3, <2>4
<1>8. IsFiniteSet(S)
  BY FS_Subset
<1>9. [l \in S |-> ratio[l] * w[l]] = [l \in S |-> l.ratio * w[l]]
  OBVIOUS
<1>10. [l \in S |-> lots[l] * w[l]] = [l \in S |-> Lots(in, legs, l) * w[l]]
  OBVIOUS
<1>11. scale.n * Total([l \in S |-> ratio[l] * w[l]], S) <= cap * scale.d
  BY <1>3, <1>6, <1>9
<1> HIDE DEF ratio, lots
<1>12. Total([l \in S |-> lots[l] * w[l]], S) <= cap
  BY <1>6, <1>7, <1>8, <1>11, ScaledFits
<1> QED
  BY <1>10, <1>12

\* Sized legs keep every limit: their loss the budget, their notional the exposure
\* left, of each symbol and of the account, and their margin the margin left.
LEMMA SizedFits ==
    ASSUME NEW in, in.budget \in Int, in.total \in Int, in.margin \in Int,
           NEW legs, IsFiniteSet(legs), legs # {}, \A l \in legs : IsSizable(l),
           \A s \in SymbolsOf(legs) : in.exposure[s] \in Int
    PROVE  /\ Total([l \in legs |-> Lots(in, legs, l) * l.loss], legs) <= in.budget
           /\ Total([l \in legs |-> Lots(in, legs, l) * l.notional], legs) <= in.total
           /\ Total([l \in legs |-> Lots(in, legs, l) * l.margin], legs) <= in.margin
           /\ \A s \in SymbolsOf(legs) :
                 Total([l \in OfSymbol(legs, s) |-> Lots(in, legs, l) * l.notional],
                       OfSymbol(legs, s)) <= in.exposure[s]
<1> DEFINE loss == [l \in legs |-> l.loss]
           notional == [l \in legs |-> l.notional]
           margin == [l \in legs |-> l.margin]
<1>1. \A l \in legs : loss[l] \in Nat /\ notional[l] \in Nat /\ margin[l] \in Nat
  BY DEF IsSizable
<1>2. Total([l \in legs |-> Lots(in, legs, l) * l.loss], legs) <= in.budget
  <2>1. PICK cap : cap = in.budget
    OBVIOUS
  <2>2. [l \in legs |-> l.ratio * loss[l]] = [l \in legs |-> l.ratio * l.loss]
    OBVIOUS
  <2>3. [n |-> cap, d |-> Total([l \in legs |-> l.ratio * loss[l]], legs)] \in Caps(in, legs)
    BY <2>1, <2>2, LossCoefficient DEF Caps, BudgetCap
  <2>4. [l \in legs |-> Lots(in, legs, l) * loss[l]] = [l \in legs |-> Lots(in, legs, l) * l.loss]
    OBVIOUS
  <2> HIDE DEF loss
  <2>5. Total([l \in legs |-> Lots(in, legs, l) * loss[l]], legs) <= cap
    BY <1>1, <2>1, <2>3, SizedWithin
  <2> QED
    BY <2>1, <2>4, <2>5
<1>3. Total([l \in legs |-> Lots(in, legs, l) * l.notional], legs) <= in.total
  <2>1. PICK cap : cap = in.total
    OBVIOUS
  <2>2. [l \in legs |-> l.ratio * notional[l]] = [l \in legs |-> l.ratio * l.notional]
    OBVIOUS
  <2>3. [n |-> cap, d |-> Total([l \in legs |-> l.ratio * notional[l]], legs)] \in Caps(in, legs)
    BY <2>1, <2>2, NotionalCoefficient DEF Caps, TotalCap
  <2>4. [l \in legs |-> Lots(in, legs, l) * notional[l]]
           = [l \in legs |-> Lots(in, legs, l) * l.notional]
    OBVIOUS
  <2> HIDE DEF notional
  <2>5. Total([l \in legs |-> Lots(in, legs, l) * notional[l]], legs) <= cap
    BY <1>1, <2>1, <2>3, SizedWithin
  <2> QED
    BY <2>1, <2>4, <2>5
<1>4. Total([l \in legs |-> Lots(in, legs, l) * l.margin], legs) <= in.margin
  <2>1. PICK cap : cap = in.margin
    OBVIOUS
  <2>2. [l \in legs |-> l.ratio * margin[l]] = [l \in legs |-> l.ratio * l.margin]
    OBVIOUS
  <2>3. [n |-> cap, d |-> Total([l \in legs |-> l.ratio * margin[l]], legs)] \in Caps(in, legs)
    BY <2>1, <2>2, MarginCoefficient DEF Caps, MarginCap
  <2>4. [l \in legs |-> Lots(in, legs, l) * margin[l]]
           = [l \in legs |-> Lots(in, legs, l) * l.margin]
    OBVIOUS
  <2> HIDE DEF margin
  <2>5. Total([l \in legs |-> Lots(in, legs, l) * margin[l]], legs) <= cap
    BY <1>1, <2>1, <2>3, SizedWithin
  <2> QED
    BY <2>1, <2>4, <2>5
<1>5. ASSUME NEW s \in SymbolsOf(legs)
      PROVE  Total([l \in OfSymbol(legs, s) |-> Lots(in, legs, l) * l.notional],
                   OfSymbol(legs, s)) <= in.exposure[s]
  <2>1. PICK cap, S : cap = in.exposure[s] /\ S = OfSymbol(legs, s)
    OBVIOUS
  <2>2. S \subseteq legs /\ IsFiniteSet(S)
    BY <2>1, FS_Subset DEF OfSymbol
  <2>3. [l \in S |-> l.ratio * notional[l]] = [l \in S |-> l.ratio * l.notional]
    BY <2>2
  <2>4. [n |-> cap, d |-> Total([l \in S |-> l.ratio * notional[l]], S)] \in Caps(in, legs)
    <3>1. [n |-> in.exposure[s], d |-> MapThenSumSet(LAMBDA l : l.ratio * l.notional, S)]
             \in SymbolCaps(in, legs)
      BY <2>1 DEF SymbolCaps, OfSymbol
    <3> QED
      BY <2>1, <2>2, <2>3, <3>1, NotionalCoefficient DEF Caps
  <2>5. [l \in S |-> Lots(in, legs, l) * notional[l]] = [l \in S |-> Lots(in, legs, l) * l.notional]
    BY <2>2
  <2> HIDE DEF notional
  <2>6. \A l \in S : notional[l] \in Nat
    BY <1>1, <2>2
  <2>7. Total([l \in S |-> Lots(in, legs, l) * notional[l]], S) <= cap
    BY <2>1, <2>2, <2>4, <2>6, SizedWithin
  <2> QED
    BY <2>1, <2>5, <2>7
<1> QED
  BY <1>2, <1>3, <1>4, <1>5

-----------------------------------------------------------------------------
\* Sizing a single leg.

LEMMA TotalOfOne ==
    ASSUME NEW f, NEW x, f[x] \in Int
    PROVE  Total(f, {x}) = f[x]
<1>1. PICK S : S = {x}
  OBVIOUS
<1>2. IsFiniteSet(S) /\ IsInteger(f, S)
  BY <1>1, FS_Singleton DEF IsInteger
<1>3. Total(f, S) = f[x] + Total(f, S \ {x})
  BY <1>1, <1>2, TotalOf
<1>4. PICK E : E = S \ {x}
  OBVIOUS
<1>5. E = {} /\ IsFiniteSet(E) /\ IsInteger(f, E)
  BY <1>1, <1>4, FS_EmptySet DEF IsInteger
<1>6. Total(f, E) = 0
  BY <1>5, TotalStep
<1> QED
  BY <1>1, <1>3, <1>4, <1>6, SMTT(30)

\* Rounding down gives the largest multiple of the step that fits.
LEMMA FloorIsLargest ==
    ASSUME NEW n \in Int, NEW d \in Nat \ {0}, NEW step \in Nat \ {0}
    PROVE  /\ FloorToStep(n, d, step) \in Int
           /\ FloorToStep(n, d, step) % step = 0
           /\ FloorToStep(n, d, step) * d <= n
           /\ \A q \in Int : q % step = 0 /\ q * d <= n => q <= FloorToStep(n, d, step)
<1>1. PICK k, f : k = d * step /\ f = n \div k
  OBVIOUS
<1>2. k \in Nat \ {0}
  BY <1>1, SMTT(30)
<1>3. f \in Int /\ k * f <= n /\ n < k * (f + 1)
  BY <1>1, <1>2, SMTT(30)
<1>4. FloorToStep(n, d, step) = f * step
  BY <1>1 DEF FloorToStep
<1>5. (f * step) % step = 0
  <2>1. PICK m, t, r : m = f * step /\ t = m \div step /\ r = m % step
    OBVIOUS
  <2>2. m \in Int /\ t \in Int /\ r \in 0 .. step - 1 /\ m = step * t + r
    BY <1>3, <2>1, SMTT(30)
  <2>3. PICK u : u = f - t
    OBVIOUS
  <2>4. u \in Int /\ step * u = r
    BY <1>3, <2>1, <2>2, <2>3, SMTT(30)
  <2>5. CASE u >= 1
    <3>1. step * u >= step
      BY <2>4, <2>5, SMTT(30)
    <3> QED
      BY <2>2, <2>4, <3>1, SMTT(30)
  <2>6. CASE u <= -1
    <3>1. step * u <= -step
      BY <2>4, <2>6, SMTT(30)
    <3> QED
      BY <2>2, <2>4, <3>1, SMTT(30)
  <2>7. CASE u = 0
    BY <2>1, <2>4, <2>7, SMTT(30)
  <2> QED
    BY <2>4, <2>5, <2>6, <2>7, SMTT(30)
<1>6. ASSUME NEW q \in Int, q % step = 0, q * d <= n
      PROVE  q <= f * step
  <2>1. PICK j : j = q \div step
    OBVIOUS
  <2>2. j \in Int /\ q = step * j
    BY <1>6, <2>1, SMTT(30)
  <2>3. q * d = k * j
    BY <1>1, <2>2, SMTT(30)
  <2>4. k * j < k * (f + 1)
    BY <1>2, <1>3, <1>6, <2>2, <2>3, SMTT(30)
  <2>5. j < f + 1
    BY <1>2, <1>3, <2>2, <2>4, SMTT(30)
  <2>6. j <= f
    BY <1>3, <2>2, <2>5, SMTT(30)
  <2>7. step * j <= step * f
    BY <1>3, <2>2, <2>6, SMTT(30)
  <2> QED
    BY <1>3, <2>2, <2>7, SMTT(30)
<1>7. FloorToStep(n, d, step) * d <= n /\ FloorToStep(n, d, step) \in Int
  BY FloorFits
<1> QED
  BY <1>4, <1>5, <1>6, <1>7

\* A volume within the scale keeps a cap, and one that keeps the cap that is the
\* scale is within it.
LEMMA WithinCap ==
    ASSUME NEW q \in Int, NEW r \in Nat \ {0}, NEW w \in Nat, NEW limit \in Int,
           NEW n \in Int, NEW d \in Nat \ {0}
    PROVE  /\ n * (r * w) <= limit * d /\ q * d <= n * r => q * w <= limit
           /\ n = limit /\ d = r * w /\ q * w <= limit => q * d <= n * r
<1>1. ASSUME n * (r * w) <= limit * d, q * d <= n * r
      PROVE  q * w <= limit
  <2>1. (q * d) * w <= (n * r) * w
    BY <1>1, SMTT(30)
  <2>2. (q * w) * d <= limit * d
    BY <1>1, <2>1, SMTT(30)
  <2>3. PICK a : a = q * w
    OBVIOUS
  <2>4. a \in Int /\ a * d <= limit * d
    BY <2>2, <2>3, SMTT(30)
  <2>5. a <= limit
    BY <2>4, SMTT(30)
  <2> QED
    BY <2>3, <2>5
<1>2. ASSUME n = limit, d = r * w, q * w <= limit
      PROVE  q * d <= n * r
  <2>1. (q * w) * r <= limit * r
    BY <1>2, SMTT(30)
  <2> QED
    BY <1>2, <2>1, SMTT(30)
<1> QED
  BY <1>1, <1>2

\* The caps of a single leg.
LEMMA SingleCaps ==
    ASSUME NEW in, NEW l, IsSizable(l)
    PROVE  Caps(in, {l}) = {[n |-> in.budget, d |-> l.ratio * l.loss],
                            [n |-> in.total, d |-> l.ratio * l.notional],
                            [n |-> in.margin, d |-> l.ratio * l.margin],
                            [n |-> l.max, d |-> l.ratio],
                            [n |-> in.exposure[l.symbol], d |-> l.ratio * l.notional]}
<1>1. PICK S : S = {l}
  OBVIOUS
<1>2. IsFiniteSet(S)
  BY <1>1, FS_Singleton
<1>3. /\ l.ratio * l.loss \in Int /\ l.ratio * l.notional \in Int /\ l.ratio * l.margin \in Int
  BY SMTT(30) DEF IsSizable
<1>4. BudgetCap(in, S) = [n |-> in.budget, d |-> l.ratio * l.loss]
  <2> DEFINE f == [k \in S |-> k.ratio * k.loss]
  <2>1. f[l] = l.ratio * l.loss
    BY <1>1
  <2> HIDE DEF f
  <2>2. Total(f, S) = f[l]
    BY <1>1, <1>3, <2>1, TotalOfOne
  <2>3. MapThenSumSet(LAMBDA k : k.ratio * k.loss, S) = Total(f, S)
    BY <1>2, LossCoefficient DEF f
  <2> QED
    BY <2>1, <2>2, <2>3 DEF BudgetCap
<1>5. /\ TotalCap(in, S) = [n |-> in.total, d |-> l.ratio * l.notional]
      /\ MapThenSumSet(LAMBDA k : k.ratio * k.notional, S) = l.ratio * l.notional
  <2> DEFINE f == [k \in S |-> k.ratio * k.notional]
  <2>1. f[l] = l.ratio * l.notional
    BY <1>1
  <2> HIDE DEF f
  <2>2. Total(f, S) = f[l]
    BY <1>1, <1>3, <2>1, TotalOfOne
  <2>3. MapThenSumSet(LAMBDA k : k.ratio * k.notional, S) = Total(f, S)
    BY <1>2, NotionalCoefficient DEF f
  <2> QED
    BY <2>1, <2>2, <2>3 DEF TotalCap
<1>6. MarginCap(in, S) = [n |-> in.margin, d |-> l.ratio * l.margin]
  <2> DEFINE f == [k \in S |-> k.ratio * k.margin]
  <2>1. f[l] = l.ratio * l.margin
    BY <1>1
  <2> HIDE DEF f
  <2>2. Total(f, S) = f[l]
    BY <1>1, <1>3, <2>1, TotalOfOne
  <2>3. MapThenSumSet(LAMBDA k : k.ratio * k.margin, S) = Total(f, S)
    BY <1>2, MarginCoefficient DEF f
  <2> QED
    BY <2>1, <2>2, <2>3 DEF MarginCap
<1>7. VolumeCaps(S) = {[n |-> l.max, d |-> l.ratio]}
  BY <1>1 DEF VolumeCaps
<1>8. SymbolCaps(in, S) = {[n |-> in.exposure[l.symbol], d |-> l.ratio * l.notional]}
  <2>1. SymbolsOf(S) = {l.symbol} /\ {k \in S : k.symbol = l.symbol} = S
    BY <1>1 DEF SymbolsOf
  <2>2. SymbolCaps(in, S)
           = {[n |-> in.exposure[l.symbol],
               d |-> MapThenSumSet(LAMBDA k : k.ratio * k.notional,
                                   {k \in S : k.symbol = l.symbol})]}
    BY <2>1 DEF SymbolCaps
  <2> QED
    BY <1>5, <2>1, <2>2
<1> QED
  BY <1>1, <1>4, <1>5, <1>6, <1>7, <1>8 DEF Caps

\* The largest affordable volume is the one sizing gives, or none is affordable.
LEMMA SingleIsLargest ==
    ASSUME NEW in, in.budget \in Int, in.total \in Int, in.margin \in Int,
           \A s \in DOMAIN in.exposure : in.exposure[s] >= 0,
           NEW l, IsSizable(l), l.min \in Nat, in.exposure[l.symbol] \in Int
    PROVE  LargestAffordable(in, l) = IF Sizable(in, {l}) THEN Lots(in, {l}, l) ELSE 0
<1>1. PICK legs, caps, c, L, r, x : /\ legs = {l} /\ caps = Caps(in, legs) /\ c = Scale(caps)
                                    /\ L = Lots(in, legs, l) /\ r = l.ratio
                                    /\ x = in.exposure[l.symbol]
  OBVIOUS
<1>2. caps = {[n |-> in.budget, d |-> r * l.loss], [n |-> in.total, d |-> r * l.notional],
              [n |-> in.margin, d |-> r * l.margin], [n |-> l.max, d |-> r],
              [n |-> x, d |-> r * l.notional]}
  BY <1>1, SingleCaps
<1>3. /\ r \in Nat \ {0} /\ l.loss \in Nat \ {0} /\ l.notional \in Nat \ {0}
      /\ l.margin \in Nat \ {0} /\ l.max \in Nat \ {0} /\ l.step \in Nat \ {0} /\ x \in Int
  BY <1>1 DEF IsSizable
<1>4. IsFiniteSet(legs) /\ legs # {} /\ (\A k \in legs : IsSizable(k)) /\ SymbolsOf(legs) = {l.symbol}
  BY <1>1, FS_Singleton DEF SymbolsOf
<1>5. IsFiniteSet(caps) /\ \A o \in caps : IsFraction(o)
  BY <1>1, <1>4, CapsAreFractions
<1>6. c \in caps /\ \A o \in caps : c.n * o.d <= o.n * c.d
  BY <1>1, <1>2, <1>5, ScaleIsLeast
<1>7. PICK n, d : n = c.n /\ d = c.d
  OBVIOUS
<1>8. n \in Int /\ d \in Nat \ {0}
  BY <1>5, <1>6, <1>7 DEF IsFraction
<1>9. /\ n * (r * l.loss) <= in.budget * d /\ n * (r * l.notional) <= in.total * d
      /\ n * (r * l.margin) <= in.margin * d /\ n * r <= l.max * d
      /\ n * (r * l.notional) <= x * d
  BY <1>2, <1>6, <1>7
<1>10. \/ n = in.budget /\ d = r * l.loss
       \/ n = in.total /\ d = r * l.notional
       \/ n = in.margin /\ d = r * l.margin
       \/ n = l.max /\ d = r
       \/ n = x /\ d = r * l.notional
  BY <1>2, <1>6, <1>7, SMTT(30)
<1> DEFINE Keeps(q) == /\ q <= l.max /\ q * l.loss <= in.budget /\ q * l.notional <= x
                       /\ q * l.notional <= in.total /\ q * l.margin <= in.margin
<1>11. ASSUME NEW q \in Int, q * d <= n * r
       PROVE  Keeps(q)
  <2>0. ASSUME NEW w \in Nat, NEW limit \in Int, n * (r * w) <= limit * d
        PROVE  q * w <= limit
    BY <1>3, <1>8, <1>11, <2>0, WithinCap
  <2>1. q * l.loss <= in.budget
    BY <1>3, <1>9, <2>0
  <2>2. q * l.notional <= in.total
    BY <1>3, <1>9, <2>0
  <2>3. q * l.margin <= in.margin
    BY <1>3, <1>9, <2>0
  <2>4. q * l.notional <= x
    BY <1>3, <1>9, <2>0
  <2>5. q <= l.max
    <3>1. PICK w : w = 1
      OBVIOUS
    <3>2. w \in Nat /\ n * (r * w) <= l.max * d
      BY <1>3, <1>8, <1>9, <3>1, SMTT(30)
    <3>3. l.max \in Int
      BY <1>3, SMTT(30)
    <3>4. q * w <= l.max
      BY <2>0, <3>2, <3>3
    <3> QED
      BY <3>1, <3>4, SMTT(30)
  <2> QED
    BY <2>1, <2>2, <2>3, <2>4, <2>5
<1>12. ASSUME NEW q \in Int, Keeps(q)
       PROVE  q * d <= n * r
  <2>1. CASE n = in.budget /\ d = r * l.loss
    BY <1>3, <1>8, <1>12, <2>1, WithinCap, SMTT(30)
  <2>2. CASE n = in.total /\ d = r * l.notional
    BY <1>3, <1>8, <1>12, <2>2, WithinCap, SMTT(30)
  <2>3. CASE n = in.margin /\ d = r * l.margin
    BY <1>3, <1>8, <1>12, <2>3, WithinCap, SMTT(30)
  <2>4. CASE n = l.max /\ d = r
    BY <1>3, <1>12, <2>4, SMTT(30)
  <2>5. CASE n = x /\ d = r * l.notional
    BY <1>3, <1>8, <1>12, <2>5, WithinCap, SMTT(30)
  <2> QED
    BY <1>10, <2>1, <2>2, <2>3, <2>4, <2>5
<1>13. /\ L \in Int /\ L % l.step = 0 /\ L * d <= n * r
       /\ \A q \in Int : q % l.step = 0 /\ q * d <= n * r => q <= L
  <2>1. PICK m, st : m = n * r /\ st = l.step
    OBVIOUS
  <2>2. m \in Int /\ st \in Nat \ {0}
    BY <1>3, <1>8, <2>1, SMTT(30)
  <2>3. L = FloorToStep(m, d, st)
    BY <1>1, <1>7, <2>1 DEF Lots
  <2>4. /\ FloorToStep(m, d, st) \in Int /\ FloorToStep(m, d, st) % st = 0
        /\ FloorToStep(m, d, st) * d <= m
        /\ \A q \in Int : q % st = 0 /\ q * d <= m => q <= FloorToStep(m, d, st)
    BY <1>8, <2>2, FloorIsLargest
  <2> QED
    BY <2>1, <2>3, <2>4
<1> DEFINE A == {q \in 1 .. l.max : Affordable(in, l, q)}
<1>14. \A q \in 1 .. l.max :
          Affordable(in, l, q) <=> q % l.step = 0 /\ q >= l.min /\ Keeps(q)
  BY <1>1 DEF Affordable
<1>15. ASSUME NEW q \in A
       PROVE  q \in Nat /\ q >= 1 /\ q >= l.min /\ q <= L /\ Keeps(q)
  <2>1. q \in Int /\ q >= 1 /\ q <= l.max
    BY <1>3, SMTT(30)
  <2>2. q % l.step = 0 /\ q >= l.min /\ Keeps(q)
    BY <1>14
  <2>3. q * d <= n * r
    BY <1>12, <2>1, <2>2
  <2> QED
    BY <1>13, <2>1, <2>2, <2>3, SMTT(30)
<1>16. LargestAffordable(in, l) = CHOOSE m \in {0} \cup A : \A q \in {0} \cup A : m >= q
  BY DEF LargestAffordable, Max
<1>17. CASE Sizable(in, legs)
  <2>1. L > 0 /\ L >= l.min
    BY <1>1, <1>17 DEF Sizable
  <2>2. Keeps(L)
    BY <1>11, <1>13
  <2>3. L \in A
    BY <1>3, <1>13, <1>14, <2>1, <2>2, SMTT(30)
  <2> HIDE DEF A
  <2>4. L \in {0} \cup A /\ \A q \in {0} \cup A : L >= q /\ q \in Int
    BY <1>13, <1>15, <2>1, <2>3, SMTT(30)
  <2>5. \A m \in {0} \cup A : (\A q \in {0} \cup A : m >= q) => m = L
    BY <1>13, <2>4, SMTT(30)
  <2> QED
    BY <1>1, <1>16, <1>17, <2>4, <2>5
<1>18. CASE ~Sizable(in, legs)
  <2>1. ASSUME NEW q \in A PROVE FALSE
    <3>1. L > 0 /\ L >= l.min
      BY <1>13, <1>15, SMTT(30)
    <3>2. q \in Nat \ {0} /\ Keeps(q)
      BY <1>15, SMTT(30)
    <3>3. \A a \in Nat \ {0} : q * a > 0 /\ q * a \in Int
      BY <3>2, SMTT(30)
    <3>4. in.budget > 0 /\ in.total > 0 /\ in.margin > 0 /\ x > 0
      <4>1. /\ q * l.loss > 0 /\ q * l.notional > 0 /\ q * l.margin > 0
            /\ q * l.loss \in Int /\ q * l.notional \in Int /\ q * l.margin \in Int
        BY <1>3, <3>3
      <4> QED
        BY <1>3, <3>2, <4>1, SMTT(30)
    <3>5. Available(in, legs)
      BY <1>1, <1>4, <3>4 DEF Available
    <3>6. \A k \in legs : Lots(in, legs, k) > 0 /\ Lots(in, legs, k) >= k.min
      BY <1>1, <3>1
    <3> QED
      BY <1>18, <3>5, <3>6 DEF Sizable
  <2>2. A = {}
    BY <2>1
  <2>3. {0} \cup A = {0}
    BY <2>2
  <2>4. LargestAffordable(in, l) = 0
    BY <1>16, <2>3, SMTT(30)
  <2> QED
    BY <1>1, <1>18, <2>4
<1> QED
  BY <1>17, <1>18

-----------------------------------------------------------------------------
\* What the metadata makes of a leg.

LEMMA CeilIsPositive ==
    ASSUME NEW a \in Nat, NEW b \in Nat \ {0}
    PROVE  Ceil(a, b) \in Nat /\ (a > 0 => Ceil(a, b) > 0)
<1>1. PICK n, q : n = a + b - 1 /\ q = n \div b
  OBVIOUS
<1>2. n \in Nat /\ q \in Int /\ b * q <= n /\ n < b * (q + 1)
  BY <1>1, SMTT(30)
<1>3. q >= 0
  <2> SUFFICES ASSUME q + 1 <= 0 PROVE FALSE
    BY <1>2, SMTT(30)
  <2>1. b * (q + 1) <= 0
    BY <1>2, SMTT(30)
  <2> QED
    BY <1>2, <2>1, SMTT(30)
<1>4. a > 0 => q # 0
  <2> SUFFICES ASSUME a > 0, q = 0 PROVE FALSE
    OBVIOUS
  <2>1. b * (q + 1) = b
    BY SMTT(30)
  <2> QED
    BY <1>1, <1>2, <2>1, SMTT(30)
<1> QED
  BY <1>1, <1>2, <1>3, <1>4, SMTT(30) DEF Ceil

LEMMA MaxOfThree ==
    ASSUME NEW a \in Int, NEW b \in Int, NEW c \in Int
    PROVE  /\ Max({a, b, c}) \in Int
           /\ Max({a, b, c}) >= a /\ Max({a, b, c}) >= b /\ Max({a, b, c}) >= c
<1>1. \E x \in {a, b, c} : \A y \in {a, b, c} : x >= y
  BY SMTT(30)
<1>2. PICK m : m = CHOOSE x \in {a, b, c} : \A y \in {a, b, c} : x >= y
  OBVIOUS
<1>3. m \in {a, b, c} /\ \A y \in {a, b, c} : m >= y
  BY <1>1, <1>2
<1> QED
  BY <1>2, <1>3 DEF Max

\* A command's leg is that of its intent.
LEMMA CommandsAreLegs ==
    ASSUME NEW c \in Commands
    PROVE  /\ c[1] \in Intents /\ c[2] \in LegsOf(c[1]) /\ c = <<c[1], c[2]>>
           /\ SymbolOf(c) \in Symbols
           /\ c[2].action \in {"BUY", "SELL"}
           /\ c[2].ratio \in Nat \ {0} /\ c[2].stop \in Nat \ {0}
BY IntentsAssumption, LegsAssumption, SMTT(30) DEF Commands, SymbolOf

LEMMA LegIsPriced ==
    ASSUME NEW c \in Commands
    PROVE  /\ PreparedLeg[c].loss \in Nat
           /\ StopIsValid(Metadata(SymbolOf(c)), c[2]) => PreparedLeg[c].loss \in Nat \ {0}
           /\ PreparedLeg[c].notional \in Nat \ {0}
           /\ PreparedLeg[c].margin \in Nat \ {0} /\ PreparedLeg[c].ratio \in Nat \ {0}
           /\ PreparedLeg[c].max \in Nat \ {0} /\ PreparedLeg[c].step \in Nat \ {0}
           /\ PreparedLeg[c].id = c[2].id /\ PreparedLeg[c].symbol = SymbolOf(c)
<1>1. PICK m, l, p : m = Metadata(SymbolOf(c)) /\ l = c[2] /\ p = PreparedLeg[c]
  OBVIOUS
<1>2. p = Prepared(m, l)
  BY <1>1 DEF PreparedLeg
<1>3. /\ {m.bid, m.ask, m.tick, m.value, m.margin, m.min, m.max, m.step} \subseteq Nat \ {0}
      /\ {m.deviation, m.cost, m.stops} \subseteq Nat
  BY <1>1, CommandsAreLegs, MetadataAssumption
<1>4. l.action \in {"BUY", "SELL"} /\ l.ratio \in Nat \ {0} /\ l.stop \in Nat \ {0}
  BY <1>1, CommandsAreLegs
<1>5. PICK e : e = WorstEntry(m, l.action)
  OBVIOUS
<1>6. e \in Int
  BY <1>3, <1>5, SMTT(30) DEF WorstEntry
<1>7. PICK a, t : a = Abs(e - l.stop) /\ t = m.tick
  OBVIOUS
<1>8. a \in Nat /\ (StopIsValid(m, l) => a > 0) /\ t \in Nat \ {0}
  BY <1>3, <1>4, <1>5, <1>6, <1>7, SMTT(30) DEF Abs, StopIsValid
<1>9. Ceil(a, t) \in Nat /\ (a > 0 => Ceil(a, t) > 0)
  BY <1>8, CeilIsPositive
<1>10. p.loss = Ceil(a, t) * m.value + m.cost
  BY <1>2, <1>5, <1>7 DEF Prepared, LossPerLot
<1>11. p.loss \in Nat /\ (StopIsValid(m, l) => p.loss \in Nat \ {0})
  <2>1. ASSUME NEW x \in Nat, NEW v \in Nat \ {0}, NEW k \in Nat
        PROVE  x * v + k \in Nat /\ (x > 0 => x * v + k > 0)
    <3>1. x * v >= 0 /\ x * v \in Int /\ (x > 0 => x * v > 0)
      BY <2>1, SMTT(30)
    <3> QED
      BY <3>1, <2>1, SMTT(30)
  <2>2. m.value \in Nat \ {0} /\ m.cost \in Nat
    BY <1>3
  <2> QED
    BY <1>8, <1>9, <1>10, <2>1, <2>2, SMTT(30)
<1>12. p.notional \in Nat \ {0}
  <2>1. PICK b, k, x : b = m.bid /\ k = m.ask /\ x = Max({b, k, e})
    OBVIOUS
  <2>2. b \in Nat \ {0} /\ k \in Nat \ {0} /\ m.value \in Nat \ {0}
    BY <1>3, <2>1
  <2>3. Max({b, k, e}) \in Int /\ Max({b, k, e}) >= b
    <3>1. b \in Int /\ k \in Int
      BY <2>2, SMTT(30)
    <3> QED
      BY <1>6, <3>1, MaxOfThree
  <2>4. x \in Nat /\ x > 0
    BY <2>1, <2>2, <2>3, SMTT(30)
  <2>5. Ceil(x, t) \in Nat /\ Ceil(x, t) > 0
    BY <1>8, <2>4, CeilIsPositive
  <2>6. p.notional = Ceil(x, t) * m.value
    BY <1>2, <1>5, <1>7, <2>1 DEF Prepared, NotionalPerLot
  <2> QED
    BY <2>2, <2>5, <2>6, SMTT(30)
<1>13. /\ p.margin = m.margin /\ p.max = m.max /\ p.step = m.step /\ p.ratio = l.ratio
       /\ p.id = l.id /\ p.symbol = l.symbol
  BY <1>2 DEF Prepared
<1> QED
  BY <1>1, <1>3, <1>4, <1>11, <1>12, <1>13 DEF SymbolOf

\* There are finitely many commands.
LEMMA CommandsAreFinite == IsFiniteSet(Commands)
<1> DEFINE g == [i \in Intents |-> {<<i, l>> : l \in LegsOf(i)}]
           U == {g[i] : i \in Intents}
<1>1. \A i \in Intents : IsFiniteSet(g[i])
  <2> TAKE i \in Intents
  <2> DEFINE h == [l \in LegsOf(i) |-> <<i, l>>]
             L == LegsOf(i)
  <2>1. g[i] = {h[l] : l \in L} /\ IsFiniteSet(L)
    BY LegsAssumption
  <2> HIDE DEF h, g, L
  <2> QED
    BY <2>1, ImageIsFinite, SMTT(30)
<1>2. Commands = UNION U
  BY DEF Commands
<1> HIDE DEF g
<1>3. IsFiniteSet(U)
  BY LegsAssumption, ImageIsFinite
<1>4. \A u \in U : IsFiniteSet(u)
  BY <1>1
<1> HIDE DEF U
<1> QED
  BY <1>2, <1>3, <1>4, FS_UNION

\* The commands of an intent stand for its legs, one for each.
LEMMA CommandsOfIntent ==
    ASSUME NEW i \in Intents
    PROVE  /\ IsFiniteSet(CommandsOf(i)) /\ CommandsOf(i) \subseteq Commands
           /\ Cardinality(CommandsOf(i)) <= Cardinality(LegsOf(i))
           /\ Cardinality(CommandsOf(i)) \in Nat /\ Cardinality(LegsOf(i)) \in Nat
           /\ LegsToSize[i] = {PreparedLeg[c] : c \in CommandsOf(i)}
           /\ \A c, d \in CommandsOf(i) : PreparedLeg[c] = PreparedLeg[d] => c = d
           /\ \A c \in CommandsOf(i) : c[2] \in LegsOf(i)
           /\ LegsOf(i) # {} => CommandsOf(i) # {}
<1>1. CommandsOf(i) = {<<i, l>> : l \in LegsOf(i)}
  BY SMTT(30) DEF CommandsOf, Commands
<1> DEFINE C == CommandsOf(i)
           L == LegsOf(i)
           g == [l \in L |-> <<i, l>>]
<1>2. g \in Surjection(L, C)
  BY <1>1 DEF Surjection
<1>3. IsFiniteSet(L)
  BY LegsAssumption
<1>4. IsFiniteSet(C) /\ Cardinality(C) <= Cardinality(L)
  <2> HIDE DEF g, C, L
  <2> QED
    BY <1>2, <1>3, FS_Surjection
<1>5. Cardinality(C) \in Nat /\ Cardinality(L) \in Nat
  <2> HIDE DEF C, L
  <2> QED
    BY <1>3, <1>4, FS_CardinalityType
<1>6. LegsToSize[i] = {PreparedLeg[c] : c \in C}
  BY DEF LegsToSize
<1>7. ASSUME NEW c \in C, NEW d \in C, PreparedLeg[c] = PreparedLeg[d]
      PROVE  c = d
  <2>1. c \in Commands /\ d \in Commands
    BY DEF CommandsOf
  <2>2. PreparedLeg[c].id = c[2].id /\ PreparedLeg[d].id = d[2].id
    BY <2>1, LegIsPriced
  <2>3. PICK l \in L, k \in L : c = <<i, l>> /\ d = <<i, k>>
    BY <1>1
  <2>4. l.id = k.id
    BY <1>7, <2>2, <2>3
  <2> QED
    BY <2>3, <2>4, IntentsAssumption
<1>8. C \subseteq Commands
  BY DEF CommandsOf
<1>9. \A c \in C : c[2] \in L
  BY <1>8, CommandsAreLegs DEF CommandsOf
<1>10. L # {} => C # {}
  BY <1>1
<1> QED
  BY <1>4, <1>5, <1>6, <1>7, <1>8, <1>9, <1>10

LEMMA LotsAreIntegers ==
    ASSUME NEW in, in.budget \in Int, in.total \in Int, in.margin \in Int,
           NEW legs, IsFiniteSet(legs), legs # {}, \A l \in legs : IsSizable(l),
           \A s \in SymbolsOf(legs) : in.exposure[s] \in Int,
           NEW l \in legs
    PROVE  Lots(in, legs, l) \in Int
<1>1. PICK scale, caps : caps = Caps(in, legs) /\ scale = Scale(caps)
  OBVIOUS
<1>2. caps # {}
  BY <1>1 DEF Caps
<1>3. IsFiniteSet(caps) /\ \A c \in caps : IsFraction(c)
  BY <1>1, CapsAreFractions
<1>4. Scale(caps) \in caps
  BY <1>2, <1>3, ScaleIsLeast
<1>5. PICK n, d, st : n = scale.n * l.ratio /\ d = scale.d /\ st = l.step
  OBVIOUS
<1>6. n \in Int /\ d \in Nat \ {0} /\ st \in Nat \ {0}
  BY <1>1, <1>3, <1>4, <1>5, SMTT(30) DEF IsSizable, IsFraction
<1>7. FloorToStep(n, d, st) \in Int
  BY <1>6, FloorFits
<1> QED
  BY <1>1, <1>5, <1>7 DEF Lots

\* The commands of C, of these lots, take no more than is left, on the account
\* and on each symbol.
WithinRoom(lots, C, in) ==
    /\ \A c \in C : lots[c] \in Int
    /\ Total([c \in C |-> lots[c] * PreparedLeg[c].loss], C) <= in.budget
    /\ Total([c \in C |-> lots[c] * PreparedLeg[c].notional], C) <= in.total
    /\ Total([c \in C |-> lots[c] * PreparedLeg[c].margin], C) <= in.margin
    /\ \A s \in Symbols : On(C, s) # {} =>
          Total([c \in On(C, s) |-> lots[c] * PreparedLeg[c].notional], On(C, s))
             <= in.exposure[s]

\* What an approved intent's commands take together, and where: no more than was
\* left.
LEMMA SizedCommands ==
    ASSUME NEW i \in Intents, LegsOf(i) # {},
           \A l \in LegsOf(i) : StopIsValid(Metadata(l.symbol), l),
           NEW in, in.budget \in Int, in.total \in Int, in.margin \in Int,
           \A s \in Symbols : in.exposure[s] \in Int,
           NEW lots, \A c \in CommandsOf(i) : lots[c] = Lots(in, LegsToSize[i], PreparedLeg[c])
    PROVE  WithinRoom(lots, CommandsOf(i), in)
<1>1. PICK C, legs, m : C = CommandsOf(i) /\ legs = LegsToSize[i] /\ m = PreparedLeg
  OBVIOUS
<1>2. /\ IsFiniteSet(C) /\ C \subseteq Commands /\ C # {}
      /\ legs = {m[c] : c \in C} /\ legs # {}
      /\ \A c, d \in C : m[c] = m[d] => c = d
  BY <1>1, CommandsOfIntent, SMTT(30)
<1>3. IsFiniteSet(legs)
  BY <1>2, ImageIsFinite, SMTT(30)
<1>4. ASSUME NEW c \in C
      PROVE  IsSizable(m[c]) /\ m[c].symbol = SymbolOf(c) /\ SymbolOf(c) \in Symbols
  <2>1. c[2] \in LegsOf(i) /\ c \in Commands
    BY <1>1, <1>2, CommandsOfIntent
  <2>2. StopIsValid(Metadata(SymbolOf(c)), c[2])
    BY <2>1 DEF SymbolOf
  <2> QED
    BY <1>1, <2>1, <2>2, LegIsPriced, CommandsAreLegs DEF IsSizable
<1>5. (\A l \in legs : IsSizable(l)) /\ \A s \in SymbolsOf(legs) : s \in Symbols
  BY <1>2, <1>4, SMTT(30) DEF SymbolsOf
<1>6. \A s \in SymbolsOf(legs) : in.exposure[s] \in Int
  BY <1>5
<1>7. \A l \in legs : Lots(in, legs, l) \in Int
  BY <1>2, <1>3, <1>5, <1>6, LotsAreIntegers
<1>8. \A c \in C : lots[c] = Lots(in, legs, m[c]) /\ lots[c] \in Int
  BY <1>1, <1>2, <1>7, SMTT(30)
<1>9. /\ Total([l \in legs |-> Lots(in, legs, l) * l.loss], legs) <= in.budget
      /\ Total([l \in legs |-> Lots(in, legs, l) * l.notional], legs) <= in.total
      /\ Total([l \in legs |-> Lots(in, legs, l) * l.margin], legs) <= in.margin
      /\ \A s \in SymbolsOf(legs) :
            Total([l \in OfSymbol(legs, s) |-> Lots(in, legs, l) * l.notional],
                  OfSymbol(legs, s)) <= in.exposure[s]
  BY <1>2, <1>3, <1>5, <1>6, SizedFits
<1>10. Total([c \in C |-> lots[c] * m[c].loss], C) <= in.budget
  <2> DEFINE f == [l \in legs |-> Lots(in, legs, l) * l.loss]
             g == [c \in C |-> lots[c] * m[c].loss]
  <2>1. IsInteger(g, C) /\ \A c \in C : f[m[c]] = g[c]
    BY <1>2, <1>4, <1>8, SMTT(30) DEF IsInteger, IsSizable
  <2> HIDE DEF f, g
  <2>2. Total(f, legs) = Total(g, C)
    BY <1>2, <2>1, TotalOfImage, SMTT(30)
  <2> QED
    BY <1>9, <2>2 DEF f, g
<1>11. Total([c \in C |-> lots[c] * m[c].notional], C) <= in.total
  <2> DEFINE f == [l \in legs |-> Lots(in, legs, l) * l.notional]
             g == [c \in C |-> lots[c] * m[c].notional]
  <2>1. IsInteger(g, C) /\ \A c \in C : f[m[c]] = g[c]
    BY <1>2, <1>4, <1>8, SMTT(30) DEF IsInteger, IsSizable
  <2> HIDE DEF f, g
  <2>2. Total(f, legs) = Total(g, C)
    BY <1>2, <2>1, TotalOfImage, SMTT(30)
  <2> QED
    BY <1>9, <2>2 DEF f, g
<1>12. Total([c \in C |-> lots[c] * m[c].margin], C) <= in.margin
  <2> DEFINE f == [l \in legs |-> Lots(in, legs, l) * l.margin]
             g == [c \in C |-> lots[c] * m[c].margin]
  <2>1. IsInteger(g, C) /\ \A c \in C : f[m[c]] = g[c]
    BY <1>2, <1>4, <1>8, SMTT(30) DEF IsInteger, IsSizable
  <2> HIDE DEF f, g
  <2>2. Total(f, legs) = Total(g, C)
    BY <1>2, <2>1, TotalOfImage, SMTT(30)
  <2> QED
    BY <1>9, <2>2 DEF f, g
<1>13. ASSUME NEW s \in Symbols, On(C, s) # {}
       PROVE  Total([c \in On(C, s) |-> lots[c] * m[c].notional], On(C, s)) <= in.exposure[s]
  <2>1. PICK D, part : D = On(C, s) /\ part = OfSymbol(legs, s)
    OBVIOUS
  <2>2. D \subseteq C /\ IsFiniteSet(D) /\ part = {m[c] : c \in D} /\ s \in SymbolsOf(legs)
    <3>1. D \subseteq C
      BY <2>1 DEF On
    <3>2. part = {m[c] : c \in D}
      BY <1>2, <1>4, <2>1, SMTT(30) DEF On, OfSymbol
    <3>3. s \in SymbolsOf(legs)
      BY <1>2, <1>4, <1>13, SMTT(30) DEF On, SymbolsOf
    <3> QED
      BY <1>2, <3>1, <3>2, <3>3, FS_Subset
  <2> DEFINE f == [l \in part |-> Lots(in, legs, l) * l.notional]
             g == [c \in D |-> lots[c] * m[c].notional]
  <2>3. IsInteger(g, D) /\ \A c \in D : f[m[c]] = g[c]
    BY <1>4, <1>8, <2>2, SMTT(30) DEF IsInteger, IsSizable
  <2> HIDE DEF f, g
  <2>4. \A c, d \in D : m[c] = m[d] => c = d
    BY <1>2, <2>2
  <2>5. Total(f, part) = Total(g, D)
    BY <2>2, <2>3, <2>4, TotalOfImage, SMTT(30)
  <2> QED
    BY <1>9, <2>1, <2>2, <2>5 DEF f, g
<1> QED
  BY <1>1, <1>8, <1>10, <1>11, <1>12, <1>13 DEF WithinRoom

-----------------------------------------------------------------------------
\* What commands take.  rows is the commands table, at the broker, live what is at
\* stake: values of variables, so that the lemmas speak of any state.

IsTable(rows) ==
    /\ rows = [c \in Commands |-> rows[c]]
    /\ \A c \in Commands :
          /\ HasColumns(rows[c])
          /\ rows[c].standing \in {"NONE", "ACTIVE", "FINISHED"}
          /\ rows[c].lots \in Nat /\ rows[c].updated \in Int

IsBroker(at, rows) ==
    /\ at = [c \in Commands |-> at[c]]
    /\ \A c \in Commands :
          /\ at[c] = [state |-> at[c].state, at |-> at[c].at]
          /\ at[c].state \in {"NONE", "ORDER", "OPEN", "GONE"} /\ at[c].at \in Int
          /\ at[c].state # "NONE" => rows[c].standing # "NONE"
          /\ at[c].state = "ORDER" => rows[c].standing = "ACTIVE"

LiveIn(rows, at) ==
    {c \in Commands : rows[c].standing = "ACTIVE" \/ at[c].state \in {"ORDER", "OPEN"}}

\* What one lot of a command takes of the risk, the exposure and the margin.
Loss == [c \in Commands |-> PreparedLeg[c].loss]
Notional == [c \in Commands |-> PreparedLeg[c].notional]
MarginOf == [c \in Commands |-> PreparedLeg[c].margin]

Taken(rows, w, C) == Total([c \in C |-> rows[c].lots * w[c]], C)

IsWeight(w) == \A c \in Commands : w[c] \in Nat

LEMMA Weights == IsWeight(Loss) /\ IsWeight(Notional) /\ IsWeight(MarginOf)
BY LegIsPriced DEF IsWeight, Loss, Notional, MarginOf

\* Fewer commands of the same sizes take no more.
LEMMA TakenGrows ==
    ASSUME NEW w, IsWeight(w), NEW rows, NEW later, NEW C, C \subseteq Commands, NEW D, D \subseteq C,
           \A c \in C : rows[c].lots \in Nat, \A c \in D : later[c].lots = rows[c].lots
    PROVE  /\ Taken(later, w, D) <= Taken(rows, w, C)
           /\ Taken(later, w, D) \in Nat /\ Taken(rows, w, C) \in Nat
<1> DEFINE f == [c \in C |-> rows[c].lots * w[c]]
           g == [c \in D |-> later[c].lots * w[c]]
<1>1. IsFiniteSet(C) /\ IsFiniteSet(D)
  BY CommandsAreFinite, FS_Subset
<1>2. (\A c \in C : f[c] \in Nat) /\ \A c \in D : g[c] = f[c]
  BY SMTT(30) DEF IsWeight
<1> HIDE DEF f, g
<1>3. Total(f, D) <= Total(f, C) /\ Total(f, D) \in Nat
  BY <1>1, <1>2, TotalGrows
<1>4. Total(f, C) \in Nat
  BY <1>1, <1>2, TotalGrows
<1>5. Total(g, D) = Total(f, D)
  BY <1>1, <1>2, TotalsEqual, SMTT(30) DEF IsInteger
<1> QED
  BY <1>3, <1>4, <1>5 DEF Taken, f, g

LEMMA TakenTogether ==
    ASSUME NEW w, IsWeight(w), NEW rows, NEW C, C \subseteq Commands, NEW D, D \subseteq Commands,
           \A c \in C \cup D : rows[c].lots \in Nat
    PROVE  /\ Taken(rows, w, C \cup D) <= Taken(rows, w, C) + Taken(rows, w, D)
           /\ Taken(rows, w, C \cup D) \in Nat
           /\ Taken(rows, w, C) \in Nat /\ Taken(rows, w, D) \in Nat
           /\ C \cap D = {} => Taken(rows, w, C \cup D) = Taken(rows, w, C) + Taken(rows, w, D)
<1>1. PICK E, U : E = D \ C /\ U = C \cup D
  OBVIOUS
<1> DEFINE f == [c \in U |-> rows[c].lots * w[c]]
           fC == [c \in C |-> rows[c].lots * w[c]]
           fE == [c \in E |-> rows[c].lots * w[c]]
<1>2. IsFiniteSet(C) /\ IsFiniteSet(E) /\ IsFiniteSet(U) /\ U \subseteq Commands
  <2>1. U \subseteq Commands /\ C \subseteq Commands /\ E \subseteq Commands
    BY <1>1
  <2> QED
    BY <2>1, CommandsAreFinite, FS_Subset
<1>3. /\ \A c \in U : f[c] \in Nat
      /\ \A c \in C : fC[c] = f[c]
      /\ \A c \in E : fE[c] = f[c]
      /\ C \cup E = U /\ C \cap E = {} /\ E \subseteq D
  BY <1>1, SMTT(30) DEF IsWeight
<1> HIDE DEF f, fC, fE
<1>4. IsInteger(f, C) /\ IsInteger(f, E)
  BY <1>3, SMTT(30) DEF IsInteger
<1>5. Total(f, C \cup E) = Total(f, C) + Total(f, E)
  BY <1>2, <1>3, <1>4, TotalOfUnion
<1>6. IsInteger(fC, C) /\ IsInteger(fE, E)
  BY <1>3, <1>4 DEF IsInteger
<1>7. Total(fC, C) = Total(f, C) /\ Total(fE, E) = Total(f, E)
  BY <1>2, <1>3, <1>6, TotalsEqual
<1>8. Taken(rows, w, U) = Taken(rows, w, C) + Taken(rows, w, E)
  BY <1>3, <1>5, <1>7 DEF Taken, f, fC, fE
<1>9. /\ Taken(rows, w, E) <= Taken(rows, w, D) /\ Taken(rows, w, E) \in Nat
      /\ Taken(rows, w, D) \in Nat
  BY <1>3, TakenGrows
<1>10. Taken(rows, w, C) \in Nat /\ Taken(rows, w, U) \in Nat
  <2>1. (\A c \in C : rows[c].lots \in Nat) /\ \A c \in U : rows[c].lots \in Nat
    BY <1>1
  <2> QED
    BY <1>2, <2>1, TakenGrows
<1>11. C \cap D = {} => E = D
  BY <1>1
<1> QED
  BY <1>1, <1>8, <1>9, <1>10, <1>11, SMTT(30)

\* The commands at stake that a capacity of that time has counted.
CountedIn(rows, live, at) == {c \in live : rows[c].updated <= at}

IsCapacity(f) == f.at \in Int /\ f.legs \in Int /\ f.risk \in Int

\* What a capacity leaves is really left, as far as it has counted.
Covers(f, rows, live) ==
    /\ Cardinality(CountedIn(rows, live, f.at)) <= Policy.maxLegs - f.legs
    /\ Taken(rows, Loss, CountedIn(rows, live, f.at)) <= Policy.accountRisk - f.risk

Affords(rows, live) ==
    /\ Cardinality(live) <= Policy.maxLegs
    /\ Taken(rows, Loss, live) <= Policy.accountRisk

\* FitsTheBroker, as totals.
Fits(rows, live) ==
    /\ \A s \in Symbols : Taken(rows, Notional, On(live, s)) <= Policy.symbolExposure
    /\ Taken(rows, Notional, live) <= Policy.totalExposure
    /\ Taken(rows, MarginOf, live) <= Policy.marginUsage
    /\ Cardinality(live) <= Policy.maxPositions

\* Nothing new is at stake, sizes stay, and a change is stamped later.
Calms(rows, live, later, still) ==
    /\ still \subseteq live
    /\ \A c \in still : later[c].lots = rows[c].lots /\ later[c].updated >= rows[c].updated

LEMMA SubsetsAreFinite ==
    ASSUME NEW C, C \subseteq Commands, NEW D, D \subseteq C
    PROVE  /\ IsFiniteSet(C) /\ IsFiniteSet(D)
           /\ Cardinality(D) <= Cardinality(C)
           /\ Cardinality(C) \in Nat /\ Cardinality(D) \in Nat
<1>1. IsFiniteSet(C)
  BY CommandsAreFinite, FS_Subset
<1>2. IsFiniteSet(D) /\ Cardinality(D) <= Cardinality(C)
  BY <1>1, FS_Subset
<1> QED
  BY <1>1, <1>2, FS_CardinalityType

LEMMA PolicyIsNatural ==
    /\ Policy.maxLegs \in Nat /\ Policy.maxPositions \in Nat /\ Policy.accountRisk \in Nat
    /\ Policy.riskPerTrade \in Nat /\ Policy.symbolExposure \in Nat
    /\ Policy.totalExposure \in Nat /\ Policy.marginUsage \in Nat /\ Policy.equity \in Nat
BY PolicyAssumption

LEMMA CalmKeeps ==
    ASSUME NEW rows, IsTable(rows), NEW later, IsTable(later),
           NEW live, live \subseteq Commands, NEW still, Calms(rows, live, later, still)
    PROVE  /\ \A f : IsCapacity(f) /\ Covers(f, rows, live) => Covers(f, later, still)
           /\ Affords(rows, live) => Affords(later, still)
           /\ Fits(rows, live) => Fits(later, still)
<1>1. /\ still \subseteq live
      /\ \A c \in live : rows[c].lots \in Nat /\ rows[c].updated \in Int
      /\ \A c \in still : /\ later[c].lots = rows[c].lots
                          /\ later[c].updated >= rows[c].updated /\ later[c].updated \in Int
  BY DEF Calms, IsTable
<1>2. ASSUME NEW w, IsWeight(w), NEW C, C \subseteq live, NEW D, D \subseteq C, D \subseteq still
      PROVE  /\ Taken(later, w, D) <= Taken(rows, w, C)
             /\ Taken(later, w, D) \in Nat /\ Taken(rows, w, C) \in Nat
             /\ Cardinality(D) <= Cardinality(C)
             /\ Cardinality(C) \in Nat /\ Cardinality(D) \in Nat
  <2>1. /\ C \subseteq Commands
        /\ \A c \in C : rows[c].lots \in Nat
        /\ \A c \in D : later[c].lots = rows[c].lots
    BY <1>1, <1>2
  <2> QED
    BY <1>2, <2>1, TakenGrows, SubsetsAreFinite
<1>3. ASSUME NEW f, IsCapacity(f), Covers(f, rows, live)
      PROVE  Covers(f, later, still)
  <2>1. PICK C, D, w : /\ C = CountedIn(rows, live, f.at) /\ D = CountedIn(later, still, f.at)
                       /\ w = Loss
    OBVIOUS
  <2>2. C \subseteq live /\ D \subseteq still /\ D \subseteq C
    BY <1>1, <1>3, <2>1, SMTT(30) DEF CountedIn, IsCapacity
  <2>3. IsWeight(w)
    BY <2>1, Weights
  <2>4. /\ Taken(later, w, D) <= Taken(rows, w, C)
        /\ Taken(later, w, D) \in Nat /\ Taken(rows, w, C) \in Nat
        /\ Cardinality(D) <= Cardinality(C)
        /\ Cardinality(C) \in Nat /\ Cardinality(D) \in Nat
    BY <1>2, <2>2, <2>3
  <2>5. /\ Cardinality(C) <= Policy.maxLegs - f.legs
        /\ Taken(rows, w, C) <= Policy.accountRisk - f.risk
    BY <1>3, <2>1 DEF Covers
  <2>6. /\ Cardinality(D) <= Policy.maxLegs - f.legs
        /\ Taken(later, w, D) <= Policy.accountRisk - f.risk
    BY <1>3, <2>4, <2>5, PolicyIsNatural, SMTT(30) DEF IsCapacity
  <2> QED
    BY <2>1, <2>6 DEF Covers
<1>4. /\ Taken(later, Loss, still) <= Taken(rows, Loss, live)
      /\ Taken(later, Loss, still) \in Nat /\ Taken(rows, Loss, live) \in Nat
      /\ Cardinality(still) <= Cardinality(live)
      /\ Cardinality(live) \in Nat /\ Cardinality(still) \in Nat
  BY <1>1, <1>2, Weights
<1>5. Affords(rows, live) => Affords(later, still)
  BY <1>4, PolicyIsNatural, SMTT(30) DEF Affords
<1>6. ASSUME Fits(rows, live)
      PROVE  Fits(later, still)
  <2>1. ASSUME NEW s \in Symbols
        PROVE  Taken(later, Notional, On(still, s)) <= Policy.symbolExposure
    <3>1. PICK C, D : C = On(live, s) /\ D = On(still, s)
      OBVIOUS
    <3>2. C \subseteq live /\ D \subseteq still /\ D \subseteq C
      BY <1>1, <3>1 DEF On
    <3>3. /\ Taken(later, Notional, D) <= Taken(rows, Notional, C)
          /\ Taken(later, Notional, D) \in Nat /\ Taken(rows, Notional, C) \in Nat
      BY <1>2, <3>2, Weights
    <3>4. Taken(rows, Notional, C) <= Policy.symbolExposure
      BY <1>6, <3>1 DEF Fits
    <3> QED
      BY <3>1, <3>3, <3>4, PolicyIsNatural, SMTT(30)
  <2>2. /\ Taken(later, Notional, still) <= Taken(rows, Notional, live)
        /\ Taken(later, Notional, still) \in Nat /\ Taken(rows, Notional, live) \in Nat
        /\ Taken(later, MarginOf, still) <= Taken(rows, MarginOf, live)
        /\ Taken(later, MarginOf, still) \in Nat /\ Taken(rows, MarginOf, live) \in Nat
    BY <1>1, <1>2, Weights
  <2> QED
    BY <1>4, <1>6, <2>1, <2>2, PolicyIsNatural, SMTT(30) DEF Fits
<1> QED
  BY <1>3, <1>5, <1>6

-----------------------------------------------------------------------------
\* The inductive invariant.

\* Since when a position counts: from its fill, and once the core has heard of it
\* from the stamp of the answer, which is no earlier.
Since(rows, at, c) == IF rows[c].standing = "ACTIVE" THEN at[c].at ELSE rows[c].updated

OpenBy(rows, at, time) ==
    {c \in Commands : at[c].state = "OPEN" /\ Since(rows, at, c) <= time}

IsCheckpoint(r, latest) ==
    /\ r = [at |-> r.at, pending |-> r.pending, positions |-> r.positions, orders |-> r.orders]
    /\ r.at \in Int /\ r.pending \in Int /\ r.pending <= r.at /\ r.at <= latest
    /\ r.positions \subseteq Commands /\ r.orders \subseteq Commands

IsReport(r, latest) ==
    /\ r.at \in Int /\ r.at <= latest /\ r.margin \in Int
    /\ r.positions \subseteq Commands /\ r.orders \subseteq Commands

IsAccount(r, latest) == r.at \in Int /\ r.at <= latest /\ r.margin \in Int

EvidenceInv ==
    /\ clock \in Nat /\ seen \in Int /\ seen <= clock
    /\ IsCheckpoint(checkpoint, seen) /\ IsAccount(account, seen)
    /\ \A r \in reports : IsReport(r, seen)

\* No capacity promises what is already at stake, and all that is at stake is
\* within the limits.
StakesInv ==
    /\ \A f \in facts \cup drafts : IsCapacity(f) /\ Covers(f, commands, LiveIn(commands, broker))
    /\ IsCapacity(capacity) /\ (capacity.at = Never \/ capacity \in facts)
    /\ Affords(commands, LiveIn(commands, broker))
    /\ Fits(commands, LiveIn(commands, broker))

\* Every report and what is stored of one shows the positions open by its time.
ReportsInv ==
    /\ OpenBy(commands, broker, checkpoint.at) \subseteq checkpoint.positions
    /\ Taken(commands, MarginOf, OpenBy(commands, broker, account.at)) <= account.margin
    /\ \A r \in reports :
          /\ OpenBy(commands, broker, r.at) \subseteq r.positions
          /\ Taken(commands, MarginOf, OpenBy(commands, broker, r.at)) <= r.margin

RiskInv ==
    /\ IsTable(commands) /\ IsBroker(broker, commands)
    /\ EvidenceInv /\ StakesInv /\ ReportsInv

\* Fewer positions open by some time take no more margin.
LEMMA FewerOpen ==
    ASSUME NEW rows, IsTable(rows), NEW later, NEW C, C \subseteq Commands, NEW D, D \subseteq C,
           \A c \in D : later[c].lots = rows[c].lots,
           NEW m \in Int, Taken(rows, MarginOf, C) <= m
    PROVE  Taken(later, MarginOf, D) <= m
<1>1. \A c \in C : rows[c].lots \in Nat
  BY DEF IsTable
<1>2. PICK w : w = MarginOf
  OBVIOUS
<1>3. /\ Taken(later, w, D) <= Taken(rows, w, C)
      /\ Taken(later, w, D) \in Nat /\ Taken(rows, w, C) \in Nat
  BY <1>1, <1>2, TakenGrows, Weights
<1> QED
  BY <1>2, <1>3, SMTT(30)

\* Nothing new at stake, and nothing opened earlier than it was.
LEMMA CalmStep ==
    ASSUME RiskInv, IsTable(commands)', IsBroker(broker, commands)',
           Calms(commands, LiveIn(commands, broker), commands', LiveIn(commands, broker)'),
           \A time \in Int : time <= seen =>
               /\ OpenBy(commands, broker, time)' \subseteq OpenBy(commands, broker, time)
               /\ \A c \in OpenBy(commands, broker, time)' : commands'[c].lots = commands[c].lots,
           UNCHANGED <<clock, evidence, reports, drafts, seen>>
    PROVE  RiskInv'
<1>1. UNCHANGED <<clock, checkpoint, account, facts, capacity, reports, drafts, seen>>
  BY DEF evidence
<1>2. EvidenceInv'
  BY <1>1 DEF RiskInv, EvidenceInv
<1>3. PICK rows, later, live, still :
         /\ rows = commands /\ later = commands'
         /\ live = LiveIn(commands, broker) /\ still = LiveIn(commands, broker)'
  OBVIOUS
<1>4. IsTable(rows) /\ IsTable(later) /\ live \subseteq Commands /\ Calms(rows, live, later, still)
  BY <1>3 DEF RiskInv, LiveIn
<1>5. /\ \A f : IsCapacity(f) /\ Covers(f, rows, live) => Covers(f, later, still)
      /\ Affords(rows, live) => Affords(later, still)
      /\ Fits(rows, live) => Fits(later, still)
  BY <1>4, CalmKeeps
<1>6. /\ \A f \in facts \cup drafts : IsCapacity(f) /\ Covers(f, rows, live)
      /\ IsCapacity(capacity) /\ (capacity.at = Never \/ capacity \in facts)
      /\ Affords(rows, live) /\ Fits(rows, live)
  BY <1>3 DEF RiskInv, StakesInv
<1>7. StakesInv'
  <2>1. /\ \A f \in facts \cup drafts : IsCapacity(f) /\ Covers(f, later, still)
        /\ IsCapacity(capacity) /\ (capacity.at = Never \/ capacity \in facts)
        /\ Affords(later, still) /\ Fits(later, still)
    BY <1>5, <1>6
  <2> QED
    BY <1>1, <1>3, <2>1 DEF StakesInv
<1>8. ASSUME NEW time \in Int, time <= seen
      PROVE  /\ OpenBy(commands, broker, time)' \subseteq OpenBy(commands, broker, time)
             /\ \A m \in Int : Taken(commands, MarginOf, OpenBy(commands, broker, time)) <= m =>
                   Taken(commands', MarginOf, OpenBy(commands, broker, time)') <= m
  <2>1. PICK C, D : C = OpenBy(commands, broker, time) /\ D = OpenBy(commands, broker, time)'
    OBVIOUS
  <2>2. D \subseteq C /\ C \subseteq Commands /\ \A c \in D : later[c].lots = rows[c].lots
    BY <1>3, <1>8, <2>1 DEF OpenBy
  <2>3. \A m \in Int : Taken(rows, MarginOf, C) <= m => Taken(later, MarginOf, D) <= m
    BY <1>4, <2>2, FewerOpen
  <2> QED
    BY <1>3, <2>1, <2>2, <2>3
<1>9. ReportsInv'
  <2>1. \A r \in reports : r.at \in Int /\ r.at <= seen /\ r.margin \in Int
    BY DEF RiskInv, EvidenceInv, IsReport
  <2>2. /\ checkpoint.at \in Int /\ checkpoint.at <= seen
        /\ account.at \in Int /\ account.at <= seen /\ account.margin \in Int
    BY DEF RiskInv, EvidenceInv, IsCheckpoint, IsAccount
  <2>3. /\ OpenBy(commands, broker, checkpoint.at)' \subseteq checkpoint.positions
        /\ Taken(commands, MarginOf, OpenBy(commands, broker, account.at))' <= account.margin
    BY <1>1, <1>8, <2>2 DEF RiskInv, ReportsInv
  <2>4. \A r \in reports :
           /\ OpenBy(commands', broker', r.at) \subseteq r.positions
           /\ Taken(commands', MarginOf, OpenBy(commands', broker', r.at)) <= r.margin
    BY <1>8, <2>1 DEF RiskInv, ReportsInv
  <2> QED
    BY <1>1, <2>3, <2>4 DEF ReportsInv
<1> QED
  BY <1>2, <1>7, <1>9 DEF RiskInv

LEMMA MaxOfTwo ==
    ASSUME NEW a \in Int, NEW b \in Int
    PROVE  Max({a, b}) \in Int /\ Max({a, b}) >= a /\ Max({a, b}) >= b /\ Max({a, b}) \in {a, b}
<1>1. \E x \in {a, b} : \A y \in {a, b} : x >= y
  BY SMTT(30)
<1>2. PICK m : m = CHOOSE x \in {a, b} : \A y \in {a, b} : x >= y
  OBVIOUS
<1>3. m \in {a, b} /\ \A y \in {a, b} : m >= y
  BY <1>1, <1>2
<1> QED
  BY <1>2, <1>3 DEF Max

LEMMA MinOfTwo ==
    ASSUME NEW a \in Int, NEW b \in Int
    PROVE  Min({a, b}) \in Int /\ Min({a, b}) <= a /\ Min({a, b}) <= b
<1>1. \E x \in {a, b} : \A y \in {a, b} : x <= y
  BY SMTT(30)
<1>2. PICK m : m = CHOOSE x \in {a, b} : \A y \in {a, b} : x <= y
  OBVIOUS
<1>3. m \in {a, b} /\ \A y \in {a, b} : m <= y
  BY <1>1, <1>2
<1> QED
  BY <1>2, <1>3 DEF Min

\* A change is stamped later than the last one and than what caused it.
LEMMA StampIsLater ==
    ASSUME NEW c \in Commands, IsTable(commands), NEW at \in Int
    PROVE  Stamp(c, at) \in Int /\ Stamp(c, at) >= commands[c].updated /\ Stamp(c, at) >= at
<1>1. PICK u : u = commands[c].updated + 1
  OBVIOUS
<1>2. u \in Int /\ u >= commands[c].updated /\ commands[c].updated \in Int
  BY <1>1, SMTT(30) DEF IsTable
<1>3. Max({u, at}) \in Int /\ Max({u, at}) >= u /\ Max({u, at}) >= at
  BY <1>2, MaxOfTwo
<1>4. Stamp(c, at) = Max({u, at})
  BY <1>1 DEF Stamp
<1> QED
  BY <1>2, <1>3, <1>4, SMTT(30)

LEMMA MoveKeepsRisk ==
    ASSUME RiskInv, NEW c \in Commands, MoveCommand(c)
    PROVE  RiskInv'
<1>1. IsTable(commands) /\ IsBroker(broker, commands) /\ clock \in Int
  BY SMTT(30) DEF RiskInv, EvidenceInv
<1>2. PICK at : at = Stamp(c, clock)
  OBVIOUS
<1>3. at \in Int /\ at >= commands[c].updated
  BY <1>1, <1>2, StampIsLater
<1>4. /\ commands' = [commands EXCEPT ![c].updated = at] /\ commands[c].standing = "ACTIVE"
      /\ UNCHANGED <<clock, evidence, reports, drafts, seen>> /\ broker' = broker
  BY <1>2 DEF MoveCommand, outside, Active
<1>5. /\ \A d \in Commands : d # c => commands'[d] = commands[d]
      /\ commands'[c] = [standing |-> "ACTIVE", updated |-> at,
                         expires |-> commands[c].expires, lots |-> commands[c].lots]
      /\ commands' = [d \in Commands |-> commands'[d]]
  <2>1. commands[c] = [standing |-> "ACTIVE", updated |-> commands[c].updated,
                       expires |-> commands[c].expires, lots |-> commands[c].lots]
    BY <1>1, <1>4 DEF IsTable, HasColumns
  <2>2. commands'[c] = [commands[c] EXCEPT !.updated = at]
    BY <1>1, <1>4 DEF IsTable
  <2> QED
    BY <1>1, <1>4, <2>1, <2>2 DEF IsTable
<1>6. IsTable(commands')
  BY <1>1, <1>3, <1>5, SMTT(30) DEF IsTable, HasColumns
<1>7. \A d \in Commands : /\ commands'[d].standing = commands[d].standing
                          /\ commands'[d].lots = commands[d].lots
                          /\ commands'[d].updated >= commands[d].updated
                          /\ commands[d].standing # "ACTIVE" =>
                                commands'[d].updated = commands[d].updated
  <2> TAKE d \in Commands
  <2>1. CASE d = c
    BY <1>3, <1>4, <1>5, <2>1
  <2>2. CASE d # c
    <3>1. commands'[d] = commands[d] /\ commands[d].updated \in Int
      BY <1>1, <1>5, <2>2 DEF IsTable
    <3> QED
      BY <3>1, SMTT(30)
  <2> QED
    BY <2>1, <2>2
<1>8. IsBroker(broker', commands')
  BY <1>1, <1>4, <1>7 DEF IsBroker
<1>9. Calms(commands, LiveIn(commands, broker), commands', LiveIn(commands', broker'))
  BY <1>4, <1>7 DEF Calms, LiveIn
<1>10. \A time \in Int : time <= seen =>
          /\ OpenBy(commands', broker', time) \subseteq OpenBy(commands, broker, time)
          /\ \A d \in OpenBy(commands', broker', time) : commands'[d].lots = commands[d].lots
  BY <1>4, <1>7 DEF OpenBy, Since
<1> QED
  BY <1>4, <1>6, <1>8, <1>9, <1>10, CalmStep

LEMMA FinishKeepsRisk ==
    ASSUME RiskInv, NEW c \in Commands, FinishCommand(c)
    PROVE  RiskInv'
<1>1. IsTable(commands) /\ IsBroker(broker, commands) /\ broker[c].at \in Int
  BY DEF RiskInv, IsBroker
<1>2. PICK at, was : was = broker[c].at /\ at = Stamp(c, was)
  OBVIOUS
<1>3. at \in Int /\ at >= commands[c].updated /\ at >= was /\ was \in Int
  BY <1>1, <1>2, StampIsLater
<1>4. /\ commands' = [commands EXCEPT ![c].standing = "FINISHED", ![c].updated = at]
      /\ commands[c].standing = "ACTIVE" /\ broker[c].state \in {"OPEN", "GONE"}
      /\ broker' = [broker EXCEPT ![c].at = Never]
      /\ UNCHANGED <<clock, evidence, reports, drafts, seen>>
  BY <1>2 DEF FinishCommand, Active
<1>5. /\ \A d \in Commands : d # c => commands'[d] = commands[d]
      /\ commands'[c] = [standing |-> "FINISHED", updated |-> at,
                         expires |-> commands[c].expires, lots |-> commands[c].lots]
      /\ commands' = [d \in Commands |-> commands'[d]]
  <2>1. commands[c] = [standing |-> "ACTIVE", updated |-> commands[c].updated,
                       expires |-> commands[c].expires, lots |-> commands[c].lots]
    BY <1>1, <1>4 DEF IsTable, HasColumns
  <2>2. commands'[c] = [commands[c] EXCEPT !.standing = "FINISHED", !.updated = at]
    BY <1>1, <1>4 DEF IsTable
  <2> QED
    BY <1>1, <1>4, <2>1, <2>2 DEF IsTable
<1>6. /\ \A d \in Commands : d # c => broker'[d] = broker[d]
      /\ broker'[c] = [state |-> broker[c].state, at |-> Never]
      /\ broker' = [d \in Commands |-> broker'[d]]
  <2>1. broker[c] = [state |-> broker[c].state, at |-> broker[c].at]
    BY <1>1 DEF IsBroker
  <2>2. broker'[c] = [broker[c] EXCEPT !.at = Never]
    BY <1>1, <1>4 DEF IsBroker
  <2> QED
    BY <1>1, <1>4, <2>1, <2>2 DEF IsBroker
<1>7. IsTable(commands')
  BY <1>1, <1>3, <1>5, SMTT(30) DEF IsTable, HasColumns
<1>8. IsBroker(broker', commands')
  <2>1. Never \in Int
    BY SMTT(30) DEF Never
  <2>2. ASSUME NEW d \in Commands
        PROVE  /\ broker'[d] = [state |-> broker'[d].state, at |-> broker'[d].at]
               /\ broker'[d].state \in {"NONE", "ORDER", "OPEN", "GONE"} /\ broker'[d].at \in Int
               /\ broker'[d].state # "NONE" => commands'[d].standing # "NONE"
               /\ broker'[d].state = "ORDER" => commands'[d].standing = "ACTIVE"
    <3>1. CASE d = c
      BY <1>4, <1>5, <1>6, <2>1, <3>1, SMTT(30)
    <3>2. CASE d # c
      BY <1>1, <1>5, <1>6, <3>2 DEF IsBroker
    <3> QED
      BY <3>1, <3>2
  <2> QED
    BY <1>6, <2>2 DEF IsBroker
<1>9. \A d \in Commands : /\ commands'[d].lots = commands[d].lots
                          /\ commands'[d].updated >= commands[d].updated
                          /\ broker'[d].state = broker[d].state
  BY <1>1, <1>3, <1>5, <1>6, SMTT(30) DEF IsTable
<1>10. Calms(commands, LiveIn(commands, broker), commands', LiveIn(commands', broker'))
  BY <1>4, <1>5, <1>9 DEF Calms, LiveIn
<1>11. ASSUME NEW time \in Int
       PROVE  OpenBy(commands', broker', time) \subseteq OpenBy(commands, broker, time)
  <2> SUFFICES ASSUME NEW d \in Commands, broker'[d].state = "OPEN",
                      Since(commands', broker', d) <= time
               PROVE  broker[d].state = "OPEN" /\ Since(commands, broker, d) <= time
    BY DEF OpenBy
  <2>1. CASE d = c
    <3>1. Since(commands', broker', d) = at /\ Since(commands, broker, d) = was
      BY <1>2, <1>4, <1>5, <2>1, SMTT(30) DEF Since
    <3> QED
      BY <1>3, <1>9, <3>1, SMTT(30)
  <2>2. CASE d # c
    BY <1>5, <1>6, <2>2 DEF Since
  <2> QED
    BY <2>1, <2>2
<1>12. \A time \in Int : time <= seen =>
          /\ OpenBy(commands', broker', time) \subseteq OpenBy(commands, broker, time)
          /\ \A d \in OpenBy(commands', broker', time) : commands'[d].lots = commands[d].lots
  BY <1>9, <1>11 DEF OpenBy
<1> QED
  BY <1>4, <1>7, <1>8, <1>10, <1>12, CalmStep

\* The broker only changes what becomes of an active command, and a position it
\* opens is newer than every report.
LEMMA AnswerKeepsRisk ==
    ASSUME ~Ties, RiskInv, NEW c \in Commands, NEW from, NEW to \in {"ORDER", "OPEN", "GONE"},
           NEW at \in Int, to = "OPEN" => at = clock, Answer(c, from, to, at)
    PROVE  RiskInv'
<1>1. IsTable(commands) /\ IsBroker(broker, commands) /\ clock \in Int /\ seen \in Int
  BY SMTT(30) DEF RiskInv, EvidenceInv
<1>2. /\ commands' = commands /\ commands[c].standing = "ACTIVE" /\ clock > seen
      /\ broker' = [broker EXCEPT ![c] = [state |-> to, at |-> at]]
      /\ UNCHANGED <<clock, evidence, reports, drafts, seen>>
  BY DEF Answer, Active
<1>3. /\ \A d \in Commands : d # c => broker'[d] = broker[d]
      /\ broker'[c] = [state |-> to, at |-> at]
      /\ broker' = [d \in Commands |-> broker'[d]]
  BY <1>1, <1>2 DEF IsBroker
<1>4. IsTable(commands')
  BY <1>1, <1>2
<1>5. IsBroker(broker', commands')
  <2>1. ASSUME NEW d \in Commands
        PROVE  /\ broker'[d] = [state |-> broker'[d].state, at |-> broker'[d].at]
               /\ broker'[d].state \in {"NONE", "ORDER", "OPEN", "GONE"} /\ broker'[d].at \in Int
               /\ broker'[d].state # "NONE" => commands'[d].standing # "NONE"
               /\ broker'[d].state = "ORDER" => commands'[d].standing = "ACTIVE"
    <3>1. CASE d = c
      BY <1>2, <1>3, <3>1
    <3>2. CASE d # c
      BY <1>1, <1>2, <1>3, <3>2 DEF IsBroker
    <3> QED
      BY <3>1, <3>2
  <2> QED
    BY <1>3, <2>1 DEF IsBroker
<1>6. Calms(commands, LiveIn(commands, broker), commands', LiveIn(commands', broker'))
  <2>1. \A d \in Commands : commands[d].updated >= commands[d].updated
    BY <1>1, SMTT(30) DEF IsTable
  <2>2. LiveIn(commands', broker') \subseteq LiveIn(commands, broker)
    BY <1>2, <1>3 DEF LiveIn
  <2> QED
    BY <1>2, <2>1, <2>2 DEF Calms, LiveIn
<1>7. ASSUME NEW time \in Int, time <= seen
      PROVE  OpenBy(commands', broker', time) \subseteq OpenBy(commands, broker, time)
  <2> SUFFICES ASSUME NEW d \in Commands, broker'[d].state = "OPEN",
                      Since(commands', broker', d) <= time
               PROVE  broker[d].state = "OPEN" /\ Since(commands, broker, d) <= time
    BY DEF OpenBy
  <2>1. d # c
    <3> SUFFICES ASSUME d = c PROVE FALSE
      OBVIOUS
    <3>1. Since(commands', broker', d) = clock
      BY <1>2, <1>3 DEF Since
    <3> QED
      BY <1>1, <1>2, <1>7, <3>1, SMTT(30)
  <2> QED
    BY <1>2, <1>3, <2>1 DEF Since
<1>8. \A time \in Int : time <= seen =>
         /\ OpenBy(commands', broker', time) \subseteq OpenBy(commands, broker, time)
         /\ \A d \in OpenBy(commands', broker', time) : commands'[d].lots = commands[d].lots
  BY <1>2, <1>7
<1> QED
  BY <1>2, <1>4, <1>5, <1>6, <1>8, CalmStep

LEMMA CloseKeepsRisk ==
    ASSUME RiskInv, NEW c \in Commands, ClosePosition(c)
    PROVE  RiskInv'
<1>1. IsTable(commands) /\ IsBroker(broker, commands)
  BY DEF RiskInv
<1>2. /\ commands' = commands /\ broker[c].state = "OPEN"
      /\ broker' = [broker EXCEPT ![c].state = "GONE"]
      /\ UNCHANGED <<clock, evidence, reports, drafts, seen>>
  BY DEF ClosePosition
<1>3. /\ \A d \in Commands : d # c => broker'[d] = broker[d]
      /\ broker'[c] = [state |-> "GONE", at |-> broker[c].at]
      /\ broker' = [d \in Commands |-> broker'[d]]
  <2>1. broker[c] = [state |-> broker[c].state, at |-> broker[c].at]
    BY <1>1 DEF IsBroker
  <2>2. broker'[c] = [broker[c] EXCEPT !.state = "GONE"]
    BY <1>1, <1>2 DEF IsBroker
  <2> QED
    BY <1>1, <1>2, <2>1, <2>2 DEF IsBroker
<1>4. IsTable(commands')
  BY <1>1, <1>2
<1>5. IsBroker(broker', commands')
  <2>1. ASSUME NEW d \in Commands
        PROVE  /\ broker'[d] = [state |-> broker'[d].state, at |-> broker'[d].at]
               /\ broker'[d].state \in {"NONE", "ORDER", "OPEN", "GONE"} /\ broker'[d].at \in Int
               /\ broker'[d].state # "NONE" => commands'[d].standing # "NONE"
               /\ broker'[d].state = "ORDER" => commands'[d].standing = "ACTIVE"
    <3>1. broker[d].at \in Int /\ (broker[d].state # "NONE" => commands[d].standing # "NONE")
      BY <1>1 DEF IsBroker
    <3>2. CASE d = c
      BY <1>2, <1>3, <3>1, <3>2
    <3>3. CASE d # c
      BY <1>1, <1>2, <1>3, <3>3 DEF IsBroker
    <3> QED
      BY <3>2, <3>3
  <2> QED
    BY <1>3, <2>1 DEF IsBroker
<1>6. Calms(commands, LiveIn(commands, broker), commands', LiveIn(commands', broker'))
  <2>1. \A d \in Commands : commands[d].updated >= commands[d].updated
    BY <1>1, SMTT(30) DEF IsTable
  <2>2. LiveIn(commands', broker') \subseteq LiveIn(commands, broker)
    BY <1>2, <1>3 DEF LiveIn
  <2> QED
    BY <1>2, <2>1, <2>2 DEF Calms, LiveIn
<1>7. ASSUME NEW time \in Int
      PROVE  OpenBy(commands', broker', time) \subseteq OpenBy(commands, broker, time)
  <2> SUFFICES ASSUME NEW d \in Commands, broker'[d].state = "OPEN",
                      Since(commands', broker', d) <= time
               PROVE  broker[d].state = "OPEN" /\ Since(commands, broker, d) <= time
    BY DEF OpenBy
  <2>1. d # c
    BY <1>3, SMTT(30)
  <2> QED
    BY <1>2, <1>3, <2>1 DEF Since
<1>8. \A time \in Int : time <= seen =>
         /\ OpenBy(commands', broker', time) \subseteq OpenBy(commands, broker, time)
         /\ \A d \in OpenBy(commands', broker', time) : commands'[d].lots = commands[d].lots
  BY <1>2, <1>7
<1> QED
  BY <1>2, <1>4, <1>5, <1>6, <1>8, CalmStep

\* What the workflow computes of commands is what they take.
LEMMA SumsAreTaken ==
    ASSUME NEW C, C \subseteq Commands
    PROVE  /\ Risk(C) = Taken(commands, Loss, C)
           /\ Exposure(C) = Taken(commands, Notional, C)
           /\ Margin(C) = Taken(commands, MarginOf, C)
<1>1. IsFiniteSet(C)
  BY SubsetsAreFinite
<1>3. /\ [c \in C |-> commands[c].lots * PreparedLeg[c].loss] = [c \in C |-> commands[c].lots * Loss[c]]
      /\ [c \in C |-> commands[c].lots * PreparedLeg[c].notional]
            = [c \in C |-> commands[c].lots * Notional[c]]
      /\ [c \in C |-> commands[c].lots * PreparedLeg[c].margin]
            = [c \in C |-> commands[c].lots * MarginOf[c]]
  BY DEF Loss, Notional, MarginOf
<1>4. Risk(C) = Taken(commands, Loss, C)
  <2>1. MapThenSumSet(LAMBDA c : commands[c].lots * PreparedLeg[c].loss, C)
           = Total([c \in C |-> commands[c].lots * PreparedLeg[c].loss], C)
    BY <1>1, RiskSum
  <2> QED
    BY <1>3, <2>1 DEF Risk, LotsOf, Taken
<1>5. Exposure(C) = Taken(commands, Notional, C)
  <2>1. MapThenSumSet(LAMBDA c : commands[c].lots * PreparedLeg[c].notional, C)
           = Total([c \in C |-> commands[c].lots * PreparedLeg[c].notional], C)
    BY <1>1, ExposureSum
  <2> QED
    BY <1>3, <2>1 DEF Exposure, LotsOf, Taken
<1>6. Margin(C) = Taken(commands, MarginOf, C)
  <2>1. MapThenSumSet(LAMBDA c : commands[c].lots * PreparedLeg[c].margin, C)
           = Total([c \in C |-> commands[c].lots * PreparedLeg[c].margin], C)
    BY <1>1, MarginSum
  <2> QED
    BY <1>3, <2>1 DEF Margin, LotsOf, Taken
<1> QED
  BY <1>4, <1>5, <1>6

LEMMA LiveIsLiveIn == Live = LiveIn(commands, broker) /\ Live \subseteq Commands
BY DEF Live, LiveIn, Active, Opened

\* A capacity promises what is left at that moment, so it covers what it counts.
LEMMA AssembleKeepsRisk ==
    ASSUME RiskInv, NEW halted, Assemble(halted)
    PROVE  RiskInv'
<1>1. PICK live, rows : live = LiveIn(commands, broker) /\ rows = commands
  OBVIOUS
<1>2. PICK f : f = [at |-> clock, halted |-> halted, legs |-> Policy.maxLegs - Cardinality(Live),
                    risk |-> Policy.accountRisk - Risk(Live)]
  OBVIOUS
<1>3. /\ drafts' = drafts \cup {f}
      /\ UNCHANGED <<clock, commands, checkpoint, account, facts, capacity, broker, reports, seen>>
  BY <1>2 DEF Assemble, evidence
<1>4. live \subseteq Commands /\ Live = live /\ Risk(Live) = Taken(rows, Loss, live)
  BY <1>1, LiveIsLiveIn, SumsAreTaken
<1>5. IsTable(rows) /\ clock \in Int
  BY <1>1, SMTT(30) DEF RiskInv, EvidenceInv
<1>6. PICK C : C = CountedIn(rows, live, f.at)
  OBVIOUS
<1>7. C \subseteq live
  BY <1>6 DEF CountedIn
<1>8. /\ Cardinality(C) <= Cardinality(live) /\ Cardinality(C) \in Nat /\ Cardinality(live) \in Nat
      /\ Taken(rows, Loss, C) <= Taken(rows, Loss, live)
      /\ Taken(rows, Loss, C) \in Nat /\ Taken(rows, Loss, live) \in Nat
  <2>1. PICK w : w = Loss
    OBVIOUS
  <2>2. IsWeight(w) /\ \A c \in live : rows[c].lots \in Nat
    BY <1>4, <1>5, <2>1, Weights DEF IsTable
  <2>3. /\ Taken(rows, w, C) <= Taken(rows, w, live)
        /\ Taken(rows, w, C) \in Nat /\ Taken(rows, w, live) \in Nat
    BY <1>4, <1>7, <2>2, TakenGrows
  <2> QED
    BY <1>4, <1>7, <2>1, <2>3, SubsetsAreFinite
<1>9. /\ f.at = clock /\ f.legs = Policy.maxLegs - Cardinality(live)
      /\ f.risk = Policy.accountRisk - Taken(rows, Loss, live)
  BY <1>2, <1>4
<1>10. IsCapacity(f)
  BY <1>5, <1>8, <1>9, PolicyIsNatural, SMTT(30) DEF IsCapacity
<1>11. Covers(f, rows, live)
  <2>1. /\ Cardinality(C) <= Policy.maxLegs - f.legs
        /\ Taken(rows, Loss, C) <= Policy.accountRisk - f.risk
    BY <1>8, <1>9, PolicyIsNatural, SMTT(30)
  <2> QED
    BY <1>6, <2>1 DEF Covers
<1>12. StakesInv'
  BY <1>1, <1>3, <1>10, <1>11 DEF RiskInv, StakesInv
<1>13. EvidenceInv' /\ ReportsInv'
  BY <1>3 DEF RiskInv, EvidenceInv, ReportsInv
<1> QED
  BY <1>3, <1>12, <1>13 DEF RiskInv

LEMMA RecordKeepsRisk ==
    ASSUME RiskInv, NEW d, RecordCapacity(d)
    PROVE  RiskInv'
<1>1. /\ d \in drafts /\ facts' = facts \cup {d} /\ drafts' = drafts \ {d}
      /\ capacity' = (IF d.at > capacity.at THEN d ELSE capacity)
      /\ UNCHANGED <<clock, commands, checkpoint, account, broker, reports, seen>>
  BY DEF RecordCapacity
<1>2. facts' \cup drafts' = facts \cup drafts
  BY <1>1
<1>3. IsCapacity(capacity') /\ (capacity'.at = Never \/ capacity' \in facts')
  BY <1>1 DEF RiskInv, StakesInv
<1>4. StakesInv'
  BY <1>1, <1>2, <1>3 DEF RiskInv, StakesInv
<1>5. EvidenceInv' /\ ReportsInv'
  BY <1>1 DEF RiskInv, EvidenceInv, ReportsInv
<1> QED
  BY <1>1, <1>4, <1>5 DEF RiskInv

LEMMA DeliverKeepsRisk ==
    ASSUME RiskInv, NEW r, DeliverReport(r)
    PROVE  RiskInv'
<1>1. PICK pending : pending = IF r.vouches THEN Max({checkpoint.pending, r.at})
                               ELSE checkpoint.pending
  OBVIOUS
<1>2. /\ r \in reports /\ reports' = reports \ {r}
      /\ account' = (IF r.at > account.at THEN [at |-> r.at, margin |-> r.margin] ELSE account)
      /\ UNCHANGED <<clock, commands, facts, capacity, broker, drafts, seen>>
  BY DEF DeliverReport
<1>3. IsCheckpoint(checkpoint, seen) /\ IsAccount(account, seen) /\ IsReport(r, seen)
  BY <1>2 DEF RiskInv, EvidenceInv
<1>4. checkpoint' = IF r.at > checkpoint.at
                    THEN [at |-> r.at, pending |-> pending,
                          positions |-> r.positions, orders |-> r.orders]
                    ELSE [at |-> checkpoint.at, pending |-> pending,
                          positions |-> checkpoint.positions, orders |-> checkpoint.orders]
  <2>1. checkpoint = [at |-> checkpoint.at, pending |-> checkpoint.pending,
                      positions |-> checkpoint.positions, orders |-> checkpoint.orders]
    BY <1>3 DEF IsCheckpoint
  <2>2. checkpoint' =
          [(IF r.at > checkpoint.at
            THEN [checkpoint EXCEPT !.at = r.at, !.positions = r.positions, !.orders = r.orders]
            ELSE checkpoint)
              EXCEPT !.pending = IF r.vouches THEN Max({@, r.at}) ELSE @]
    BY DEF DeliverReport
  <2>3. CASE r.at > checkpoint.at
    <3>1. PICK cp : cp = [at |-> r.at, pending |-> checkpoint.pending,
                          positions |-> r.positions, orders |-> r.orders]
      OBVIOUS
    <3>2. checkpoint' = [cp EXCEPT !.pending = IF r.vouches THEN Max({@, r.at}) ELSE @]
      <4>1. PICK o, a, p, q, n, x, y, z :
               /\ o = checkpoint /\ a = r.at /\ p = r.positions /\ q = r.orders
               /\ n = o.pending /\ x = o.at /\ y = o.positions /\ z = o.orders
        OBVIOUS
      <4>2. o = [at |-> x, pending |-> n, positions |-> y, orders |-> z]
        BY <2>1, <4>1
      <4>3. [o EXCEPT !.at = a, !.positions = p, !.orders = q]
               = [at |-> a, pending |-> n, positions |-> p, orders |-> q]
        <5>1. PICK k : k = [o EXCEPT !.at = a]
          OBVIOUS
        <5>2. k = [at |-> a, pending |-> n, positions |-> y, orders |-> z]
          BY <4>2, <5>1
        <5>3. PICK l : l = [k EXCEPT !.positions = p]
          OBVIOUS
        <5>4. l = [at |-> a, pending |-> n, positions |-> p, orders |-> z]
          BY <5>2, <5>3
        <5>5. [l EXCEPT !.orders = q] = [at |-> a, pending |-> n, positions |-> p, orders |-> q]
          BY <5>4, SMTT(30)
        <5> QED
          BY <5>1, <5>3, <5>5, Zenon
      <4>4. [checkpoint EXCEPT !.at = r.at, !.positions = r.positions, !.orders = r.orders] = cp
        BY <3>1, <4>1, <4>3
      <4> QED
        BY <2>2, <2>3, <4>4
    <3>3. checkpoint' = [cp EXCEPT !.pending = pending]
      BY <1>1, <3>1, <3>2
    <3> QED
      BY <2>3, <3>1, <3>3, SMTT(30)
  <2>4. CASE ~(r.at > checkpoint.at)
    <3>1. checkpoint' = [checkpoint EXCEPT !.pending = IF r.vouches THEN Max({@, r.at}) ELSE @]
      BY <2>2, <2>4
    <3>2. checkpoint' = [checkpoint EXCEPT !.pending = pending]
      BY <1>1, <2>1, <3>1
    <3> QED
      BY <2>1, <2>4, <3>2, SMTT(30)
  <2> QED
    BY <2>3, <2>4
<1>5. pending \in Int /\ (pending = checkpoint.pending \/ pending = r.at)
  <2>1. PICK a, b : a = checkpoint.pending /\ b = r.at
    OBVIOUS
  <2>2. a \in Int /\ b \in Int
    BY <1>3, <2>1 DEF IsCheckpoint, IsReport
  <2>3. Max({a, b}) \in Int /\ Max({a, b}) \in {a, b}
    BY <2>2, MaxOfTwo
  <2> QED
    BY <1>1, <2>1, <2>2, <2>3
<1>6. IsCheckpoint(checkpoint', seen)
  BY <1>3, <1>4, <1>5, SMTT(30) DEF IsCheckpoint, IsReport
<1>7. IsAccount(account', seen)
  BY <1>2, <1>3 DEF IsAccount, IsReport
<1>8. EvidenceInv'
  BY <1>2, <1>6, <1>7 DEF RiskInv, EvidenceInv
<1>9. ReportsInv'
  <2>1. OpenBy(commands, broker, checkpoint'.at) \subseteq checkpoint'.positions
    BY <1>2, <1>4 DEF RiskInv, ReportsInv
  <2>2. Taken(commands, MarginOf, OpenBy(commands, broker, account'.at)) <= account'.margin
    BY <1>2 DEF RiskInv, ReportsInv
  <2> QED
    BY <1>2, <2>1, <2>2 DEF RiskInv, ReportsInv
<1>10. StakesInv'
  BY <1>2 DEF RiskInv, StakesInv
<1> QED
  BY <1>2, <1>8, <1>9, <1>10 DEF RiskInv

\* A report shows everything that is open when it is put together.
LEMMA ReportsShowAll ==
    ASSUME IsTable(commands), NEW time
    PROVE  /\ OpenBy(commands, broker, time) \subseteq Opened("OPEN")
           /\ Taken(commands, MarginOf, OpenBy(commands, broker, time)) <= Margin(Opened("OPEN"))
           /\ Margin(Opened("OPEN")) \in Int
           /\ Opened("OPEN") \subseteq Commands /\ Opened("ORDER") \subseteq Commands
<1>1. PICK C, D, rows : /\ C = Opened("OPEN") /\ D = OpenBy(commands, broker, time)
                        /\ rows = commands
  OBVIOUS
<1>2. D \subseteq C /\ C \subseteq Commands /\ Opened("ORDER") \subseteq Commands
  BY <1>1 DEF Opened, OpenBy
<1>3. PICK w : w = MarginOf
  OBVIOUS
<1>4. IsWeight(w) /\ \A c \in C : rows[c].lots \in Nat
  BY <1>1, <1>2, <1>3, Weights DEF IsTable
<1>5. /\ Taken(rows, w, D) <= Taken(rows, w, C)
      /\ Taken(rows, w, D) \in Nat /\ Taken(rows, w, C) \in Nat
  BY <1>2, <1>4, TakenGrows
<1>6. Margin(C) = Taken(commands, MarginOf, C)
  BY <1>2, SumsAreTaken
<1> QED
  BY <1>1, <1>2, <1>3, <1>5, <1>6, SMTT(30)

LEMMA ObserveKeepsRisk ==
    ASSUME RiskInv, NEW vouches, Observe(vouches)
    PROVE  RiskInv'
<1>1. PICK r : r = [at |-> clock, vouches |-> vouches,
                    positions |-> Opened("OPEN"), orders |-> Opened("ORDER"),
                    margin |-> Margin(Opened("OPEN"))]
  OBVIOUS
<1>2. /\ reports' = reports \cup {r} /\ seen' = clock /\ clock > seen
      /\ UNCHANGED <<clock, commands, checkpoint, account, facts, capacity, broker, drafts>>
  BY <1>1 DEF Observe, evidence
<1>3. IsTable(commands) /\ clock \in Nat /\ seen \in Int
  BY DEF RiskInv, EvidenceInv
<1>4. /\ r.at = clock /\ r.positions = Opened("OPEN") /\ r.orders = Opened("ORDER")
      /\ r.margin = Margin(Opened("OPEN"))
  BY <1>1
<1>5. /\ IsReport(r, clock)
      /\ OpenBy(commands, broker, r.at) \subseteq r.positions
      /\ Taken(commands, MarginOf, OpenBy(commands, broker, r.at)) <= r.margin
  BY <1>3, <1>4, ReportsShowAll, SMTT(30) DEF IsReport
<1>6. EvidenceInv'
  <2>1. IsCheckpoint(checkpoint, clock) /\ IsAccount(account, clock)
    BY <1>2, <1>3, SMTT(30) DEF RiskInv, EvidenceInv, IsCheckpoint, IsAccount
  <2>2. \A o \in reports : IsReport(o, clock)
    BY <1>2, <1>3, SMTT(30) DEF RiskInv, EvidenceInv, IsReport
  <2> QED
    BY <1>2, <1>3, <1>5, <2>1, <2>2, SMTT(30) DEF EvidenceInv
<1>7. ReportsInv'
  BY <1>2, <1>5 DEF RiskInv, ReportsInv
<1>8. StakesInv'
  BY <1>2 DEF RiskInv, StakesInv
<1> QED
  BY <1>2, <1>6, <1>7, <1>8 DEF RiskInv

LEMMA ObserveAccountKeepsRisk ==
    ASSUME RiskInv, ObserveAccount
    PROVE  RiskInv'
<1>1. PICK a : a = [at |-> clock, margin |-> Margin(Opened("OPEN"))]
  OBVIOUS
<1>2. /\ account' = a /\ seen' = clock /\ clock > seen
      /\ UNCHANGED <<clock, commands, checkpoint, facts, capacity, broker, reports, drafts>>
  BY <1>1 DEF ObserveAccount
<1>3. IsTable(commands) /\ clock \in Nat /\ seen \in Int
  BY DEF RiskInv, EvidenceInv
<1>4. a.at = clock /\ a.margin = Margin(Opened("OPEN"))
  BY <1>1
<1>5. /\ IsAccount(a, clock)
      /\ Taken(commands, MarginOf, OpenBy(commands, broker, a.at)) <= a.margin
  BY <1>3, <1>4, ReportsShowAll, SMTT(30) DEF IsAccount
<1>6. EvidenceInv'
  <2>1. IsCheckpoint(checkpoint, clock)
    BY <1>2, <1>3, SMTT(30) DEF RiskInv, EvidenceInv, IsCheckpoint
  <2>2. \A o \in reports : IsReport(o, clock)
    BY <1>2, <1>3, SMTT(30) DEF RiskInv, EvidenceInv, IsReport
  <2> QED
    BY <1>2, <1>3, <1>5, <2>1, <2>2, SMTT(30) DEF EvidenceInv
<1>7. ReportsInv'
  BY <1>2, <1>5 DEF RiskInv, ReportsInv
<1>8. StakesInv'
  BY <1>2 DEF RiskInv, StakesInv
<1> QED
  BY <1>2, <1>6, <1>7, <1>8 DEF RiskInv

LEMMA TickKeepsRisk ==
    ASSUME RiskInv, Tick
    PROVE  RiskInv'
<1>1. /\ clock' = clock + 1
      /\ UNCHANGED <<commands, checkpoint, account, facts, capacity, broker, reports, drafts, seen>>
  BY DEF Tick, evidence, outside
<1>2. EvidenceInv'
  BY <1>1, SMTT(30) DEF RiskInv, EvidenceInv
<1>3. ReportsInv' /\ StakesInv'
  BY <1>1 DEF RiskInv, ReportsInv, StakesInv
<1> QED
  BY <1>1, <1>2, <1>3 DEF RiskInv

-----------------------------------------------------------------------------
\* What is left is really left: the room that sizing is given, beside what is at
\* stake.

\* The commands of every symbol together are all of them.
LEMMA TakenBySymbol ==
    ASSUME NEW rows, IsTable(rows), NEW w, IsWeight(w), NEW C, C \subseteq Commands
    PROVE  Total([s \in Symbols |-> Taken(rows, w, On(C, s))], Symbols) = Taken(rows, w, C)
<1> DEFINE e == [s \in Symbols |-> Taken(rows, w, On(C, s))]
           Of(T) == {c \in C : SymbolOf(c) \in T}
           B == {T \in SUBSET Symbols : Total(e, T) # Taken(rows, w, Of(T))}
<1>1. \A T : Of(T) \subseteq Commands /\ \A c \in Of(T) : rows[c].lots \in Nat
  BY DEF IsTable
<1>2. ASSUME NEW s \in Symbols
      PROVE  e[s] \in Nat /\ e[s] = Taken(rows, w, Of({s}))
  <2>1. PICK D : D = Of({s})
    OBVIOUS
  <2>2. D \subseteq Commands /\ \A c \in D : rows[c].lots \in Nat
    BY <1>1, <2>1
  <2>3. Taken(rows, w, D) \in Nat
    BY <2>2, TakenGrows
  <2>4. On(C, s) = D
    BY <2>1 DEF On
  <2> QED
    BY <2>1, <2>3, <2>4
<1>3. IsFiniteSet(Symbols) /\ B \subseteq SUBSET Symbols
  BY LegsAssumption
<1> HIDE DEF e
<1>4. ASSUME B # {} PROVE FALSE
  <2>1. PICK T \in B : \A t \in B : t \subseteq T => t = T
    <3> HIDE DEF B
    <3> QED
      BY <1>3, <1>4, MinimalSet, SMTT(30)
  <2>2. T \subseteq Symbols /\ IsFiniteSet(T) /\ Total(e, T) # Taken(rows, w, Of(T))
    BY <1>3, <2>1, FS_Subset
  <2>3. IsInteger(e, T)
    <3>1. ASSUME NEW s \in T PROVE e[s] \in Int
      <4>1. s \in Symbols
        BY <2>2
      <4>2. e[s] \in Nat
        BY <1>2, <4>1, Zenon
      <4> QED
        BY <4>2, SMTT(30)
    <3> QED
      BY <3>1 DEF IsInteger
  <2>4. CASE T = {}
    <3>1. Total(e, T) = 0
      BY <2>2, <2>4, TotalStep
    <3>2. Of(T) = {}
      BY <2>4
    <3>3. Taken(rows, w, {}) = 0
      <4> DEFINE f == [c \in {} |-> rows[c].lots * w[c]]
                 S == {}
      <4>1. IsFiniteSet(S)
        BY FS_EmptySet
      <4> HIDE DEF f
      <4>2. Total(f, S) = 0
        BY <4>1, TotalStep
      <4> QED
        BY <4>2 DEF Taken, f
    <3> QED
      BY <2>2, <3>1, <3>2, <3>3
  <2>5. CASE T # {}
    <3>1. PICK s \in T : TRUE
      BY <2>5
    <3>2. PICK R, D, E : R = T \ {s} /\ D = Of({s}) /\ E = Of(R)
      OBVIOUS
    <3>3. R \notin B /\ R \in SUBSET Symbols
      BY <2>1, <2>2, <3>1, <3>2
    <3>4. Total(e, R) = Taken(rows, w, E)
      BY <3>2, <3>3
    <3>5. Total(e, T) = e[s] + Total(e, R)
      BY <2>2, <2>3, <3>1, <3>2, TotalOf, SMTT(30)
    <3>6. Of(T) = D \cup E /\ D \cap E = {} /\ D \subseteq Commands /\ E \subseteq Commands
      BY <1>1, <3>1, <3>2
    <3>7. \A c \in D \cup E : rows[c].lots \in Nat
      BY <1>1, <3>2
    <3>8. Taken(rows, w, D \cup E) = Taken(rows, w, D) + Taken(rows, w, E)
      BY <3>6, <3>7, TakenTogether, SMTT(30)
    <3>9. e[s] = Taken(rows, w, D)
      BY <1>2, <2>2, <3>1, <3>2
    <3> QED
      BY <2>2, <3>4, <3>5, <3>6, <3>8, <3>9
  <2> QED
    BY <2>4, <2>5
<1>5. Total(e, Symbols) = Taken(rows, w, Of(Symbols))
  BY <1>4
<1>6. Of(Symbols) = C
  BY CommandsAreLegs
<1> QED
  BY <1>5, <1>6 DEF e

\* existing_exposure of the account, added up.
LEMMA ExistingSum ==
    ASSUME IsFiniteSet(Symbols)
    PROVE  MapThenSumSet(Existing, Symbols) = Total([s \in Symbols |-> Existing(s)], Symbols)
<1> DEFINE f == [s \in Symbols |-> Existing(s)]
           H == CHOOSE h : h = [t \in SUBSET Symbols |->
                   IF t = {} THEN 0 ELSE Existing(Pick(t)) + h[t \ {Pick(t)}]]
<1>1. MapThenSumSet(Existing, Symbols) = H[Symbols]
  BY DEF MapThenSumSet, MapThenFoldSet, Pick
<1>2. \A t \in SUBSET Symbols : t # {} => f[Pick(t)] = Existing(Pick(t))
  BY PickIsIn
<1>3. PICK g, S : g = f /\ S = Symbols
  OBVIOUS
<1>4. PICK k : Sums(k, g, S)
  BY <1>3, SumsExist
<1>5. k = [t \in SUBSET Symbols |->
             IF t = {} THEN 0 ELSE Existing(Pick(t)) + k[t \ {Pick(t)}]]
  <2> HIDE DEF f
  <2> QED
    BY <1>2, <1>3, <1>4 DEF Sums
<1>6. H = [t \in SUBSET Symbols |->
             IF t = {} THEN 0 ELSE Existing(Pick(t)) + H[t \ {Pick(t)}]]
  BY <1>5
<1> HIDE DEF f, H
<1>7. PICK h : h = H
  OBVIOUS
<1>8. Sums(h, g, S)
  BY <1>2, <1>3, <1>6, <1>7 DEF Sums
<1>9. h[S] = Total(g, S)
  BY <1>3, <1>8, SumIsTotal
<1> QED
  BY <1>1, <1>3, <1>7, <1>9 DEF f

\* What a decision can rely on: every command was counted by the capacity, and what
\* is neither pending nor among the reported positions is not at stake.
LEMMA EvidenceIsComplete ==
    ASSUME RiskInv, Unmoved, capacity.at # Never, CapacityIsCurrent, account.at >= checkpoint.pending
    PROVE  /\ capacity \in facts
           /\ CountedIn(commands, LiveIn(commands, broker), capacity.at) = LiveIn(commands, broker)
           /\ LiveIn(commands, broker) \subseteq checkpoint.positions \cup Active
           /\ LiveIn(commands, broker) \subseteq OpenBy(commands, broker, account.at) \cup Active
<1>1. capacity \in facts /\ capacity.at \in Int
  BY DEF RiskInv, StakesInv, IsCapacity
<1>2. PICK a, b, p : a = account.at /\ b = checkpoint.at /\ p = checkpoint.pending
  OBVIOUS
<1>3. a \in Int /\ b \in Int /\ p \in Int /\ p <= b /\ p <= a
  BY <1>2 DEF RiskInv, EvidenceInv, IsCheckpoint, IsAccount
<1>4. p <= capacity.at
  <2>1. Max({a, b, p}) \in Int /\ Max({a, b, p}) >= p
    BY <1>3, MaxOfThree
  <2>2. capacity.at >= Max({a, b, p})
    BY <1>2 DEF CapacityIsCurrent
  <2> QED
    BY <1>1, <1>3, <2>1, <2>2, SMTT(30)
<1>5. IsTable(commands) /\ IsBroker(broker, commands)
  BY DEF RiskInv
<1>6. \A c \in LiveIn(commands, broker) : /\ c \in Known
                                          /\ commands[c].updated \in Int
                                          /\ c \in Active \/ broker[c].state = "OPEN"
  BY <1>5 DEF LiveIn, Known, Active, IsTable, IsBroker
<1>7. \A c \in LiveIn(commands, broker) : commands[c].updated <= p
  BY <1>2, <1>6 DEF Unmoved, CommandsCovered
<1>8. \A c \in LiveIn(commands, broker) :
         /\ commands[c].updated <= capacity.at
         /\ commands[c].updated <= b /\ commands[c].updated <= a
  BY <1>1, <1>3, <1>4, <1>6, <1>7, SMTT(30)
<1>9. CountedIn(commands, LiveIn(commands, broker), capacity.at) = LiveIn(commands, broker)
  BY <1>8 DEF CountedIn
<1>10. \A c \in LiveIn(commands, broker) : c \notin Active =>
          c \in OpenBy(commands, broker, a) /\ c \in OpenBy(commands, broker, b)
  BY <1>6, <1>8 DEF OpenBy, Since, Active, LiveIn
<1> QED
  BY <1>1, <1>2, <1>9, <1>10 DEF RiskInv, ReportsInv

\* What is at stake and what is left stay together within every limit.
LEMMA RoomIsReal ==
    ASSUME RiskInv, NEW i \in Intents, Unmoved, capacity.at # Never, CapacityIsCurrent,
           account.at >= checkpoint.pending, ConcurrencyAllows(i),
           NEW in, in = Left(i), NEW rows, rows = commands,
           NEW live, live = LiveIn(commands, broker)
    PROVE  /\ in.budget \in Int /\ in.total \in Int /\ in.margin \in Int
           /\ \A s \in Symbols : in.exposure[s] \in Int
           /\ Taken(rows, Loss, live) + in.budget <= Policy.accountRisk
           /\ \A s \in Symbols :
                 Taken(rows, Notional, On(live, s)) + in.exposure[s] <= Policy.symbolExposure
           /\ Taken(rows, Notional, live) + in.total <= Policy.totalExposure
           /\ Taken(rows, MarginOf, live) + in.margin <= Policy.marginUsage
           /\ Cardinality(live) + Cardinality(LegsOf(i)) <= Policy.maxLegs
           /\ Cardinality(live) + Cardinality(LegsOf(i)) <= Policy.maxPositions
<1>1. PICK P, O, A, Q : /\ P = checkpoint.positions /\ O = checkpoint.orders /\ A = Active
                        /\ Q = OpenBy(commands, broker, account.at)
  OBVIOUS
<1>2. /\ P \subseteq Commands /\ O \subseteq Commands /\ A \subseteq Commands
      /\ Q \subseteq Commands /\ live \subseteq Commands
  BY <1>1 DEF RiskInv, EvidenceInv, IsCheckpoint, Active, OpenBy, LiveIn
<1>3. /\ capacity \in facts /\ CountedIn(rows, live, capacity.at) = live
      /\ live \subseteq P \cup A /\ live \subseteq Q \cup A
  BY <1>1, EvidenceIsComplete
<1>4. IsTable(rows) /\ IsCapacity(capacity) /\ Covers(capacity, rows, live)
  BY <1>3 DEF RiskInv, StakesInv
<1>5. \A c \in Commands : rows[c].lots \in Nat
  BY <1>4 DEF IsTable
<1>6. ASSUME NEW w, IsWeight(w), NEW C, C \subseteq Commands, NEW D, D \subseteq Commands,
             NEW E, E \subseteq C \cup D
      PROVE  /\ Taken(rows, w, E) <= Taken(rows, w, C) + Taken(rows, w, D)
             /\ Taken(rows, w, E) \in Nat /\ Taken(rows, w, C) \in Nat /\ Taken(rows, w, D) \in Nat
  <2>1. PICK U : U = C \cup D
    OBVIOUS
  <2>2. U \subseteq Commands /\ E \subseteq U /\ \A c \in U : rows[c].lots \in Nat
    BY <1>5, <1>6, <2>1
  <2>3. /\ Taken(rows, w, C \cup D) <= Taken(rows, w, C) + Taken(rows, w, D)
        /\ Taken(rows, w, C) \in Nat /\ Taken(rows, w, D) \in Nat
    BY <1>6, <2>1, <2>2, TakenTogether
  <2>4. /\ Taken(rows, w, E) <= Taken(rows, w, U)
        /\ Taken(rows, w, E) \in Nat /\ Taken(rows, w, U) \in Nat
    BY <1>6, <2>2, TakenGrows
  <2> QED
    BY <2>1, <2>3, <2>4, SMTT(30)
<1>7. Cardinality(LegsOf(i)) \in Nat
  BY CommandsOfIntent
<1>8. in.budget \in Int /\ Taken(rows, Loss, live) + in.budget <= Policy.accountRisk
  <2>1. PICK a, b : a = Policy.riskPerTrade /\ b = capacity.risk
    OBVIOUS
  <2>2. a \in Int /\ b \in Int
    BY <1>4, <2>1, PolicyIsNatural, SMTT(30) DEF IsCapacity
  <2>3. Min({a, b}) \in Int /\ Min({a, b}) <= b
    BY <2>2, MinOfTwo
  <2>4. in.budget = Min({a, b})
    BY <2>1 DEF Left
  <2>5. Taken(rows, Loss, live) <= Policy.accountRisk - b
    BY <1>3, <1>4, <2>1 DEF Covers
  <2>6. Taken(rows, Loss, live) \in Nat
    BY <1>2, <1>6, Weights
  <2> QED
    BY <2>2, <2>3, <2>4, <2>5, <2>6, PolicyIsNatural, SMTT(30)
<1>9. Cardinality(live) + Cardinality(LegsOf(i)) <= Policy.maxLegs
  <2>1. Cardinality(live) <= Policy.maxLegs - capacity.legs
    BY <1>3, <1>4 DEF Covers
  <2>2. Cardinality(LegsOf(i)) <= capacity.legs /\ capacity.legs \in Int
    BY <1>4 DEF ConcurrencyAllows, IsCapacity
  <2>3. Cardinality(live) \in Nat
    BY <1>2, SubsetsAreFinite
  <2> QED
    BY <1>7, <2>1, <2>2, <2>3, PolicyIsNatural, SMTT(30)
<1>10. Cardinality(live) + Cardinality(LegsOf(i)) <= Policy.maxPositions
  <2>1. Cardinality(P) + Cardinality(O) + Cardinality(A) + Cardinality(LegsOf(i))
           <= Policy.maxPositions
    BY <1>1 DEF ConcurrencyAllows
  <2>2. PICK U : U = P \cup A
    OBVIOUS
  <2>3. U \subseteq Commands /\ live \subseteq U
    BY <1>2, <1>3, <2>2
  <2>4. /\ IsFiniteSet(P) /\ IsFiniteSet(A) /\ Cardinality(P) \in Nat /\ Cardinality(A) \in Nat
        /\ Cardinality(O) \in Nat
        /\ Cardinality(live) \in Nat /\ Cardinality(U) \in Nat /\ Cardinality(live) <= Cardinality(U)
    BY <1>2, <2>3, SubsetsAreFinite
  <2>5. Cardinality(P \cup A) = Cardinality(P) + Cardinality(A) - Cardinality(P \cap A)
    BY <2>4, FS_Union
  <2>6. Cardinality(P \cap A) \in Nat
    <3>1. P \cap A \subseteq P
      OBVIOUS
    <3> QED
      BY <1>2, <3>1, SubsetsAreFinite
  <2> QED
    BY <1>7, <2>1, <2>2, <2>4, <2>5, <2>6, PolicyIsNatural, SMTT(30)
<1>11. in.margin \in Int /\ Taken(rows, MarginOf, live) + in.margin <= Policy.marginUsage
  <2>1. PICK a, b, m : /\ m = account.margin
                       /\ a = Policy.equity - m /\ b = Policy.marginUsage - m
    OBVIOUS
  <2>2. m \in Int /\ a \in Int /\ b \in Int
    BY <2>1, PolicyIsNatural, SMTT(30) DEF RiskInv, EvidenceInv, IsAccount
  <2>3. Min({a, b}) \in Int /\ Min({a, b}) <= b
    BY <2>2, MinOfTwo
  <2>4. Margin(O) = Taken(rows, MarginOf, O) /\ Margin(A) = Taken(rows, MarginOf, A)
    BY <1>2, SumsAreTaken
  <2>5. in.margin = Min({a, b}) - (Taken(rows, MarginOf, O) + Taken(rows, MarginOf, A))
    BY <1>1, <2>1, <2>4 DEF Left, PendingMargin
  <2>6. Taken(rows, MarginOf, Q) <= m
    BY <1>1, <2>1 DEF RiskInv, ReportsInv
  <2>7. /\ Taken(rows, MarginOf, live) <= Taken(rows, MarginOf, Q) + Taken(rows, MarginOf, A)
        /\ Taken(rows, MarginOf, live) \in Nat /\ Taken(rows, MarginOf, Q) \in Nat
        /\ Taken(rows, MarginOf, A) \in Nat
    BY <1>2, <1>3, <1>6, Weights
  <2>8. Taken(rows, MarginOf, O) \in Nat
    BY <1>2, <1>6, Weights
  <2> QED
    BY <2>1, <2>2, <2>3, <2>5, <2>6, <2>7, <2>8, PolicyIsNatural, SMTT(30)
<1> DEFINE have == [s \in Symbols |-> Taken(rows, Notional, On(live, s))]
           exist == [s \in Symbols |-> Existing(s)]
<1>12. ASSUME NEW s \in Symbols
       PROVE  have[s] \in Nat /\ exist[s] \in Nat /\ have[s] <= exist[s]
  <2>1. PICK X, Y, Z, L : X = On(P, s) /\ Y = On(O, s) /\ Z = On(A, s) /\ L = On(live, s)
    OBVIOUS
  <2>2. /\ X \subseteq Commands /\ Y \subseteq Commands /\ Z \subseteq Commands
        /\ L \subseteq X \cup Z
    BY <1>2, <1>3, <2>1 DEF On
  <2>3. /\ Exposure(X) = Taken(rows, Notional, X) /\ Exposure(Y) = Taken(rows, Notional, Y)
        /\ Exposure(Z) = Taken(rows, Notional, Z)
    BY <2>2, SumsAreTaken
  <2>4. exist[s] = Taken(rows, Notional, X) + Taken(rows, Notional, Y) + Taken(rows, Notional, Z)
    BY <1>1, <2>1, <2>3 DEF Existing
  <2>5. /\ Taken(rows, Notional, L) <= Taken(rows, Notional, X) + Taken(rows, Notional, Z)
        /\ Taken(rows, Notional, L) \in Nat /\ Taken(rows, Notional, X) \in Nat
        /\ Taken(rows, Notional, Z) \in Nat
    BY <1>6, <2>2, Weights
  <2>6. Taken(rows, Notional, Y) \in Nat
    BY <1>6, <2>2, Weights
  <2>7. have[s] = Taken(rows, Notional, L)
    BY <2>1
  <2> HIDE DEF have, exist
  <2> QED
    BY <2>4, <2>5, <2>6, <2>7, SMTT(30)
<1>13. \A s \in Symbols :
          /\ in.exposure[s] \in Int
          /\ Taken(rows, Notional, On(live, s)) + in.exposure[s] <= Policy.symbolExposure
  <2> TAKE s \in Symbols
  <2>1. /\ in.exposure[s] = Policy.symbolExposure - exist[s]
        /\ have[s] = Taken(rows, Notional, On(live, s))
    BY DEF Left
  <2>2. have[s] \in Nat /\ exist[s] \in Nat /\ have[s] <= exist[s]
    BY <1>12
  <2> HIDE DEF have, exist
  <2> QED
    BY <2>1, <2>2, PolicyIsNatural, SMTT(30)
<1>14. in.total \in Int /\ Taken(rows, Notional, live) + in.total <= Policy.totalExposure
  <2>1. PICK e, h, S, one : e = exist /\ h = have /\ S = Symbols /\ one = 1
    OBVIOUS
  <2>2. IsFiniteSet(S) /\ \A s \in S : h[s] \in Nat /\ e[s] \in Nat /\ h[s] <= e[s]
    <3> HIDE DEF have, exist
    <3> QED
      BY <1>12, <2>1, LegsAssumption
  <2>3. IsInteger(h, S) /\ IsInteger(e, S)
    BY <2>2, SMTT(30) DEF IsInteger
  <2>4. one \in Int /\ \A s \in S : one * h[s] <= one * e[s]
    BY <2>1, <2>2, SMTT(30)
  <2>5. one * Total(h, S) <= one * Total(e, S)
    BY <2>2, <2>3, <2>4, TotalsCompare
  <2>6. Total(h, S) \in Int /\ Total(e, S) \in Int
    BY <2>2, <2>3, TotalIsInteger
  <2>7. Total(h, S) = Taken(rows, Notional, live)
    BY <1>2, <1>4, <2>1, TakenBySymbol, Weights
  <2>8. MapThenSumSet(Existing, Symbols) = Total(e, S)
    BY <2>1, ExistingSum, LegsAssumption
  <2>9. in.total = Policy.totalExposure - Total(e, S)
    BY <2>8 DEF Left
  <2> QED
    BY <2>1, <2>5, <2>6, <2>7, <2>9, PolicyIsNatural, SMTT(30)
<1> QED
  BY <1>8, <1>9, <1>10, <1>11, <1>13, <1>14

\* New commands add what they take.
LEMMA TakenAdds ==
    ASSUME NEW rows, IsTable(rows), NEW later, IsTable(later), NEW live, live \subseteq Commands,
           NEW new, new \subseteq Commands, \A c \in live : later[c] = rows[c],
           NEW w, IsWeight(w), NEW m \in Int, NEW limit \in Int,
           Taken(later, w, new) <= m, Taken(rows, w, live) + m <= limit
    PROVE  Taken(later, w, live \cup new) <= limit
<1>1. \A c \in Commands : rows[c].lots \in Nat /\ later[c].lots \in Nat
  BY DEF IsTable
<1>2. /\ Taken(later, w, live \cup new) <= Taken(later, w, live) + Taken(later, w, new)
      /\ Taken(later, w, live \cup new) \in Nat
      /\ Taken(later, w, live) \in Nat /\ Taken(later, w, new) \in Nat
  BY <1>1, TakenTogether
<1>3. /\ Taken(later, w, live) <= Taken(rows, w, live) /\ Taken(rows, w, live) \in Nat
  BY <1>1, TakenGrows
<1> QED
  BY <1>2, <1>3, SMTT(30)

\* later is rows with the new commands beside the live ones, within every limit.
Joins(rows, later, at, time, live, new) ==
    /\ IsTable(later) /\ IsBroker(at, later)
    /\ new \subseteq Commands /\ live \subseteq Commands
    /\ LiveIn(later, at) = live \cup new
    /\ \A c \in Commands : c \notin new => later[c] = rows[c]
    /\ \A c \in new : /\ c \notin live /\ at[c].state = "NONE"
                      /\ later[c].updated = time

FitsTogether(later, live, new, legs) ==
    /\ Cardinality(live) + Cardinality(legs) <= Policy.maxLegs
    /\ Cardinality(live) + Cardinality(legs) <= Policy.maxPositions
    /\ Taken(later, Loss, live \cup new) <= Policy.accountRisk
    /\ Taken(later, Notional, live \cup new) <= Policy.totalExposure
    /\ Taken(later, MarginOf, live \cup new) <= Policy.marginUsage
    /\ \A s \in Symbols :
          Taken(later, Notional, On(live \cup new, s)) <= Policy.symbolExposure

\* The commands an approval adds: new ones, of the sizes sizing gave them.
LEMMA ApprovedCommands ==
    ASSUME ~Ties, RiskInv, NEW i \in Intents, Approve(i), LegsOf(i) # {}
    PROVE  /\ Joins(commands, commands', broker, clock, LiveIn(commands, broker), CommandsOf(i))
           /\ FitsTogether(commands', LiveIn(commands, broker), CommandsOf(i), LegsOf(i))
<1>0. PICK in, rows, later, live, new :
         /\ in = Left(i) /\ rows = commands /\ later = commands'
         /\ live = LiveIn(commands, broker) /\ new = CommandsOf(i)
  OBVIOUS
<1>1. Action(i) \in {"BUY", "SELL"}
  BY IntentsAssumption
<1>2. /\ Unmoved /\ capacity.at # Never /\ CapacityIsCurrent /\ account.at >= checkpoint.pending
      /\ ConcurrencyAllows(i) /\ LegsAreTradable(i) /\ Sizable(in, LegsToSize[i])
      /\ LegIdsAreFree(i) /\ DecidesLater /\ WritesCommands(i)
  BY <1>0, <1>1 DEF Approve, Chosen, Ready, Approves, SetsAreFresh
<1>3. /\ in.budget \in Int /\ in.total \in Int /\ in.margin \in Int
      /\ \A s \in Symbols : in.exposure[s] \in Int
      /\ Taken(rows, Loss, live) + in.budget <= Policy.accountRisk
      /\ \A s \in Symbols :
            Taken(rows, Notional, On(live, s)) + in.exposure[s] <= Policy.symbolExposure
      /\ Taken(rows, Notional, live) + in.total <= Policy.totalExposure
      /\ Taken(rows, MarginOf, live) + in.margin <= Policy.marginUsage
      /\ Cardinality(live) + Cardinality(LegsOf(i)) <= Policy.maxLegs
      /\ Cardinality(live) + Cardinality(LegsOf(i)) <= Policy.maxPositions
  BY <1>0, <1>2, RoomIsReal
<1>4. PICK lots : lots = [c \in Commands |-> later[c].lots]
  OBVIOUS
<1>5. /\ IsTable(rows) /\ IsBroker(broker, rows) /\ clock \in Int
      /\ new = {c \in Commands : c[1] = i} /\ live \subseteq Commands
      /\ later = [c \in Commands |-> later[c]]
      /\ \A c \in Commands : c \notin new => later[c] = rows[c]
      /\ \A c \in new : later[c] = NewCommand(i, c)
  <2>1. IsTable(rows) /\ IsBroker(broker, rows) /\ clock \in Nat
    BY <1>0 DEF RiskInv, EvidenceInv
  <2>2. new = {c \in Commands : c[1] = i} /\ live \subseteq Commands
    BY <1>0 DEF CommandsOf, LiveIn
  <2>3. later = [c \in Commands |-> IF c[1] = i THEN NewCommand(i, c) ELSE rows[c]]
    BY <1>0, <1>2 DEF WritesCommands
  <2> QED
    BY <2>1, <2>2, <2>3, SMTT(30)
<1>6. /\ new \subseteq Commands
      /\ LegsToSize[i] = {PreparedLeg[c] : c \in new} /\ \A c \in new : c[2] \in LegsOf(i)
  BY <1>0, CommandsOfIntent
<1>7. \A l \in LegsOf(i) : StopIsValid(Metadata(l.symbol), l)
  BY <1>2 DEF LegsAreTradable
<1>8. ASSUME NEW c \in new
      PROVE  /\ HasColumns(later[c]) /\ later[c].standing = "ACTIVE"
             /\ later[c].updated = clock /\ later[c].lots = lots[c]
             /\ lots[c] = Lots(in, LegsToSize[i], PreparedLeg[c])
  <2>1. PICK n, e, t : /\ n = Lots(in, LegsToSize[i], PreparedLeg[c])
                       /\ e = ExpiresAt(i) /\ t = clock
    OBVIOUS
  <2>2. later[c] = [standing |-> "ACTIVE", updated |-> t, expires |-> e, lots |-> n]
    BY <1>0, <1>5, <2>1 DEF NewCommand
  <2>3. lots[c] = later[c].lots
    BY <1>4, <1>6
  <2> QED
    BY <2>1, <2>2, <2>3, SMTT(30) DEF HasColumns
<1>9. WithinRoom(lots, new, in)
  BY <1>0, <1>3, <1>7, <1>8, SizedCommands
<1>10. \A c \in new : lots[c] > 0
  BY <1>2, <1>6, <1>8 DEF Sizable
<1>11. \A c \in new : /\ HasColumns(later[c]) /\ later[c].standing = "ACTIVE"
                      /\ later[c].updated = clock /\ later[c].lots = lots[c]
  BY <1>8
<1>12. IsTable(later)
  <2>1. ASSUME NEW c \in Commands
        PROVE  /\ HasColumns(later[c]) /\ later[c].standing \in {"NONE", "ACTIVE", "FINISHED"}
               /\ later[c].lots \in Nat /\ later[c].updated \in Int
    <3>1. CASE c \in new
      <4>1. lots[c] \in Nat
        BY <1>9, <1>10, <3>1, SMTT(30) DEF WithinRoom
      <4> QED
        BY <1>5, <1>11, <3>1, <4>1
    <3>2. CASE c \notin new
      BY <1>5, <3>2 DEF IsTable
    <3> QED
      BY <3>1, <3>2
  <2> QED
    BY <1>5, <2>1 DEF IsTable
<1>13. \A c \in new : rows[c].standing = "NONE" /\ broker[c].state = "NONE" /\ c \notin live
  <2>1. \A c \in new : rows[c].standing = "NONE"
    BY <1>0, <1>2, <1>6 DEF LegIdsAreFree, Known
  <2> QED
    BY <1>0, <1>5, <1>6, <2>1 DEF IsBroker, LiveIn
<1>14. IsBroker(broker, later)
  BY <1>5, <1>13 DEF IsBroker
<1>15. LiveIn(later, broker) = live \cup new
  BY <1>0, <1>5, <1>6, <1>11 DEF LiveIn
<1>16. \A c \in live : later[c] = rows[c]
  BY <1>5, <1>13
<1>17. /\ Taken(later, Loss, new) <= in.budget
       /\ Taken(later, Notional, new) <= in.total
       /\ Taken(later, MarginOf, new) <= in.margin
  <2>1. /\ [c \in new |-> lots[c] * PreparedLeg[c].loss] = [c \in new |-> later[c].lots * Loss[c]]
        /\ [c \in new |-> lots[c] * PreparedLeg[c].notional]
              = [c \in new |-> later[c].lots * Notional[c]]
        /\ [c \in new |-> lots[c] * PreparedLeg[c].margin]
              = [c \in new |-> later[c].lots * MarginOf[c]]
    BY <1>6, <1>11 DEF Loss, Notional, MarginOf
  <2> QED
    BY <1>9, <2>1 DEF Taken, WithinRoom
<1>18. /\ Taken(later, Loss, live \cup new) <= Policy.accountRisk
       /\ Taken(later, Notional, live \cup new) <= Policy.totalExposure
       /\ Taken(later, MarginOf, live \cup new) <= Policy.marginUsage
  <2>1. PICK a, b, c : a = Loss /\ b = Notional /\ c = MarginOf
    OBVIOUS
  <2>2. PICK x, y, z : x = Policy.accountRisk /\ y = Policy.totalExposure /\ z = Policy.marginUsage
    OBVIOUS
  <2>3. x \in Int /\ y \in Int /\ z \in Int
    BY <2>2, PolicyIsNatural, SMTT(30)
  <2>4. PICK p, q, r : p = in.budget /\ q = in.total /\ r = in.margin
    OBVIOUS
  <2>5. IsWeight(a) /\ IsWeight(b) /\ IsWeight(c)
    BY <2>1, Weights
  <2>6. Taken(later, a, live \cup new) <= x
    BY <1>3, <1>5, <1>6, <1>12, <1>16, <1>17, <2>1, <2>2, <2>3, <2>4, <2>5, TakenAdds
  <2>7. Taken(later, b, live \cup new) <= y
    BY <1>3, <1>5, <1>6, <1>12, <1>16, <1>17, <2>1, <2>2, <2>3, <2>4, <2>5, TakenAdds
  <2>8. Taken(later, c, live \cup new) <= z
    BY <1>3, <1>5, <1>6, <1>12, <1>16, <1>17, <2>1, <2>2, <2>3, <2>4, <2>5, TakenAdds
  <2> QED
    BY <2>1, <2>2, <2>6, <2>7, <2>8
<1>19. ASSUME NEW s \in Symbols
       PROVE  Taken(later, Notional, On(live \cup new, s)) <= Policy.symbolExposure
  <2>1. PICK L, N, w, m, limit : /\ L = On(live, s) /\ N = On(new, s) /\ w = Notional
                                 /\ m = in.exposure[s] /\ limit = Policy.symbolExposure
    OBVIOUS
  <2>2. /\ L \subseteq Commands /\ N \subseteq Commands /\ N \subseteq new /\ L \subseteq live
        /\ On(live \cup new, s) = L \cup N
    BY <1>5, <1>6, <2>1 DEF On
  <2>3. m \in Int /\ limit \in Int /\ IsWeight(w) /\ Taken(rows, w, L) + m <= limit
    BY <1>3, <2>1, PolicyIsNatural, Weights, SMTT(30)
  <2>4. CASE N # {}
    <3>1. [c \in N |-> lots[c] * PreparedLeg[c].notional] = [c \in N |-> later[c].lots * w[c]]
      BY <1>11, <2>1, <2>2 DEF Notional
    <3>2. Total([c \in N |-> lots[c] * PreparedLeg[c].notional], N) <= m
      BY <1>9, <2>1, <2>4 DEF WithinRoom
    <3>3. Taken(later, w, N) <= m
      BY <3>1, <3>2 DEF Taken
    <3>4. \A c \in L : later[c] = rows[c]
      BY <1>16, <2>2
    <3>5. Taken(later, w, L \cup N) <= limit
      BY <1>5, <1>12, <2>2, <2>3, <3>3, <3>4, TakenAdds
    <3> QED
      BY <2>1, <2>2, <3>5
  <2>5. CASE N = {}
    <3>1. /\ \A c \in L : rows[c].lots \in Nat /\ later[c].lots = rows[c].lots
          /\ L \subseteq L
      BY <1>5, <1>16, <2>2 DEF IsTable
    <3>2. /\ Taken(later, w, L) <= Taken(rows, w, L)
          /\ Taken(later, w, L) \in Nat /\ Taken(rows, w, L) \in Nat
      BY <2>2, <2>3, <3>1, TakenGrows
    <3>3. m >= 0
      <4>1. DOMAIN in.exposure = Symbols
        BY <1>0 DEF Left
      <4> QED
        BY <1>2, <2>1, <4>1 DEF Sizable
    <3>4. L \cup N = L
      BY <2>5
    <3>5. Taken(later, w, L) <= limit
      BY <2>3, <3>2, <3>3, SMTT(30)
    <3> QED
      BY <2>1, <2>2, <3>4, <3>5
  <2> QED
    BY <2>4, <2>5
<1>20. Joins(rows, later, broker, clock, live, new)
  BY <1>5, <1>6, <1>11, <1>12, <1>13, <1>14, <1>15 DEF Joins
<1>21. FitsTogether(later, live, new, LegsOf(i))
  BY <1>3, <1>18, <1>19 DEF FitsTogether
<1> QED
  BY <1>0, <1>20, <1>21

\* An approval stays within what is left, and no capacity has counted its commands.
LEMMA ApproveKeepsRisk ==
    ASSUME ~Ties, RiskInv, NEW i \in Intents, Approve(i)
    PROVE  RiskInv'
<1>1. UNCHANGED <<clock, checkpoint, account, facts, capacity, broker, reports, drafts, seen>>
  BY DEF Approve, evidence, outside
<1>2. EvidenceInv'
  BY <1>1 DEF RiskInv, EvidenceInv
<1>3. CASE LegsOf(i) = {}
  <2>1. \A c \in Commands : c[1] # i
    BY <1>3, SMTT(30) DEF Commands
  <2>2. commands' = commands
    BY <2>1 DEF Approve, WritesCommands, RiskInv, IsTable
  <2> QED
    BY <1>1, <1>2, <2>2 DEF RiskInv, StakesInv, ReportsInv
<1>4. CASE LegsOf(i) # {}
  <2>1. PICK rows, later, live, new :
           /\ rows = commands /\ later = commands'
           /\ live = LiveIn(commands, broker) /\ new = CommandsOf(i)
    OBVIOUS
  <2> DEFINE both == live \cup new
  <2>2. /\ IsTable(later) /\ IsBroker(broker, later)
        /\ new \subseteq Commands /\ live \subseteq Commands
        /\ LiveIn(later, broker) = both
        /\ \A c \in Commands : c \notin new => later[c] = rows[c]
        /\ \A c \in new : /\ c \notin live /\ broker[c].state = "NONE"
                          /\ later[c].updated = clock
    <3>1. Joins(rows, later, broker, clock, live, new)
      BY <1>4, <2>1, ApprovedCommands
    <3> QED
      BY <3>1 DEF Joins
  <2>3. /\ Cardinality(live) + Cardinality(LegsOf(i)) <= Policy.maxLegs
        /\ Cardinality(live) + Cardinality(LegsOf(i)) <= Policy.maxPositions
        /\ Taken(later, Loss, both) <= Policy.accountRisk
        /\ Taken(later, Notional, both) <= Policy.totalExposure
        /\ Taken(later, MarginOf, both) <= Policy.marginUsage
        /\ \A s \in Symbols : Taken(later, Notional, On(both, s)) <= Policy.symbolExposure
    <3>1. FitsTogether(later, live, new, LegsOf(i))
      BY <1>4, <2>1, ApprovedCommands
    <3> QED
      BY <3>1 DEF FitsTogether
  <2>4. IsTable(rows) /\ clock \in Int
    BY <2>1, SMTT(30) DEF RiskInv, EvidenceInv
  <2>5. Cardinality(both) <= Policy.maxLegs /\ Cardinality(both) <= Policy.maxPositions
    <3>1. /\ IsFiniteSet(new) /\ Cardinality(new) <= Cardinality(LegsOf(i))
          /\ Cardinality(new) \in Nat /\ Cardinality(LegsOf(i)) \in Nat
      BY <2>1, CommandsOfIntent
    <3>2. IsFiniteSet(live) /\ Cardinality(live) \in Nat
      BY <2>2, SubsetsAreFinite
    <3>3. Cardinality(live \cup new)
             = Cardinality(live) + Cardinality(new) - Cardinality(live \cap new)
      BY <3>1, <3>2, FS_Union
    <3>4. Cardinality(live \cap new) \in Nat
      BY <3>2, FS_Intersection, FS_CardinalityType
    <3> QED
      BY <2>1, <2>3, <3>1, <3>2, <3>3, <3>4, PolicyIsNatural, SMTT(30)
  <2>6. Affords(later, both) /\ Fits(later, both)
    BY <2>3, <2>5 DEF Affords, Fits
  <2>7. ASSUME NEW f \in facts \cup drafts
        PROVE  Covers(f, later, both)
    <3>1. IsCapacity(f) /\ Covers(f, rows, live)
      BY <2>1 DEF RiskInv, StakesInv
    <3>2. clock > f.at /\ f.at \in Int
      BY <3>1 DEF Approve, DecidesLater, IsCapacity
    <3>3. CountedIn(later, both, f.at) = CountedIn(rows, live, f.at)
      <4>1. \A c \in new : ~(later[c].updated <= f.at)
        BY <2>2, <2>4, <3>2, SMTT(30)
      <4>2. \A c \in live : later[c] = rows[c]
        BY <2>2
      <4> QED
        BY <2>1, <4>1, <4>2 DEF CountedIn
    <3>4. PICK C : C = CountedIn(rows, live, f.at)
      OBVIOUS
    <3>5. /\ C \subseteq Commands /\ C \subseteq C
          /\ \A c \in C : rows[c].lots \in Nat /\ later[c].lots = rows[c].lots
      BY <2>2, <2>4, <3>4 DEF CountedIn, IsTable
    <3>6. PICK w : w = Loss
      OBVIOUS
    <3>7. /\ Taken(later, w, C) <= Taken(rows, w, C)
          /\ Taken(later, w, C) \in Nat /\ Taken(rows, w, C) \in Nat
      BY <3>5, <3>6, Weights, TakenGrows
    <3>8. /\ Cardinality(C) <= Policy.maxLegs - f.legs
          /\ Taken(rows, w, C) <= Policy.accountRisk - f.risk
      BY <3>1, <3>4, <3>6 DEF Covers
    <3>9. Taken(later, w, C) <= Policy.accountRisk - f.risk
      BY <3>1, <3>7, <3>8, PolicyIsNatural, SMTT(30) DEF IsCapacity
    <3> QED
      BY <3>3, <3>4, <3>6, <3>8, <3>9 DEF Covers
  <2>8. StakesInv'
    BY <1>1, <2>1, <2>2, <2>6, <2>7 DEF RiskInv, StakesInv
  <2>9. ASSUME NEW time \in Int
        PROVE  /\ OpenBy(later, broker, time) = OpenBy(rows, broker, time)
               /\ OpenBy(rows, broker, time) \subseteq Commands
               /\ \A c \in OpenBy(rows, broker, time) : later[c].lots = rows[c].lots
    <3>1. \A c \in Commands : broker[c].state = "OPEN" => later[c] = rows[c]
      BY <2>2
    <3> QED
      BY <3>1 DEF OpenBy, Since
  <2>10. ASSUME NEW time \in Int, NEW m \in Int,
                Taken(rows, MarginOf, OpenBy(rows, broker, time)) <= m
         PROVE  Taken(later, MarginOf, OpenBy(later, broker, time)) <= m
    <3>1. PICK C : C = OpenBy(rows, broker, time)
      OBVIOUS
    <3>2. /\ C \subseteq Commands /\ C \subseteq C
          /\ \A c \in C : later[c].lots = rows[c].lots
      BY <2>9, <3>1
    <3>3. Taken(later, MarginOf, C) <= m
      BY <2>4, <2>10, <3>1, <3>2, FewerOpen
    <3> QED
      BY <2>9, <3>1, <3>3
  <2>11. ReportsInv'
    <3>1. /\ account.at \in Int /\ account.margin \in Int /\ checkpoint.at \in Int
          /\ \A r \in reports : r.at \in Int /\ r.margin \in Int
      BY DEF RiskInv, EvidenceInv, IsAccount, IsCheckpoint, IsReport
    <3>2. /\ OpenBy(rows, broker, checkpoint.at) \subseteq checkpoint.positions
          /\ Taken(rows, MarginOf, OpenBy(rows, broker, account.at)) <= account.margin
          /\ \A r \in reports :
                /\ OpenBy(rows, broker, r.at) \subseteq r.positions
                /\ Taken(rows, MarginOf, OpenBy(rows, broker, r.at)) <= r.margin
      BY <2>1 DEF RiskInv, ReportsInv
    <3>3. OpenBy(later, broker, checkpoint.at) \subseteq checkpoint.positions
      BY <2>9, <3>1, <3>2
    <3>4. Taken(later, MarginOf, OpenBy(later, broker, account.at)) <= account.margin
      BY <2>10, <3>1, <3>2
    <3>5. ASSUME NEW r \in reports
          PROVE  /\ OpenBy(later, broker, r.at) \subseteq r.positions
                 /\ Taken(later, MarginOf, OpenBy(later, broker, r.at)) <= r.margin
      BY <2>9, <2>10, <3>1, <3>2
    <3> QED
      BY <1>1, <2>1, <3>3, <3>4, <3>5 DEF ReportsInv
  <2> QED
    BY <1>1, <1>2, <2>1, <2>2, <2>8, <2>11 DEF RiskInv
<1> QED
  BY <1>3, <1>4

-----------------------------------------------------------------------------
\* Nothing at stake takes nothing.
LEMMA NothingTaken ==
    ASSUME NEW rows, NEW w, NEW C, C = {}
    PROVE  Taken(rows, w, C) = 0 /\ Cardinality(C) = 0
<1> DEFINE f == [c \in C |-> rows[c].lots * w[c]]
<1>1. IsFiniteSet(C) /\ IsInteger(f, C) /\ Cardinality(C) = 0
  BY FS_EmptySet DEF IsInteger
<1> HIDE DEF f
<1>2. Total(f, C) = 0
  BY <1>1, TotalStep
<1> QED
  BY <1>1, <1>2 DEF Taken, f

LEMMA RiskInit == Init => RiskInv
<1> SUFFICES ASSUME Init
             PROVE  RiskInv
  OBVIOUS
<1>1. PICK rows, at : rows = commands /\ at = broker
  OBVIOUS
<1>2. /\ rows = [c \in Commands |-> NoCommand]
      /\ at = [c \in Commands |-> [state |-> "NONE", at |-> Never]]
  BY <1>1 DEF Init
<1>3. IsTable(rows)
  BY <1>2, SMTT(30) DEF IsTable, HasColumns, NoCommand, Never
<1>4. IsBroker(at, rows)
  BY <1>2, SMTT(30) DEF IsBroker, Never
<1>5. PICK live : live = LiveIn(rows, at)
  OBVIOUS
<1>6. live = {} /\ \A time : OpenBy(rows, at, time) = {}
  BY <1>2, <1>5 DEF LiveIn, OpenBy, NoCommand
<1>7. PICK t \in {-1, 0} :
         /\ checkpoint = [at |-> t, pending |-> t, positions |-> {}, orders |-> {}]
         /\ account = [at |-> t, margin |-> 0] /\ seen = t
         /\ capacity = IF t = Never THEN NoCapacity ELSE FullCapacity
         /\ facts = IF t = Never THEN {} ELSE {capacity}
  BY DEF Init, Never
<1>8. clock = 0 /\ reports = {} /\ drafts = {}
  BY DEF Init
<1>9. EvidenceInv
  BY <1>7, <1>8, SMTT(30) DEF EvidenceInv, IsCheckpoint, IsAccount
<1>10. \A w, C : C = {} => Taken(rows, w, C) = 0 /\ Cardinality(C) = 0
  BY NothingTaken
<1>11. StakesInv
  <2>1. IsCapacity(NoCapacity) /\ IsCapacity(FullCapacity) /\ NoCapacity.at = Never
    BY PolicyIsNatural, SMTT(30) DEF IsCapacity, NoCapacity, FullCapacity, Never
  <2>2. CountedIn(rows, live, FullCapacity.at) = {}
    BY <1>6 DEF CountedIn
  <2>3. FullCapacity.legs = Policy.maxLegs /\ FullCapacity.risk = Policy.accountRisk
    BY DEF FullCapacity
  <2>4. Covers(FullCapacity, rows, live)
    BY <1>10, <2>2, <2>3, PolicyIsNatural, SMTT(30) DEF Covers
  <2>5. Affords(rows, live)
    BY <1>6, <1>10, PolicyIsNatural, SMTT(30) DEF Affords
  <2>6. \A s \in Symbols : On(live, s) = {}
    BY <1>6 DEF On
  <2>7. Fits(rows, live)
    BY <1>6, <1>10, <2>6, PolicyIsNatural, SMTT(30) DEF Fits
  <2>8. /\ IsCapacity(capacity) /\ (capacity.at = Never \/ capacity \in facts)
        /\ \A f \in facts \cup drafts : f = FullCapacity
    BY <1>7, <1>8, <2>1
  <2> QED
    BY <1>1, <1>5, <2>1, <2>4, <2>5, <2>7, <2>8 DEF StakesInv
<1>12. ReportsInv
  <2>1. Taken(rows, MarginOf, OpenBy(rows, at, account.at)) = 0 /\ account.margin = 0
    BY <1>6, <1>7, <1>10
  <2>2. OpenBy(rows, at, checkpoint.at) = {}
    BY <1>6
  <2> QED
    BY <1>1, <1>8, <2>1, <2>2, SMTT(30) DEF ReportsInv
<1> QED
  BY <1>1, <1>3, <1>4, <1>9, <1>11, <1>12 DEF RiskInv

LEMMA RiskStep ==
    ASSUME ~Ties
    PROVE  RiskInv /\ [Next]_vars => RiskInv'
<1> SUFFICES ASSUME RiskInv, [Next]_vars
             PROVE  RiskInv'
  OBVIOUS
<1>1. ASSUME UNCHANGED <<clock, commands, checkpoint, account, facts, capacity,
                         broker, reports, drafts, seen>>
      PROVE  RiskInv'
  BY <1>1 DEF RiskInv, EvidenceInv, StakesInv, ReportsInv
<1>2. CASE UNCHANGED vars
  BY <1>1, <1>2 DEF vars, evidence, outside
<1>3. CASE Tick
  BY <1>3, TickKeepsRisk
<1>4. ASSUME NEW i \in Intents, Submit(i) \/ Reject(i)
      PROVE  RiskInv'
  BY <1>1, <1>4 DEF Submit, Reject, evidence, outside
<1>5. ASSUME NEW i \in Intents, Approve(i)
      PROVE  RiskInv'
  BY <1>5, ApproveKeepsRisk
<1>6. ASSUME NEW d \in drafts, RecordCapacity(d)
      PROVE  RiskInv'
  BY <1>6, RecordKeepsRisk
<1>7. ASSUME NEW r \in reports, DeliverReport(r)
      PROVE  RiskInv'
  BY <1>7, DeliverKeepsRisk
<1>8. CASE ObserveMember
  BY <1>1, <1>8 DEF ObserveMember, outside
<1>9. ASSUME NEW s \in Symbols, UpdateMarket(s)
      PROVE  RiskInv'
  BY <1>1, <1>9 DEF UpdateMarket, outside
<1>10. ASSUME NEW state \in {"CLOSED", "OPEN"}, StoreBreaker(state)
       PROVE  RiskInv'
  BY <1>1, <1>10 DEF StoreBreaker, outside
<1>11. ASSUME NEW c \in Commands, MoveCommand(c) \/ FinishCommand(c)
       PROVE  RiskInv'
  BY <1>11, MoveKeepsRisk, FinishKeepsRisk
<1>12. ASSUME NEW c \in Commands, PlaceOrder(c) \/ FillOrder(c) \/ RefuseOrder(c)
       PROVE  RiskInv'
  <2>1. PICK t : t = clock
    OBVIOUS
  <2>2. t \in Int /\ Never \in Int
    BY <2>1, SMTT(30) DEF RiskInv, EvidenceInv, Never
  <2>3. CASE PlaceOrder(c)
    BY <2>2, <2>3, AnswerKeepsRisk DEF PlaceOrder
  <2>4. CASE FillOrder(c)
    BY <2>1, <2>2, <2>4, AnswerKeepsRisk DEF FillOrder
  <2>5. CASE RefuseOrder(c)
    BY <2>1, <2>2, <2>5, AnswerKeepsRisk DEF RefuseOrder
  <2> QED
    BY <1>12, <2>3, <2>4, <2>5
<1>13. ASSUME NEW c \in Commands, ClosePosition(c)
       PROVE  RiskInv'
  BY <1>13, CloseKeepsRisk
<1>14. ASSUME NEW b \in BOOLEAN, Observe(b) \/ Assemble(b)
       PROVE  RiskInv'
  BY <1>14, ObserveKeepsRisk, AssembleKeepsRisk
<1>15. CASE ObserveAccount
  BY <1>15, ObserveAccountKeepsRisk
<1> QED
  BY <1>2, <1>3, <1>4, <1>5, <1>6, <1>7, <1>8, <1>9, <1>10, <1>11, <1>12, <1>13, <1>14, <1>15
     DEF Next

\* What is at stake is within the limits of capacity and policy.
LEMMA StakesAreWithin ==
    RiskInv => CapacityIsNeverOverspent /\ FitsTheBroker
<1> SUFFICES ASSUME RiskInv
             PROVE  CapacityIsNeverOverspent /\ FitsTheBroker
  OBVIOUS
<1>1. PICK live : live = LiveIn(commands, broker)
  OBVIOUS
<1>2. Live = live /\ live \subseteq Commands
  BY <1>1, LiveIsLiveIn
<1>3. /\ Risk(live) = Taken(commands, Loss, live)
      /\ Exposure(live) = Taken(commands, Notional, live)
      /\ Margin(live) = Taken(commands, MarginOf, live)
  BY <1>2, SumsAreTaken
<1>4. ASSUME NEW s \in Symbols
      PROVE  Exposure(On(live, s)) = Taken(commands, Notional, On(live, s))
  <2>1. PICK C : C = On(live, s)
    OBVIOUS
  <2>2. C \subseteq Commands
    BY <1>2, <2>1 DEF On
  <2> QED
    BY <2>1, <2>2, SumsAreTaken
<1>5. Affords(commands, live) /\ Fits(commands, live)
  BY <1>1 DEF RiskInv, StakesInv
<1>6. CapacityIsNeverOverspent
  BY <1>2, <1>3, <1>5 DEF CapacityIsNeverOverspent, Affords
<1> QED
  BY <1>2, <1>3, <1>4, <1>5, <1>6 DEF FitsTheBroker, Fits

\* RiskInv is inductive.
THEOREM RiskInvariant ==
    ASSUME ~Ties
    PROVE  Spec => []RiskInv
BY RiskInit, RiskStep, PTL DEF Spec

\* For every policy, every set of intents, symbols and legs and every order of the
\* reports, the answers, the capacities and the decisions, what the account has at
\* stake at the broker never exceeds the strategy's legs and the account's risk
\* (process_next, evaluate_inner, record_risk_capacity_snapshot_on), when a decision
\* does not fall into the millisecond of the evidence it is based on.
THEOREM CapacityIsNeverOverspentAlways ==
    ASSUME ~Ties
    PROVE  Spec => []CapacityIsNeverOverspent
BY RiskInvariant, StakesAreWithin, PTL

\* ... nor do the exposure of a symbol, the whole exposure, the margin and the
\* number of positions at the broker ever exceed the policy.
THEOREM BrokerAlwaysFits ==
    ASSUME ~Ties
    PROVE  Spec => []FitsTheBroker
BY RiskInvariant, StakesAreWithin, PTL

\* Every approval is sound for the broker's real state (size_and_cap,
\* validate_concurrency), which the core only knows from reports.
THEOREM ApprovalsAlwaysFit ==
    ASSUME ~Ties
    PROVE  Spec => ApprovalsFitTheBroker
<1>1. Spec => []RiskInv
  BY RiskInvariant
<1>2. RiskInv' => FitsTheBroker'
  BY StakesAreWithin, PTL
<1>3. RiskInv' =>
         [\A i \in Intents : results[i] = "NONE" /\ results'[i] = "APPROVED"
                                => FitsTheBroker']_vars
  BY <1>2
<1> QED
  BY <1>1, <1>3, PTL DEF ApprovalsFitTheBroker

-----------------------------------------------------------------------------
\* What is left when a single leg is sized.

\* What is left is counted in whole units.
LEMMA LeftIsInteger ==
    ASSUME RiskInv, NEW i \in Intents, NEW in, in = Left(i)
    PROVE  /\ in.budget \in Int /\ in.total \in Int /\ in.margin \in Int
           /\ DOMAIN in.exposure = Symbols /\ \A s \in Symbols : in.exposure[s] \in Int
<1>1. PICK P, O, A : P = checkpoint.positions /\ O = checkpoint.orders /\ A = Active
  OBVIOUS
<1>2. P \subseteq Commands /\ O \subseteq Commands /\ A \subseteq Commands
  BY <1>1 DEF RiskInv, EvidenceInv, IsCheckpoint, Active
<1>3. /\ account.margin \in Int /\ capacity.risk \in Int
      /\ \A c \in Commands : commands[c].lots \in Nat
  BY DEF RiskInv, EvidenceInv, StakesInv, IsAccount, IsCapacity, IsTable
<1>4. PICK rows : rows = commands
  OBVIOUS
<1>5. ASSUME NEW w, IsWeight(w), NEW C, C \subseteq Commands
      PROVE  Taken(rows, w, C) \in Nat
  <2>1. C \subseteq C /\ \A c \in C : rows[c].lots \in Nat
    BY <1>3, <1>4, <1>5
  <2> QED
    BY <1>5, <2>1, TakenGrows
<1>6. ASSUME NEW C, C \subseteq Commands
      PROVE  Exposure(C) \in Nat /\ Margin(C) \in Nat
  BY <1>4, <1>5, <1>6, SumsAreTaken, Weights
<1>7. in.budget \in Int
  <2>1. PICK a, b : a = Policy.riskPerTrade /\ b = capacity.risk
    OBVIOUS
  <2>2. a \in Int /\ b \in Int
    BY <1>3, <2>1, PolicyIsNatural, SMTT(30)
  <2>3. Min({a, b}) \in Int
    BY <2>2, MinOfTwo
  <2> QED
    BY <2>1, <2>3 DEF Left
<1>8. in.margin \in Int
  <2>1. PICK a, b : a = Policy.equity - account.margin /\ b = Policy.marginUsage - account.margin
    OBVIOUS
  <2>2. a \in Int /\ b \in Int
    BY <1>3, <2>1, PolicyIsNatural, SMTT(30)
  <2>3. Min({a, b}) \in Int
    BY <2>2, MinOfTwo
  <2>4. Margin(O) \in Nat /\ Margin(A) \in Nat
    BY <1>2, <1>6
  <2>5. in.margin = Min({a, b}) - (Margin(O) + Margin(A))
    BY <1>1, <2>1 DEF Left, PendingMargin
  <2> QED
    BY <2>3, <2>4, <2>5, SMTT(30)
<1> DEFINE exist == [s \in Symbols |-> Existing(s)]
<1>9. \A s \in Symbols : exist[s] \in Int
  <2> TAKE s \in Symbols
  <2>1. On(P, s) \subseteq Commands /\ On(O, s) \subseteq Commands /\ On(A, s) \subseteq Commands
    BY <1>2 DEF On
  <2>2. Exposure(On(P, s)) \in Nat /\ Exposure(On(O, s)) \in Nat /\ Exposure(On(A, s)) \in Nat
    <3>1. PICK X, Y, Z : X = On(P, s) /\ Y = On(O, s) /\ Z = On(A, s)
      OBVIOUS
    <3> QED
      BY <1>6, <2>1, <3>1
  <2> QED
    BY <1>1, <2>2, SMTT(30) DEF Existing
<1>10. in.total \in Int
  <2>1. PICK e, S : e = exist /\ S = Symbols
    OBVIOUS
  <2>2. IsFiniteSet(S) /\ IsInteger(e, S)
    <3> HIDE DEF exist
    <3> QED
      BY <1>9, <2>1, LegsAssumption DEF IsInteger
  <2>3. Total(e, S) \in Int
    BY <2>2, TotalIsInteger
  <2>4. MapThenSumSet(Existing, Symbols) = Total(e, S)
    BY <2>1, ExistingSum, LegsAssumption
  <2>5. in.total = Policy.totalExposure - Total(e, S)
    BY <2>4 DEF Left
  <2> QED
    BY <2>3, <2>5, PolicyIsNatural, SMTT(30)
<1>11. DOMAIN in.exposure = Symbols /\ \A s \in Symbols : in.exposure[s] = Policy.symbolExposure - exist[s]
  BY DEF Left
<1>12. \A s \in Symbols : in.exposure[s] \in Int
  <2> HIDE DEF exist
  <2> QED
    BY <1>9, <1>11, PolicyIsNatural, SMTT(30)
<1> QED
  BY <1>7, <1>8, <1>10, <1>11, <1>12

LEMMA SizingStep == RiskInv => SizingIsLargest
<1> SUFFICES ASSUME RiskInv, NEW i \in Intents, NEW l \in LegsToSize[i], LegsToSize[i] = {l},
                    LegsAreTradable(i), \A s \in Symbols : Left(i).exposure[s] >= 0
             PROVE  LargestAffordable(Left(i), l) =
                       IF Sizable(Left(i), {l}) THEN Lots(Left(i), {l}, l) ELSE 0
  BY DEF SizingIsLargest
<1>1. PICK in : in = Left(i)
  OBVIOUS
<1>2. /\ in.budget \in Int /\ in.total \in Int /\ in.margin \in Int
      /\ DOMAIN in.exposure = Symbols /\ \A s \in Symbols : in.exposure[s] \in Int
  BY <1>1, LeftIsInteger
<1>3. PICK c \in CommandsOf(i) : l = PreparedLeg[c]
  BY CommandsOfIntent, SMTT(30)
<1>4. c \in Commands /\ c[2] \in LegsOf(i)
  BY CommandsOfIntent
<1>5. StopIsValid(Metadata(SymbolOf(c)), c[2])
  BY <1>4 DEF LegsAreTradable, SymbolOf
<1>6. IsSizable(l) /\ l.symbol = SymbolOf(c)
  BY <1>3, <1>4, <1>5, LegIsPriced DEF IsSizable
<1>7. SymbolOf(c) \in Symbols
  BY <1>4, CommandsAreLegs
<1>8. l.min \in Nat
  <2>1. l = Prepared(Metadata(SymbolOf(c)), c[2])
    BY <1>3, <1>4 DEF PreparedLeg
  <2>2. l.min = Metadata(SymbolOf(c)).min
    BY <2>1 DEF Prepared
  <2> QED
    BY <1>7, <2>2, MetadataAssumption
<1>9. (\A s \in DOMAIN in.exposure : in.exposure[s] >= 0) /\ in.exposure[l.symbol] \in Int
  BY <1>1, <1>2, <1>6, <1>7
<1>10. LargestAffordable(in, l) = IF Sizable(in, {l}) THEN Lots(in, {l}, l) ELSE 0
  BY <1>2, <1>6, <1>8, <1>9, SingleIsLargest
<1> QED
  BY <1>1, <1>10

\* Whatever the evidence, sizing gives a single leg exactly the largest volume that
\* every limit allows, and refuses it only when no volume is allowed (size_and_cap,
\* cap_scale, floor_to_step): the fractions of the caps and the rounding to the
\* broker's step lose nothing.
THEOREM SizingAlwaysLargest ==
    ASSUME ~Ties
    PROVE  Spec => []SizingIsLargest
BY RiskInvariant, SizingStep, PTL

\* Every table holds what its columns allow.
THEOREM RiskTypes ==
    ASSUME ~Ties
    PROVE  Spec => []TypeOK
<1> DEFINE Rest == /\ accepted \subseteq Intents
                   /\ results \in [Intents -> {"NONE", "APPROVED", "REJECTED"}]
                   /\ breaker \in {"ABSENT", "CLOSED", "OPEN"}
<1>1. Init => Rest
  BY DEF Init
<1>2. Rest /\ [Next]_vars => Rest'
  BY DEF Next, vars, evidence, outside, Tick, Submit, Approve, Reject, WritesResult,
         RecordCapacity, DeliverReport, ObserveMember, UpdateMarket, StoreBreaker, MoveCommand,
         FinishCommand, PlaceOrder, FillOrder, RefuseOrder, Answer, ClosePosition, Observe,
         Assemble, ObserveAccount
<1>3. RiskInv /\ Rest => TypeOK
  BY DEF RiskInv, IsTable, EvidenceInv, IsCheckpoint, IsAccount, StakesInv, IsCapacity, TypeOK
<1> QED
  BY <1>1, <1>2, <1>3, RiskInvariant, PTL DEF Spec
=============================================================================
