-------------------------- MODULE ReconciliationProofs --------------------------
(***************************************************************************)
(* Proofs about the projections, the reconciliation runs and the rebuild,  *)
(* for every set of keys, payloads, times, commands and messages and every *)
(* bound on the log.                                                       *)
(*                                                                         *)
(* The order of arrival decides which writes happen, and no property of    *)
(* the tables alone is inductive: whether a row may be replaced depends on *)
(* the last full set, which the code knows from the watermark in the       *)
(* checkpoint, and on the log check that observations of one moment agree. *)
(* So TablesInv says what the tables are as a function of the events in    *)
(* the log and not of their order: Projects for the rows, the sets and the *)
(* checkpoint, BarsOf for the bars. What an event adds is proved for any   *)
(* set of events, and the steps of the store are the case of the whole     *)
(* log.                                                                    *)
(*                                                                         *)
(* A rebuild is the other case. It applies the events of the log to empty  *)
(* tables, in the order of arrival time and id. Rank counts the events     *)
(* before an event and Prefix(S, n) holds the first n, so that the lemmas  *)
(* on one event carry Projects from one prefix to the next (ReplaySteps,   *)
(* ReplayRestores), and no write of a replay is refused as a contradiction *)
(* (ReplayFits). Events determine the tables (ProjectionIsUnique,          *)
(* BarsAreUnique), hence a rebuild gives back the tables it dropped and    *)
(* its step is a stutter: RebuildSpec implements Spec, and what is proved  *)
(* of Spec holds with rebuilds at any time.                                *)
(*                                                                         *)
(* Reading back needs the events behind the columns as well: which result  *)
(* a run points at, and which results vouch for each time in the           *)
(* checkpoint (RunFits, CheckpointFits, ReadInv).                          *)
(***************************************************************************)
EXTENDS ProjectionRebuild, FiniteSetTheorems, WellFoundedInduction, TLAPS

\* Zenon proves a leaf that names no other prover.
USE Zenon

-----------------------------------------------------------------------------
\* What the tables hold of a set of events.

\* x is the last of the times T, or Never.
IsLatest(x, T) == IF T = {} THEN x = Never ELSE x \in T /\ \A t \in T : t <= x

\* The results that vouch for the account, the symbols and the commands; R are the
\* runs they answer.
ByAccount(L) == {e \in Results(L) : Account \in DOMAIN e.rows}
BySymbols(L, R) == {e \in Results(L) : R[e.req].symbols}
ByCommands(L, R) ==
    {e \in Results(L) : R[e.req].disposition = "COMPLETED" /\ R[e.req].scope}

\* c is the checkpoint of the events L.
CheckpointOf(c, L, R) ==
    /\ c = [source |-> c.source, at |-> c.at, account |-> c.account, symbols |-> c.symbols,
            pending |-> c.pending, watermark |-> [kind \in Kinds |-> c.at],
            set |-> [kind \in Kinds |-> c.set[kind]], updated |-> c.updated]
    /\ IsLatest(c.at, {e.at : e \in Results(L)})
    /\ IsLatest(c.account, {e.at : e \in ByAccount(L)})
    /\ IsLatest(c.symbols, {e.at : e \in BySymbols(L, R)})
    /\ IsLatest(c.pending, {e.at : e \in ByCommands(L, R)})
    /\ IsLatest(c.updated, {e.received : e \in Results(L)})
    /\ Results(L) = {} => c.source = 0 /\ \A kind \in Kinds : c.set[kind] = <<>>
    /\ Results(L) # {} => \E e \in Results(L) : e.at = c.at /\ e.req = c.source
    /\ \A e \in Results(L) : e.at = c.at =>
           /\ c.source <= e.req
           /\ \A kind \in Kinds : c.set[kind] = Part(e.rows, KeysOf(kind))

\* The tables t, but for the bars, are those of the events L.
Projects(t, L, R) ==
    /\ t = [latest |-> [k \in Keys |-> t.latest[k]], bars |-> t.bars,
            members |-> [kind \in Kinds |->
                           [at |-> t.checkpoint.at, rows |-> t.checkpoint.set[kind]]],
            checkpoint |-> t.checkpoint]
    /\ \A k \in Keys : IsNewestOf(t.latest[k], Observations(k, L))
    /\ CheckpointOf(t.checkpoint, L, R)

\* The bars are those of the events L.
BarsAt(at, L) == {e.rows[Bar] : e \in {f \in L : Bar \in DOMAIN f.rows /\ f.at = at}}
BarsOf(bars, L) ==
    /\ bars = [at \in Times |-> bars[at]]
    /\ \A at \in Times : IF BarsAt(at, L) = {} THEN bars[at] = Nothing
                         ELSE BarsAt(at, L) = {bars[at]}

\* A snapshot observes one key, a result no bar.
IsEvent(e) ==
    /\ e \in Event
    /\ e.req = 0 => \E k \in Keys \cup {Bar} : DOMAIN e.rows = {k}
    /\ e.req > 0 => DOMAIN e.rows \subseteq Keys
AreEvents(L) == \A e \in L : IsEvent(e)

-----------------------------------------------------------------------------
\* Last times.

LEMMA LatestIsUnique ==
    ASSUME NEW T, T \subseteq Nat, NEW x, NEW y, IsLatest(x, T), IsLatest(y, T)
    PROVE  x = y
<1>1. CASE T = {}
  BY <1>1 DEF IsLatest
<1>2. CASE T # {}
  <2>1. x \in Nat /\ y \in Nat /\ x <= y /\ y <= x
    BY <1>2 DEF IsLatest
  <2> QED
    BY <2>1, SMT
<1> QED
  BY <1>1, <1>2

LEMMA LatestIsInt ==
    ASSUME NEW T, T \subseteq Nat, NEW x, IsLatest(x, T)
    PROVE  x \in Int /\ x >= Never /\ (T # {} => x \in Nat)
<1>1. Never \in Int /\ Never >= Never /\ \A n \in Nat : n \in Int /\ n >= Never
  BY SMT DEF Never
<1> QED
  BY <1>1 DEF IsLatest

LEMMA LatestAdded ==
    ASSUME NEW T, T \subseteq Nat, NEW x, IsLatest(x, T), NEW n \in Nat
    PROVE  IsLatest(Later(x, n), T \cup {n})
<1>1. CASE T = {}
  <2>1. x = Never
    BY <1>1 DEF IsLatest
  <2>2. Later(x, n) = n
    BY <2>1, SMT DEF Later, Never
  <2>3. n <= n
    BY SMT
  <2> QED
    BY <1>1, <2>2, <2>3 DEF IsLatest
<1>2. CASE T # {}
  <2>1. x \in T /\ x \in Nat /\ \A t \in T : t <= x
    BY <1>2 DEF IsLatest
  <2>2. Later(x, n) \in T \cup {n} /\ x <= Later(x, n) /\ n <= Later(x, n) /\ Later(x, n) \in Nat
    BY <2>1, SMT DEF Later
  <2>3. ASSUME NEW t \in T PROVE t <= Later(x, n)
    BY <2>1, <2>2, SMT
  <2> QED
    BY <2>2, <2>3 DEF IsLatest
<1> QED
  BY <1>1, <1>2

-----------------------------------------------------------------------------
\* The newest observation.

AreObservations(O) == \A o \in O : o = [at |-> o.at, v |-> o.v] /\ o.at \in Nat

LEMMA NewestIsUnique ==
    ASSUME NEW O, AreObservations(O), NEW r, NEW q, IsNewestOf(r, O), IsNewestOf(q, O)
    PROVE  r = q
<1>1. CASE O = {}
  BY <1>1 DEF IsNewestOf
<1>2. CASE O # {}
  <2>1. r \in O /\ q \in O /\ (q = r \/ q.at < r.at) /\ (r = q \/ r.at < q.at)
    BY <1>2 DEF IsNewestOf
  <2>2. r.at \in Nat /\ q.at \in Nat
    BY <2>1 DEF AreObservations
  <2>3. ~(q.at < r.at /\ r.at < q.at)
    BY <2>2, SMT
  <2> QED
    BY <2>1, <2>3
<1> QED
  BY <1>1, <1>2

\* A row is no row, or an observation.
LEMMA NewestIsRow ==
    ASSUME NEW O, AreObservations(O), NEW row, IsNewestOf(row, O)
    PROVE  row = [at |-> row.at, v |-> row.v] /\ row.at \in Int
<1>1. NoRow = [at |-> NoRow.at, v |-> NoRow.v] /\ NoRow.at \in Int
  BY SMT DEF NoRow, Never
<1>2. \A n \in Nat : n \in Int
  BY SMT
<1> QED
  BY <1>1, <1>2 DEF IsNewestOf, AreObservations

\* One more observation, which does not contradict the row.
LEMMA NewestAdded ==
    ASSUME NEW O, AreObservations(O), NEW row, IsNewestOf(row, O),
           NEW at \in Nat, NEW v, ~Contradicts(row, at, v)
    PROVE  IsNewestOf(Newest(row, at, v), O \cup {[at |-> at, v |-> v]})
<1>0. PICK o : o = [at |-> at, v |-> v]
  OBVIOUS
<1>1. o = [at |-> at, v |-> v] /\ o.at = at /\ o.v = v
  BY <1>0
<1>2. row = [at |-> row.at, v |-> row.v] /\ row.at \in Int
  BY NewestIsRow
<1>3. CASE at > row.at
  <2>1. Newest(row, at, v) = o
    BY <1>1, <1>3 DEF Newest
  <2>2. ASSUME NEW p \in O PROVE p.at < o.at
    <3>1. p.at \in Nat /\ (p = row \/ p.at < row.at)
      BY <2>2 DEF IsNewestOf, AreObservations
    <3>2. p.at <= row.at
      BY <1>2, <3>1, SMT
    <3> QED
      BY <1>1, <1>2, <1>3, <3>1, <3>2, SMT
  <2> QED
    BY <1>1, <2>1, <2>2 DEF IsNewestOf
<1>4. CASE ~(at > row.at)
  <2>1. Newest(row, at, v) = row
    BY <1>4 DEF Newest
  <2>2. O # {}
    <3>1. NoRow.at = Never
      BY DEF NoRow
    <3>2. row.at # Never
      BY <1>2, <1>4, SMT DEF Never
    <3> QED
      BY <3>1, <3>2 DEF IsNewestOf
  <2>3. row \in O /\ \A p \in O : p = row \/ p.at < row.at
    BY <2>2 DEF IsNewestOf
  <2>4. at = row.at \/ at < row.at
    BY <1>2, <1>4, SMT
  <2>5. o = row \/ o.at < row.at
    BY <1>1, <1>2, <2>4 DEF Contradicts
  <2> QED
    BY <1>1, <2>1, <2>3, <2>5 DEF IsNewestOf
<1> QED
  BY <1>3, <1>4

\* A full set drops what was observed up to its time.
LEMMA NewestDropped ==
    ASSUME NEW O, AreObservations(O), NEW row, IsNewestOf(row, O), NEW a \in Nat
    PROVE  IsNewestOf(IF row.at <= a THEN NoRow ELSE row, {o \in O : o.at > a})
<1> DEFINE Q == {o \in O : o.at > a}
<1>1. CASE O = {}
  <2>1. Q = {} /\ row = NoRow
    BY <1>1 DEF IsNewestOf
  <2> QED
    BY <2>1 DEF IsNewestOf
<1>2. CASE O # {}
  <2>1. row \in O /\ row.at \in Nat /\ \A o \in O : o = row \/ o.at < row.at
    BY <1>2 DEF IsNewestOf, AreObservations
  <2>2. CASE row.at <= a
    <3>1. ASSUME NEW o \in O PROVE ~(o.at > a)
      <4>1. o.at \in Nat /\ (o = row \/ o.at < row.at)
        BY <2>1 DEF AreObservations
      <4>2. o.at <= row.at
        BY <2>1, <4>1, SMT
      <4> QED
        BY <2>1, <2>2, <4>1, <4>2, SMT
    <3>2. Q = {}
      BY <3>1
    <3> QED
      BY <2>2, <3>2 DEF IsNewestOf
  <2>3. CASE ~(row.at <= a)
    <3>1. row.at > a
      BY <2>1, <2>3, SMT
    <3> QED
      BY <2>1, <2>3, <3>1 DEF IsNewestOf
  <2> QED
    BY <2>2, <2>3
<1> QED
  BY <1>1, <1>2

\* A member of a newer full set replaces what was observed up to its time.
LEMMA NewestRenewed ==
    ASSUME NEW O, AreObservations(O), NEW row, IsNewestOf(row, O),
           NEW a \in Nat, NEW v, ~Contradicts(row, a, v)
    PROVE  IsNewestOf(Newest(row, a, v), {o \in O : o.at > a} \cup {[at |-> a, v |-> v]})
<1>1. PICK Q, kept : Q = {o \in O : o.at > a} /\ kept = IF row.at <= a THEN NoRow ELSE row
  OBVIOUS
<1>2. IsNewestOf(kept, Q) /\ AreObservations(Q)
  BY <1>1, NewestDropped DEF AreObservations
<1>3. row = [at |-> row.at, v |-> row.v] /\ row.at \in Int
  BY NewestIsRow
<1>4. ~Contradicts(kept, a, v)
  <2>1. NoRow.at # a
    BY SMT DEF NoRow, Never
  <2> QED
    BY <1>1, <2>1 DEF Contradicts
<1>5. Newest(kept, a, v) = Newest(row, a, v)
  <2>1. CASE row.at <= a
    <3>1. Newest(kept, a, v) = [at |-> a, v |-> v]
      BY <1>1, <2>1, SMT DEF Newest, NoRow, Never
    <3>2. a > row.at \/ a = row.at
      BY <1>3, <2>1, SMT
    <3>3. Newest(row, a, v) = [at |-> a, v |-> v]
      BY <1>3, <3>2 DEF Newest, Contradicts
    <3> QED
      BY <3>1, <3>3
  <2>2. CASE ~(row.at <= a)
    BY <1>1, <2>2
  <2> QED
    BY <2>1, <2>2
<1>6. IsNewestOf(Newest(kept, a, v), Q \cup {[at |-> a, v |-> v]})
  BY <1>2, <1>4, NewestAdded
<1> QED
  BY <1>1, <1>5, <1>6

-----------------------------------------------------------------------------
\* Keys and events.

\* Two kinds of members, and neither is a snapshot or the bar.
LEMMA KeyKinds ==
    ASSUME NEW k \in Keys
    PROVE  /\ k # Bar
           /\ k \in Snapshots <=> k \notin Members
           /\ k \in Members => KindOf(k) \in Kinds /\ k \in KeysOf(KindOf(k))
           /\ \A kind \in Kinds : k \in KeysOf(kind) => k \in Members /\ KindOf(k) = kind
<1>1. k # Bar /\ (k \in Snapshots <=> k \notin Members)
  BY KeysAreDistinct DEF Keys, Snapshots, Members
<1>2. k \in Members => KindOf(k) \in Kinds /\ k \in KeysOf(KindOf(k))
  BY DEF KindOf, Kinds, KeysOf, Members
<1>3. ASSUME NEW kind \in Kinds, k \in KeysOf(kind)
      PROVE  k \in Members /\ KindOf(k) = kind
  <2>1. CASE kind = "positions"
    BY <1>3, <2>1 DEF KeysOf, Members, KindOf
  <2>2. CASE kind = "orders"
    <3>1. k \in Orders
      BY <1>3, <2>2 DEF KeysOf
    <3>2. k \notin Positions
      BY <3>1, KeysAreDistinct
    <3> QED
      BY <2>2, <3>1, <3>2 DEF Members, KindOf
  <2> QED
    BY <2>1, <2>2 DEF Kinds
<1> QED
  BY <1>1, <1>2, <1>3

\* The key of a snapshot is the one key it observes.
LEMMA OneKey ==
    ASSUME NEW e, NEW k, DOMAIN e.rows = {k}
    PROVE  KeyOf(e) = k
BY DEF KeyOf

LEMMA EventFields ==
    ASSUME NEW e, IsEvent(e)
    PROVE  /\ e.at \in Times /\ e.at \in Nat /\ e.received \in Nat
           /\ e.req \in Nat /\ e.id \in Ids
           /\ \A k \in DOMAIN e.rows : e.rows[k] \in Values /\ e.rows[k] # Nothing
<1>1. e \in Event
  BY DEF IsEvent
<1>2. /\ e.at \in Times /\ e.received \in Times /\ e.req \in Nat /\ e.id \in Ids
      /\ e.rows \in Rows(Keys \cup {Bar})
  BY <1>1 DEF Event
<1>3. PICK D \in SUBSET (Keys \cup {Bar}) : e.rows \in [D -> Values]
  BY <1>2 DEF Rows
<1>4. \A k \in DOMAIN e.rows : e.rows[k] \in Values
  BY <1>3
<1> QED
  BY <1>2, <1>4, TimesAreStored

\* The times of a set of events are numbers.
LEMMA TimesOfEvents ==
    ASSUME NEW L, AreEvents(L), NEW S, S \subseteq L
    PROVE  {e.at : e \in S} \subseteq Nat /\ {e.received : e \in S} \subseteq Nat
BY EventFields DEF AreEvents

LEMMA ObservationsOfEvents ==
    ASSUME NEW L, AreEvents(L), NEW k
    PROVE  AreObservations(Observations(k, L))
<1> SUFFICES ASSUME NEW o \in Observations(k, L)
             PROVE  o = [at |-> o.at, v |-> o.v] /\ o.at \in Nat
  BY DEF AreObservations
<1>1. PICK e \in L : o = [at |-> e.at, v |-> e.rows[k]]
  BY DEF Observations
<1>2. o.at = e.at /\ o.v = e.rows[k]
  BY <1>1
<1>3. e.at \in Nat
  BY EventFields DEF AreEvents
<1> QED
  BY <1>1, <1>2, <1>3

\* An event that is no full set leaves what counted before.
LEMMA ObservationsAdded ==
    ASSUME NEW L, NEW e, Results(L \cup {e}) = Results(L), NEW k
    PROVE  Observations(k, L \cup {e}) =
               IF Counts(e, k, L) THEN Observations(k, L) \cup {[at |-> e.at, v |-> e.rows[k]]}
               ELSE Observations(k, L)
<1>1. \A f : Counts(f, k, L \cup {e}) <=> Counts(f, k, L)
  BY DEF Counts, IsLastSet
<1>2. CASE Counts(e, k, L)
  <2>1. {f \in L \cup {e} : Counts(f, k, L \cup {e})} = {f \in L : Counts(f, k, L)} \cup {e}
    BY <1>1, <1>2
  <2> QED
    BY <1>2, <2>1 DEF Observations
<1>3. CASE ~Counts(e, k, L)
  <2>1. {f \in L \cup {e} : Counts(f, k, L \cup {e})} = {f \in L : Counts(f, k, L)}
    BY <1>1, <1>3
  <2> QED
    BY <1>3, <2>1 DEF Observations
<1> QED
  BY <1>2, <1>3

\* Above the watermark is after every full set.
LEMMA AboveWatermark ==
    ASSUME NEW L, AreEvents(L), NEW x, IsLatest(x, {e.at : e \in Results(L)}), NEW at \in Nat
    PROVE  /\ x \in Int
           /\ at > x <=> \A f \in Results(L) : f.at < at
           /\ \A f \in Results(L) : f.at <= x
<1>1. Results(L) \subseteq L
  BY DEF Results
<1>2. x \in Int /\ \A f \in Results(L) : f.at \in Nat
  BY <1>1, TimesOfEvents, LatestIsInt, EventFields DEF AreEvents
<1>3. CASE Results(L) = {}
  <2>1. x = Never
    BY <1>3 DEF IsLatest
  <2>2. at > x
    BY <2>1, SMT DEF Never
  <2> QED
    BY <1>2, <1>3, <2>2
<1>4. CASE Results(L) # {}
  <2>1. x \in {e.at : e \in Results(L)} /\ \A f \in Results(L) : f.at <= x
    BY <1>4 DEF IsLatest
  <2>2. PICK g \in Results(L) : x = g.at
    BY <2>1
  <2>3. at > x => \A f \in Results(L) : f.at < at
    BY <1>2, <2>1, SMT
  <2>4. g.at < at => at > x
    BY <1>2, <2>2, SMT
  <2> QED
    BY <1>2, <2>1, <2>3, <2>4
<1> QED
  BY <1>3, <1>4

-----------------------------------------------------------------------------
\* A snapshot.

\* The checkpoint depends on the results alone.
LEMMA CheckpointOfResults ==
    ASSUME NEW c, NEW L, NEW M, NEW R, CheckpointOf(c, L, R), Results(L) = Results(M)
    PROVE  CheckpointOf(c, M, R)
<1>1. ByAccount(L) = ByAccount(M) /\ BySymbols(L, R) = BySymbols(M, R)
      /\ ByCommands(L, R) = ByCommands(M, R)
  BY DEF ByAccount, BySymbols, ByCommands
<1> QED
  BY <1>1 DEF CheckpointOf

LEMMA SnapshotIsNoResult ==
    ASSUME NEW L, NEW e, e.req = 0
    PROVE  Results(L \cup {e}) = Results(L)
<1>1. ~(e.req > 0)
  BY SMT
<1> QED
  BY <1>1 DEF Results

\* The tables with one more row.
LEMMA RowProjects ==
    ASSUME NEW t, NEW L, NEW M, NEW R, Projects(t, L, R), CheckpointOf(t.checkpoint, M, R),
           NEW k \in Keys, NEW row, IsNewestOf(row, Observations(k, M)),
           \A j \in Keys \ {k} : Observations(j, M) = Observations(j, L)
    PROVE  Projects(WithRow(t, k, row), M, R)
<1>1. PICK u : u = WithRow(t, k, row)
  OBVIOUS
<1>2. /\ t.latest = [j \in Keys |-> t.latest[j]]
      /\ t.members = [kind \in Kinds |->
                        [at |-> t.checkpoint.at, rows |-> t.checkpoint.set[kind]]]
  BY SMT DEF Projects
<1>3. /\ u.latest = [t.latest EXCEPT ![k] = row] /\ u.bars = t.bars /\ u.members = t.members
      /\ u.checkpoint = t.checkpoint
      /\ u = [latest |-> u.latest, bars |-> u.bars, members |-> u.members,
              checkpoint |-> u.checkpoint]
  BY <1>1 DEF WithRow
<1>4. /\ u.latest = [j \in Keys |-> u.latest[j]] /\ u.latest[k] = row
      /\ \A j \in Keys \ {k} : u.latest[j] = t.latest[j]
  BY <1>2, <1>3
<1>5. \A j \in Keys : IsNewestOf(u.latest[j], Observations(j, M))
  BY <1>4 DEF Projects
<1> QED
  BY <1>1, <1>2, <1>3, <1>4, <1>5 DEF Projects

\* The watermark of a key is the checkpoint's time.
LEMMA WatermarkOf ==
    ASSUME NEW t, NEW L, NEW R, Projects(t, L, R), NEW k \in Members
    PROVE  /\ Watermark(t, k) = t.checkpoint.at
           /\ t.members[KindOf(k)] = [at |-> t.checkpoint.at,
                                      rows |-> t.checkpoint.set[KindOf(k)]]
<1>1. KindOf(k) \in Kinds
  BY DEF KindOf, Kinds
<1>2. t.members = [kind \in Kinds |->
                     [at |-> t.checkpoint.at, rows |-> t.checkpoint.set[kind]]]
  BY SMT DEF Projects
<1>3. t.checkpoint.watermark = [kind \in Kinds |-> t.checkpoint.at]
  BY SMT DEF Projects, CheckpointOf
<1> QED
  BY <1>1, <1>2, <1>3 DEF Watermark

\* apply_account, apply_symbol, apply_position, apply_order
LEMMA FactProjects ==
    ASSUME NEW t, NEW L, NEW R, Projects(t, L, R), AreEvents(L),
           NEW e, IsEvent(e), e.req = 0, NEW k \in Keys, DOMAIN e.rows = {k},
           ~FactContradicts(t, k, e.at, e.rows[k])
    PROVE  Projects(FactApplied(t, k, e.at, e.rows[k]), L \cup {e}, R)
<1>1. PICK at, v, M : at = e.at /\ v = e.rows[k] /\ M = L \cup {e}
  OBVIOUS
<1>2. at \in Nat /\ k # Bar /\ (k \in Snapshots <=> k \notin Members)
  BY <1>1, EventFields, KeyKinds
<1>3. Results(M) = Results(L)
  BY <1>1, SnapshotIsNoResult
<1>4. CheckpointOf(t.checkpoint, M, R)
  BY <1>3, CheckpointOfResults DEF Projects
<1>5. \A j \in Keys \ {k} : Observations(j, M) = Observations(j, L)
  <2>1. \A j \in Keys \ {k} : ~Counts(e, j, L)
    BY DEF Counts
  <2> QED
    BY <1>1, <1>3, <2>1, ObservationsAdded
<1>6. AreObservations(Observations(k, L)) /\ IsNewestOf(t.latest[k], Observations(k, L))
  BY ObservationsOfEvents DEF Projects
<1>7. CASE k \in Members /\ at <= Watermark(t, k)
  <2>1. ~Counts(e, k, L)
    <3>1. ~(at > t.checkpoint.at)
      <4>1. t.checkpoint.at \in Int /\ at <= t.checkpoint.at
        BY <1>2, <1>7, WatermarkOf, AboveWatermark DEF Projects, CheckpointOf
      <4> QED
        BY <1>2, <4>1, SMT
    <3>2. ~\A f \in Results(L) : f.at < at
      BY <1>2, <3>1, AboveWatermark DEF Projects, CheckpointOf
    <3>3. e \notin Results(L)
      BY SMT DEF Results
    <3> QED
      BY <1>1, <1>7, <3>2, <3>3 DEF Counts, IsLastSet
  <2>2. Observations(k, M) = Observations(k, L)
    BY <1>1, <1>3, <2>1, ObservationsAdded
  <2>3. Projects(t, M, R)
    BY <1>4, <1>5, <2>2 DEF Projects
  <2>4. FactApplied(t, k, at, v) = t
    BY <1>2, <1>7 DEF FactApplied
  <2> QED
    BY <1>1, <2>3, <2>4
<1>8. CASE ~(k \in Members /\ at <= Watermark(t, k))
  <2>1. k \in Members => at > Watermark(t, k) /\ \A f \in Results(L) : f.at < at
    <3>1. ASSUME k \in Members
          PROVE  at > Watermark(t, k) /\ \A f \in Results(L) : f.at < at
      <4>1. /\ t.checkpoint.at \in Int /\ Watermark(t, k) = t.checkpoint.at
            /\ at > t.checkpoint.at => \A f \in Results(L) : f.at < at
        BY <1>2, <3>1, WatermarkOf, AboveWatermark DEF Projects, CheckpointOf
      <4>2. at > t.checkpoint.at
        BY <1>2, <1>8, <3>1, <4>1, SMT
      <4> QED
        BY <4>1, <4>2
    <3> QED
      BY <3>1
  <2>2. Counts(e, k, L)
    BY <1>1, <2>1 DEF Counts
  <2>3. Observations(k, M) = Observations(k, L) \cup {[at |-> at, v |-> v]}
    BY <1>1, <1>3, <2>2, ObservationsAdded
  <2>4. ~Contradicts(t.latest[k], at, v)
    BY <1>1, <1>2, <2>1 DEF FactContradicts
  <2>5. PICK O, row, new : O = Observations(k, L) /\ row = t.latest[k] /\ new = Newest(row, at, v)
    OBVIOUS
  <2>6. IsNewestOf(new, O \cup {[at |-> at, v |-> v]})
    BY <1>2, <1>6, <2>4, <2>5, NewestAdded
  <2>7. IsNewestOf(new, Observations(k, M))
    BY <2>3, <2>5, <2>6
  <2>8. FactApplied(t, k, at, v) = WithRow(t, k, new)
    BY <1>2, <1>8, <2>5 DEF FactApplied
  <2>9. Projects(WithRow(t, k, new), M, R)
    BY <1>4, <1>5, <2>7, RowProjects
  <2> QED
    BY <1>1, <2>8, <2>9
<1> QED
  BY <1>7, <1>8

-----------------------------------------------------------------------------
\* Bars.

\* The tables but for the bars do not depend on bar events, nor on the bars.
LEMMA BarsAside ==
    ASSUME NEW t, NEW L, NEW R, Projects(t, L, R), NEW e, e.req = 0, DOMAIN e.rows = {Bar},
           NEW at, NEW v
    PROVE  Projects(WithBar(t, at, v), L \cup {e}, R)
<1>1. PICK u, M : u = WithBar(t, at, v) /\ M = L \cup {e}
  OBVIOUS
<1>2. Results(M) = Results(L)
  BY <1>1, SnapshotIsNoResult
<1>3. CheckpointOf(t.checkpoint, M, R)
  BY <1>2, CheckpointOfResults DEF Projects
<1>4. \A j \in Keys : Observations(j, M) = Observations(j, L)
  <2>1. \A j \in Keys : ~Counts(e, j, L)
    BY KeyKinds DEF Counts
  <2> QED
    BY <1>1, <1>2, <2>1, ObservationsAdded
<1>5. /\ u.latest = t.latest /\ u.members = t.members /\ u.checkpoint = t.checkpoint
      /\ u = [latest |-> u.latest, bars |-> u.bars, members |-> u.members,
              checkpoint |-> u.checkpoint]
  BY <1>1 DEF WithBar
<1>6. /\ t.latest = [j \in Keys |-> t.latest[j]]
      /\ t.members = [kind \in Kinds |->
                        [at |-> t.checkpoint.at, rows |-> t.checkpoint.set[kind]]]
  BY SMT DEF Projects
<1> QED
  BY <1>1, <1>3, <1>4, <1>5, <1>6 DEF Projects

\* apply_market_bar
LEMMA BarAdded ==
    ASSUME NEW bars, NEW L, BarsOf(bars, L), AreEvents(L), NEW e, IsEvent(e),
           DOMAIN e.rows = {Bar}, bars[e.at] \in {e.rows[Bar], Nothing}
    PROVE  BarsOf([bars EXCEPT ![e.at] = e.rows[Bar]], L \cup {e})
<1>1. PICK a, v, M, new : /\ a = e.at /\ v = e.rows[Bar] /\ M = L \cup {e}
                          /\ new = [bars EXCEPT ![a] = v]
  OBVIOUS
<1>2. a \in Times /\ v # Nothing
  BY <1>1, EventFields
<1>3. /\ new = [at \in Times |-> new[at]] /\ new[a] = v
      /\ \A at \in Times \ {a} : new[at] = bars[at]
  BY <1>1, <1>2 DEF BarsOf
<1>4. \A at \in Times \ {a} : BarsAt(at, M) = BarsAt(at, L)
  BY <1>1 DEF BarsAt
<1>5. BarsAt(a, M) = BarsAt(a, L) \cup {v}
  BY <1>1 DEF BarsAt
<1>6. BarsAt(a, L) \subseteq {v}
  <2>1. CASE BarsAt(a, L) = {}
    BY <2>1
  <2>2. CASE BarsAt(a, L) # {}
    <3>1. BarsAt(a, L) = {bars[a]}
      BY <1>2, <2>2 DEF BarsOf
    <3>2. PICK f \in L : Bar \in DOMAIN f.rows /\ f.rows[Bar] = bars[a]
      BY <3>1 DEF BarsAt
    <3>3. bars[a] # Nothing
      BY <3>2, EventFields DEF AreEvents
    <3> QED
      BY <1>1, <3>1, <3>3
  <2> QED
    BY <2>1, <2>2
<1>7. BarsAt(a, M) = {v}
  BY <1>5, <1>6
<1>8. ASSUME NEW at \in Times
      PROVE  IF BarsAt(at, M) = {} THEN new[at] = Nothing ELSE BarsAt(at, M) = {new[at]}
  <2>1. CASE at = a
    BY <1>3, <1>7, <2>1
  <2>2. CASE at # a
    BY <1>3, <1>4, <2>2 DEF BarsOf
  <2> QED
    BY <2>1, <2>2
<1> QED
  BY <1>1, <1>3, <1>8 DEF BarsOf

LEMMA NoBarAdded ==
    ASSUME NEW bars, NEW L, BarsOf(bars, L), NEW e, Bar \notin DOMAIN e.rows
    PROVE  BarsOf(bars, L \cup {e})
<1>1. \A at : BarsAt(at, L \cup {e}) = BarsAt(at, L)
  BY DEF BarsAt
<1> QED
  BY <1>1 DEF BarsOf

-----------------------------------------------------------------------------
\* A full set.

\* advance_checkpoint
LEMMA CheckpointAdded ==
    ASSUME NEW c, NEW L, NEW R, CheckpointOf(c, L, R), AreEvents(L),
           NEW e, IsEvent(e), e.req > 0,
           \A kind \in Kinds : e.at = c.at => Part(e.rows, KeysOf(kind)) = c.set[kind],
           NEW symbols, symbols <=> R[e.req].symbols,
           NEW pending, pending <=> R[e.req].disposition = "COMPLETED" /\ R[e.req].scope
    PROVE  CheckpointOf(CheckpointAfterResult(c, e, symbols, pending), L \cup {e}, R)
<1>1. PICK d, M : d = CheckpointAfterResult(c, e, symbols, pending) /\ M = L \cup {e}
  OBVIOUS
<1>2. Results(M) = Results(L) \cup {e} /\ Results(L) \subseteq L
  BY <1>1 DEF Results
<1>3. e.at \in Nat /\ e.received \in Nat /\ e.req \in Nat
  BY EventFields
<1>4. \A f \in L : f.at \in Nat /\ f.received \in Nat /\ f.req \in Nat
  BY EventFields DEF AreEvents
<1>5. /\ d.source = IF e.at > c.at \/ (e.at = c.at /\ e.req < c.source) THEN e.req ELSE c.source
      /\ d.at = Later(c.at, e.at)
      /\ d.account = IF Account \in DOMAIN e.rows THEN Later(c.account, e.at) ELSE c.account
      /\ d.symbols = IF symbols THEN Later(c.symbols, e.at) ELSE c.symbols
      /\ d.pending = IF pending THEN Later(c.pending, e.at) ELSE c.pending
      /\ d.watermark = [kind \in Kinds |-> Later(c.watermark[kind], e.at)]
      /\ d.set = [kind \in Kinds |-> IF e.at > c.watermark[kind]
                                     THEN Part(e.rows, KeysOf(kind)) ELSE c.set[kind]]
      /\ d.updated = Later(c.updated, e.received)
      /\ d = [source |-> d.source, at |-> d.at, account |-> d.account, symbols |-> d.symbols,
              pending |-> d.pending, watermark |-> d.watermark, set |-> d.set,
              updated |-> d.updated]
  BY <1>1 DEF CheckpointAfterResult
<1>6. \A kind \in Kinds : c.watermark[kind] = c.at
  <2>1. c.watermark = [kind \in Kinds |-> c.at]
    BY SMT DEF CheckpointOf
  <2> QED
    BY <2>1
<1>7. /\ d.watermark = [kind \in Kinds |-> d.at]
      /\ d.set = [kind \in Kinds |-> d.set[kind]]
      /\ \A kind \in Kinds : d.set[kind] = IF e.at > c.at THEN Part(e.rows, KeysOf(kind))
                                           ELSE c.set[kind]
  BY <1>5, <1>6
<1>8. IsLatest(d.at, {f.at : f \in Results(M)})
  <2>1. {f.at : f \in Results(M)} = {f.at : f \in Results(L)} \cup {e.at}
    BY <1>2
  <2>2. PICK T, x : T = {f.at : f \in Results(L)} /\ x = c.at
    OBVIOUS
  <2>3. T \subseteq Nat /\ IsLatest(x, T)
    BY <1>2, <2>2, TimesOfEvents DEF CheckpointOf
  <2>4. IsLatest(Later(x, e.at), T \cup {e.at})
    BY <1>3, <2>3, LatestAdded
  <2> QED
    BY <1>5, <2>1, <2>2, <2>4
<1>9. IsLatest(d.updated, {f.received : f \in Results(M)})
  <2>1. {f.received : f \in Results(M)} = {f.received : f \in Results(L)} \cup {e.received}
    BY <1>2
  <2>2. PICK T, x : T = {f.received : f \in Results(L)} /\ x = c.updated
    OBVIOUS
  <2>3. T \subseteq Nat /\ IsLatest(x, T)
    BY <1>2, <2>2, TimesOfEvents DEF CheckpointOf
  <2>4. IsLatest(Later(x, e.received), T \cup {e.received})
    BY <1>3, <2>3, LatestAdded
  <2> QED
    BY <1>5, <2>1, <2>2, <2>4
<1>10. ASSUME NEW x, NEW y, NEW S, NEW T, S \subseteq L, NEW p, IsLatest(x, {f.at : f \in S}),
              y = IF p THEN Later(x, e.at) ELSE x, T = IF p THEN S \cup {e} ELSE S
       PROVE  IsLatest(y, {f.at : f \in T})
  <2>1. CASE p
    <3>1. {f.at : f \in T} = {f.at : f \in S} \cup {e.at}
      BY <1>10, <2>1
    <3>2. PICK U : U = {f.at : f \in S}
      OBVIOUS
    <3>3. U \subseteq Nat /\ IsLatest(x, U)
      BY <1>10, <3>2, TimesOfEvents
    <3>4. IsLatest(Later(x, e.at), U \cup {e.at})
      BY <1>3, <3>3, LatestAdded
    <3> QED
      BY <1>10, <2>1, <3>1, <3>2, <3>4
  <2>2. CASE ~p
    BY <1>10, <2>2
  <2> QED
    BY <2>1, <2>2
<1>11. IsLatest(d.account, {f.at : f \in ByAccount(M)})
  <2>1. ByAccount(M) = IF Account \in DOMAIN e.rows THEN ByAccount(L) \cup {e} ELSE ByAccount(L)
    BY <1>2 DEF ByAccount
  <2>2. PICK S, T, x, y : S = ByAccount(L) /\ T = ByAccount(M) /\ x = c.account /\ y = d.account
    OBVIOUS
  <2>3. S \subseteq L /\ IsLatest(x, {f.at : f \in S})
    BY <1>2, <2>2 DEF ByAccount, CheckpointOf
  <2>4. IsLatest(y, {f.at : f \in T})
    BY <1>5, <1>10, <2>1, <2>2, <2>3
  <2> QED
    BY <2>2, <2>4
<1>12. IsLatest(d.symbols, {f.at : f \in BySymbols(M, R)})
  <2>1. BySymbols(M, R) = IF symbols THEN BySymbols(L, R) \cup {e} ELSE BySymbols(L, R)
    BY <1>2 DEF BySymbols
  <2>2. PICK S, T, x, y : S = BySymbols(L, R) /\ T = BySymbols(M, R) /\ x = c.symbols /\ y = d.symbols
    OBVIOUS
  <2>3. S \subseteq L /\ IsLatest(x, {f.at : f \in S})
    BY <1>2, <2>2 DEF BySymbols, CheckpointOf
  <2>4. IsLatest(y, {f.at : f \in T})
    BY <1>5, <1>10, <2>1, <2>2, <2>3
  <2> QED
    BY <2>2, <2>4
<1>13. IsLatest(d.pending, {f.at : f \in ByCommands(M, R)})
  <2>1. ByCommands(M, R) = IF pending THEN ByCommands(L, R) \cup {e} ELSE ByCommands(L, R)
    BY <1>2 DEF ByCommands
  <2>2. PICK S, T, x, y : S = ByCommands(L, R) /\ T = ByCommands(M, R) /\ x = c.pending /\ y = d.pending
    OBVIOUS
  <2>3. S \subseteq L /\ IsLatest(x, {f.at : f \in S})
    BY <1>2, <2>2 DEF ByCommands, CheckpointOf
  <2>4. IsLatest(y, {f.at : f \in T})
    BY <1>5, <1>10, <2>1, <2>2, <2>3
  <2> QED
    BY <2>2, <2>4
<1>14. c.at \in Int /\ \A f \in Results(L) : f.at <= c.at
  BY <1>3, AboveWatermark DEF CheckpointOf
<1>15. /\ \E f \in Results(M) : f.at = d.at /\ f.req = d.source
       /\ \A f \in Results(M) : f.at = d.at =>
              d.source <= f.req /\ \A kind \in Kinds : d.set[kind] = Part(f.rows, KeysOf(kind))
  <2>1. CASE e.at > c.at
    <3>1. d.at = e.at
      BY <1>3, <1>5, <1>14, <2>1, SMT DEF Later
    <3>2. d.source = e.req /\ d.source <= e.req
      BY <1>3, <1>5, <2>1, SMT
    <3>3. \A f \in Results(L) : f.at # d.at
      BY <1>2, <1>3, <1>4, <1>14, <2>1, <3>1, SMT
    <3> QED
      BY <1>2, <1>7, <2>1, <3>1, <3>2, <3>3
  <2>2. CASE ~(e.at > c.at)
    <3>1. d.at = c.at /\ c.at \in Nat /\ c.at # Never
      BY <1>3, <1>5, <1>14, <2>2, SMT DEF Later, Never
    <3>2. Results(L) # {}
      BY <3>1 DEF CheckpointOf, IsLatest
    <3>3. PICK g \in Results(L) : g.at = c.at /\ g.req = c.source
      BY <3>2 DEF CheckpointOf
    <3>4. /\ c.source \in Nat
          /\ \A f \in Results(L) : f.at = c.at =>
                c.source <= f.req /\ \A kind \in Kinds : c.set[kind] = Part(f.rows, KeysOf(kind))
      BY <1>2, <1>4, <3>3 DEF CheckpointOf
    <3>5. \A kind \in Kinds : d.set[kind] = c.set[kind]
      BY <1>7, <2>2
    <3>6. CASE e.at = c.at /\ e.req < c.source
      <4>1. d.source = e.req /\ d.source <= e.req /\ d.source <= c.source
        BY <1>3, <1>5, <3>4, <3>6, SMT
      <4>2. \A f \in Results(L) : f.at = d.at => d.source <= f.req
        BY <1>2, <1>3, <1>4, <3>1, <3>4, <4>1, SMT
      <4> QED
        BY <1>2, <3>1, <3>4, <3>5, <3>6, <4>1, <4>2
    <3>7. CASE ~(e.at = c.at /\ e.req < c.source)
      <4>1. d.source = c.source
        BY <1>5, <2>2, <3>7
      <4>2. e.at = c.at => d.source <= e.req
        BY <1>3, <3>4, <3>7, <4>1, SMT
      <4> QED
        BY <1>2, <3>1, <3>3, <3>4, <3>5, <4>1, <4>2
    <3> QED
      BY <3>6, <3>7
  <2> QED
    BY <2>1, <2>2
<1>16. d = [source |-> d.source, at |-> d.at, account |-> d.account, symbols |-> d.symbols,
            pending |-> d.pending, watermark |-> [kind \in Kinds |-> d.at],
            set |-> [kind \in Kinds |-> d.set[kind]], updated |-> d.updated]
  BY <1>5, <1>7
<1>17. Results(M) # {}
  BY <1>2
<1> QED
  BY <1>1, <1>8, <1>9, <1>11, <1>12, <1>13, <1>15, <1>16, <1>17 DEF CheckpointOf

\* What counts once a full set has come in: for the account and the symbols one
\* observation more at most.
LEMMA SnapshotsAfterResult ==
    ASSUME NEW L, NEW e, NEW k \in Keys, k \notin Members
    PROVE  Observations(k, L \cup {e}) =
               IF k \in DOMAIN e.rows
               THEN Observations(k, L) \cup {[at |-> e.at, v |-> e.rows[k]]}
               ELSE Observations(k, L)
<1>1. PICK M : M = L \cup {e}
  OBVIOUS
<1>2. \A f : Counts(f, k, M) <=> k \in DOMAIN f.rows
  BY DEF Counts
<1>3. \A f : Counts(f, k, L) <=> k \in DOMAIN f.rows
  BY DEF Counts
<1>4. CASE k \in DOMAIN e.rows
  <2>1. {f \in M : Counts(f, k, M)} = {f \in L : Counts(f, k, L)} \cup {e}
    BY <1>1, <1>2, <1>3, <1>4
  <2> QED
    BY <1>1, <1>4, <2>1 DEF Observations
<1>5. CASE k \notin DOMAIN e.rows
  <2>1. {f \in M : Counts(f, k, M)} = {f \in L : Counts(f, k, L)}
    BY <1>1, <1>2, <1>3, <1>5
  <2> QED
    BY <1>1, <1>5, <2>1 DEF Observations
<1> QED
  BY <1>4, <1>5

\* For a position or an order, a full set that is newer than all before it ends
\* what was observed up to its time.
LEMMA MembersAfterNewSet ==
    ASSUME NEW L, AreEvents(L), NEW e, IsEvent(e), e.req > 0, NEW k \in Members,
           \A f \in Results(L) : f.at < e.at
    PROVE  Observations(k, L \cup {e}) =
               {o \in Observations(k, L) : o.at > e.at}
               \cup (IF k \in DOMAIN e.rows THEN {[at |-> e.at, v |-> e.rows[k]]} ELSE {})
<1>1. PICK M : M = L \cup {e}
  OBVIOUS
<1>2. Results(M) = Results(L) \cup {e} /\ Results(L) \subseteq L
  BY <1>1 DEF Results
<1>3. e.at \in Nat /\ \A f \in L : f.at \in Nat /\ f.req \in Nat
  BY EventFields DEF AreEvents
<1>4. \A f \in M : IsLastSet(f, M) <=> f = e
  <2>1. \A f \in Results(L) : ~(e.at <= f.at)
    BY <1>2, <1>3, SMT
  <2>2. \A f \in Results(M) : f.at <= e.at
    BY <1>2, <1>3, SMT
  <2> QED
    BY <1>2, <2>1, <2>2 DEF IsLastSet
<1>5. \A f \in L : (f.req = 0 /\ \A g \in Results(M) : g.at < f.at) <=> f.req = 0 /\ f.at > e.at
  BY <1>2, <1>3, SMT
<1>6. ~(e.req = 0)
  BY SMT
<1>7. \A f \in M : Counts(f, k, M) <=>
          k \in DOMAIN f.rows /\ (f = e \/ (f.req = 0 /\ f.at > e.at))
  <2>1. ASSUME NEW f \in M, f # e
        PROVE  Counts(f, k, M) <=> k \in DOMAIN f.rows /\ f.req = 0 /\ f.at > e.at
    BY <1>1, <1>4, <1>5, <2>1 DEF Counts
  <2>2. Counts(e, k, M) <=> k \in DOMAIN e.rows
    BY <1>1, <1>4 DEF Counts
  <2> QED
    BY <2>1, <2>2
<1>8. \A f \in L : Counts(f, k, L) /\ f.at > e.at <=>
          k \in DOMAIN f.rows /\ f.req = 0 /\ f.at > e.at
  <2>1. \A f \in L : IsLastSet(f, L) => ~(f.at > e.at)
    BY <1>2, <1>3, SMT DEF IsLastSet
  <2>2. \A f \in L : f.at > e.at => \A g \in Results(L) : g.at < f.at
    BY <1>2, <1>3, SMT
  <2> QED
    BY <2>1, <2>2 DEF Counts
<1>9. {f \in M : Counts(f, k, M)} =
          {f \in L : Counts(f, k, L) /\ f.at > e.at}
          \cup (IF k \in DOMAIN e.rows THEN {e} ELSE {})
  <2>1. ~(e.at > e.at)
    BY <1>3, SMT
  <2> QED
    BY <1>1, <1>6, <1>7, <1>8, <2>1
<1>10. {[at |-> f.at, v |-> f.rows[k]] : f \in {g \in L : Counts(g, k, L) /\ g.at > e.at}}
          = {o \in Observations(k, L) : o.at > e.at}
  <2>1. \A f : [at |-> f.at, v |-> f.rows[k]].at = f.at
    OBVIOUS
  <2> QED
    BY <2>1 DEF Observations
<1>11. CASE k \in DOMAIN e.rows
  <2>1. {f \in M : Counts(f, k, M)} = {g \in L : Counts(g, k, L) /\ g.at > e.at} \cup {e}
    BY <1>9, <1>11
  <2>2. Observations(k, M) =
          {[at |-> f.at, v |-> f.rows[k]] : f \in {g \in L : Counts(g, k, L) /\ g.at > e.at}}
          \cup {[at |-> e.at, v |-> e.rows[k]]}
    BY <2>1 DEF Observations
  <2> QED
    BY <1>1, <1>10, <1>11, <2>2
<1>12. CASE k \notin DOMAIN e.rows
  <2>1. {f \in M : Counts(f, k, M)} = {g \in L : Counts(g, k, L) /\ g.at > e.at}
    BY <1>9, <1>12
  <2>2. Observations(k, M) =
          {[at |-> f.at, v |-> f.rows[k]] : f \in {g \in L : Counts(g, k, L) /\ g.at > e.at}}
    BY <2>1 DEF Observations
  <2> QED
    BY <1>1, <1>10, <1>12, <2>2
<1> QED
  BY <1>11, <1>12

\* One that is not newer, and at the watermark lists what the last one lists,
\* changes nothing.
LEMMA MembersAfterOldSet ==
    ASSUME NEW L, AreEvents(L), NEW e, IsEvent(e), e.req > 0, NEW k \in Members,
           NEW g \in Results(L), \A f \in Results(L) : f.at <= g.at, e.at <= g.at,
           e.at = g.at /\ k \in DOMAIN e.rows => k \in DOMAIN g.rows /\ g.rows[k] = e.rows[k]
    PROVE  Observations(k, L \cup {e}) = Observations(k, L)
<1>1. PICK M : M = L \cup {e}
  OBVIOUS
<1>2. Results(M) = Results(L) \cup {e} /\ Results(L) \subseteq L
  BY <1>1 DEF Results
<1>3. e.at \in Nat /\ \A f \in L : f.at \in Nat /\ f.req \in Nat
  BY EventFields DEF AreEvents
<1>4. \A f \in L : IsLastSet(f, M) <=> IsLastSet(f, L)
  <2>1. \A f \in L : g.at <= f.at => e.at <= f.at
    BY <1>2, <1>3, SMT
  <2>2. \A f \in L : IsLastSet(f, L) => IsLastSet(f, M)
    BY <1>2, <2>1 DEF IsLastSet
  <2>3. ASSUME NEW f \in L, IsLastSet(f, M) PROVE IsLastSet(f, L)
    <3>1. f \in Results(L) /\ \A h \in Results(L) : h.at <= f.at
      BY <1>2, <2>3 DEF IsLastSet, Results
    <3> QED
      BY <3>1 DEF IsLastSet
  <2> QED
    BY <2>2, <2>3
<1>5. \A f \in L : (\A h \in Results(M) : h.at < f.at) <=> (\A h \in Results(L) : h.at < f.at)
  BY <1>2, <1>3, SMT
<1>6. \A f \in L : Counts(f, k, M) <=> Counts(f, k, L)
  BY <1>4, <1>5 DEF Counts
<1>7. ~(e.req = 0)
  BY SMT
<1>8. CASE Counts(e, k, M)
  <2>1. k \in DOMAIN e.rows /\ IsLastSet(e, M)
    BY <1>7, <1>8 DEF Counts
  <2>2. g.at <= e.at
    BY <1>2, <2>1 DEF IsLastSet
  <2>3. e.at = g.at
    BY <1>2, <1>3, <2>2, SMT
  <2>4. g \in L /\ Counts(g, k, L)
    BY <1>2, <2>1, <2>3 DEF Counts, IsLastSet
  <2>5. [at |-> e.at, v |-> e.rows[k]] = [at |-> g.at, v |-> g.rows[k]]
    BY <2>1, <2>3
  <2>6. [at |-> e.at, v |-> e.rows[k]] \in Observations(k, L)
    BY <2>4, <2>5 DEF Observations
  <2>7. {f \in M : Counts(f, k, M)} = {f \in L : Counts(f, k, L)} \cup {e}
    BY <1>1, <1>6, <1>8
  <2>8. Observations(k, M) = Observations(k, L) \cup {[at |-> e.at, v |-> e.rows[k]]}
    BY <2>7 DEF Observations
  <2> QED
    BY <1>1, <2>6, <2>8
<1>9. CASE ~Counts(e, k, M)
  <2>1. {f \in M : Counts(f, k, M)} = {f \in L : Counts(f, k, L)}
    BY <1>1, <1>6, <1>9
  <2> QED
    BY <1>1, <2>1 DEF Observations
<1> QED
  BY <1>8, <1>9

\* apply_position_full_set, apply_order_full_set: one key.
LEMMA MemberProjects ==
    ASSUME NEW t, NEW L, NEW R, Projects(t, L, R), AreEvents(L),
           NEW e, IsEvent(e), e.req > 0, ~ResultContradicts(t, e), NEW k \in Members
    PROVE  IsNewestOf(MemberReplaced(t, k, e), Observations(k, L \cup {e}))
<1>1. PICK c, kind, row, O, a : /\ c = t.checkpoint /\ kind = KindOf(k) /\ row = t.latest[k]
                                /\ O = Observations(k, L) /\ a = e.at
  OBVIOUS
<1>2. k \in Keys /\ kind \in Kinds /\ k \in KeysOf(kind)
  BY <1>1, KeyKinds DEF Keys
<1>3. a \in Nat
  BY <1>1, EventFields
<1>4. c.watermark[kind] = c.at /\ CheckpointOf(c, L, R)
  BY <1>1, WatermarkOf DEF Watermark, Projects
<1>5. /\ c.at \in Int /\ (a > c.at <=> \A f \in Results(L) : f.at < a)
      /\ \A f \in Results(L) : f.at <= c.at
  BY <1>3, <1>4, AboveWatermark DEF CheckpointOf
<1>6. IsNewestOf(row, O) /\ AreObservations(O)
  BY <1>1, <1>2, ObservationsOfEvents DEF Projects
<1>7. SetIsNewer(t, kind, a) <=> a > c.at
  BY <1>1, <1>4 DEF SetIsNewer
<1>8. CASE a > c.at
  <2>1. \A f \in Results(L) : f.at < e.at
    BY <1>1, <1>5, <1>8
  <2>2. Observations(k, L \cup {e}) =
          {o \in Observations(k, L) : o.at > e.at}
          \cup (IF k \in DOMAIN e.rows THEN {[at |-> e.at, v |-> e.rows[k]]} ELSE {})
    BY <2>1, MembersAfterNewSet
  <2>3. CASE k \in DOMAIN e.rows
    <3>1. PICK v : v = e.rows[k]
      OBVIOUS
    <3>2. ~Contradicts(row, a, v)
      BY <1>1, <1>7, <1>8, <2>3, <3>1 DEF ResultContradicts
    <3>3. IsNewestOf(Newest(row, a, v), {o \in O : o.at > a} \cup {[at |-> a, v |-> v]})
      BY <1>3, <1>6, <3>2, NewestRenewed
    <3>4. Observations(k, L \cup {e}) = {o \in O : o.at > a} \cup {[at |-> a, v |-> v]}
      BY <1>1, <2>2, <2>3, <3>1
    <3>5. MemberReplaced(t, k, e) = Newest(row, a, v)
      BY <1>1, <1>7, <1>8, <2>3, <3>1 DEF MemberReplaced
    <3> QED
      BY <3>3, <3>4, <3>5
  <2>4. CASE k \notin DOMAIN e.rows
    <3>1. IsNewestOf(IF row.at <= a THEN NoRow ELSE row, {o \in O : o.at > a})
      BY <1>3, <1>6, NewestDropped
    <3>2. Observations(k, L \cup {e}) = {o \in O : o.at > a}
      BY <1>1, <2>2, <2>4
    <3>3. MemberReplaced(t, k, e) = IF row.at <= a THEN NoRow ELSE row
      BY <1>1, <1>7, <1>8, <2>4 DEF MemberReplaced
    <3> QED
      BY <3>1, <3>2, <3>3
  <2> QED
    BY <2>3, <2>4
<1>9. CASE ~(a > c.at)
  <2>1. c.at # Never
    BY <1>3, <1>5, <1>9, SMT DEF Never
  <2>2. Results(L) # {}
    BY <1>4, <2>1 DEF CheckpointOf, IsLatest
  <2>3. PICK g \in Results(L) : g.at = c.at
    BY <1>4, <2>2 DEF CheckpointOf
  <2>4. e.at <= g.at
    BY <1>1, <1>3, <1>5, <1>9, <2>3, SMT
  <2>5. ASSUME e.at = g.at, k \in DOMAIN e.rows
        PROVE  k \in DOMAIN g.rows /\ g.rows[k] = e.rows[k]
    <3>1. Part(e.rows, KeysOf(kind)) = c.set[kind]
      BY <1>1, <1>2, <1>4, <2>3, <2>5 DEF ResultContradicts, SetContradicts
    <3>2. Part(g.rows, KeysOf(kind)) = c.set[kind]
      BY <1>2, <1>4, <2>3 DEF CheckpointOf
    <3>3. Part(e.rows, KeysOf(kind)) = Part(g.rows, KeysOf(kind))
      BY <3>1, <3>2
    <3>4. /\ DOMAIN Part(e.rows, KeysOf(kind)) = KeysOf(kind) \cap DOMAIN e.rows
          /\ DOMAIN Part(g.rows, KeysOf(kind)) = KeysOf(kind) \cap DOMAIN g.rows
          /\ k \in DOMAIN e.rows => Part(e.rows, KeysOf(kind))[k] = e.rows[k]
          /\ k \in DOMAIN g.rows => Part(g.rows, KeysOf(kind))[k] = g.rows[k]
      BY <1>2 DEF Part
    <3> QED
      BY <1>2, <2>5, <3>3, <3>4
  <2>6. Observations(k, L \cup {e}) = O
    BY <1>1, <1>5, <2>3, <2>4, <2>5, MembersAfterOldSet
  <2>7. MemberReplaced(t, k, e) = row
    BY <1>1, <1>7, <1>9 DEF MemberReplaced
  <2> QED
    BY <1>6, <2>6, <2>7
<1> QED
  BY <1>8, <1>9

\* apply_reconciliation_result
LEMMA ResultProjects ==
    ASSUME NEW t, NEW L, NEW R, Projects(t, L, R), AreEvents(L),
           NEW e, IsEvent(e), e.req > 0, ~ResultContradicts(t, e),
           NEW symbols, symbols <=> R[e.req].symbols,
           NEW pending, pending <=> R[e.req].disposition = "COMPLETED" /\ R[e.req].scope
    PROVE  /\ Projects(ResultApplied(t, e, symbols, pending), L \cup {e}, R)
           /\ ResultApplied(t, e, symbols, pending).bars = t.bars
<1>1. PICK u, c, d, M : /\ u = ResultApplied(t, e, symbols, pending) /\ c = t.checkpoint
                        /\ d = CheckpointAfterResult(c, e, symbols, pending) /\ M = L \cup {e}
  OBVIOUS
<1>2. /\ u.latest = LatestAfterResult(t, e) /\ u.bars = t.bars
      /\ u.members = MembersAfterResult(t, e) /\ u.checkpoint = d
      /\ u = [latest |-> u.latest, bars |-> u.bars, members |-> u.members,
              checkpoint |-> u.checkpoint]
  BY <1>1 DEF ResultApplied
<1>3. CheckpointOf(c, L, R) /\ e.at \in Nat
  BY <1>1, EventFields DEF Projects
<1>4. \A kind \in Kinds : /\ c.watermark[kind] = c.at
                          /\ t.members[kind] = [at |-> c.at, rows |-> c.set[kind]]
  <2>1. c.watermark = [kind \in Kinds |-> c.at]
    BY <1>3, SMT DEF CheckpointOf
  <2>2. t.members = [kind \in Kinds |-> [at |-> c.at, rows |-> c.set[kind]]]
    BY <1>1, SMT DEF Projects
  <2> QED
    BY <2>1, <2>2
<1>5. CheckpointOf(d, M, R)
  <2>1. \A kind \in Kinds : e.at = c.at => Part(e.rows, KeysOf(kind)) = c.set[kind]
    BY <1>1, <1>4 DEF ResultContradicts, SetContradicts
  <2> QED
    BY <1>1, <1>3, <2>1, CheckpointAdded
<1>6. u.members = [kind \in Kinds |-> [at |-> d.at, rows |-> d.set[kind]]]
  <2>1. /\ d.at = Later(c.at, e.at)
        /\ d.set = [kind \in Kinds |-> IF e.at > c.watermark[kind]
                                       THEN Part(e.rows, KeysOf(kind)) ELSE c.set[kind]]
    BY <1>1 DEF CheckpointAfterResult
  <2>2. c.at \in Int
    BY <1>3, AboveWatermark DEF CheckpointOf
  <2>3. ASSUME NEW kind \in Kinds
        PROVE  (IF SetIsNewer(t, kind, e.at)
                THEN [at |-> e.at, rows |-> Part(e.rows, KeysOf(kind))]
                ELSE t.members[kind]) = [at |-> d.at, rows |-> d.set[kind]]
    <3>1. CASE e.at > c.at
      <4>1. d.at = e.at
        BY <1>3, <2>1, <2>2, <3>1, SMT DEF Later
      <4>2. d.set[kind] = Part(e.rows, KeysOf(kind))
        BY <1>4, <2>1, <3>1
      <4>3. SetIsNewer(t, kind, e.at)
        BY <1>1, <1>4, <3>1 DEF SetIsNewer
      <4> QED
        BY <4>1, <4>2, <4>3
    <3>2. CASE ~(e.at > c.at)
      <4>1. d.at = c.at
        BY <1>3, <2>1, <2>2, <3>2, SMT DEF Later
      <4>2. d.set[kind] = c.set[kind]
        BY <1>4, <2>1, <3>2
      <4>3. ~SetIsNewer(t, kind, e.at)
        BY <1>1, <1>4, <3>2 DEF SetIsNewer
      <4> QED
        BY <1>4, <4>1, <4>2, <4>3
    <3> QED
      BY <3>1, <3>2
  <2> QED
    BY <1>2, <2>3 DEF MembersAfterResult
<1>7. u.latest = [k \in Keys |-> u.latest[k]]
  BY <1>2 DEF LatestAfterResult
<1>8. ASSUME NEW k \in Keys
      PROVE  IsNewestOf(u.latest[k], Observations(k, M))
  <2>1. CASE k \in Members
    <3>1. u.latest[k] = MemberReplaced(t, k, e)
      BY <1>2, <2>1 DEF LatestAfterResult
    <3>2. IsNewestOf(MemberReplaced(t, k, e), Observations(k, L \cup {e}))
      BY <2>1, MemberProjects
    <3> QED
      BY <1>1, <3>1, <3>2
  <2>2. CASE k \notin Members
    <3>1. PICK row, O, a, v : /\ row = t.latest[k] /\ O = Observations(k, L)
                              /\ a = e.at /\ v = e.rows[k]
      OBVIOUS
    <3>2. IsNewestOf(row, O) /\ AreObservations(O)
      BY <3>1, ObservationsOfEvents DEF Projects
    <3>3. u.latest[k] = IF k \in DOMAIN e.rows THEN Newest(row, a, v) ELSE row
      BY <1>2, <2>2, <3>1 DEF LatestAfterResult
    <3>4. CASE k \in DOMAIN e.rows
      <4>1. ~Contradicts(row, a, v)
        BY <2>2, <3>1, <3>4, KeyKinds DEF ResultContradicts
      <4>2. IsNewestOf(Newest(row, a, v), O \cup {[at |-> a, v |-> v]})
        BY <1>3, <3>1, <3>2, <4>1, NewestAdded
      <4>3. Observations(k, M) = O \cup {[at |-> a, v |-> v]}
        BY <1>1, <2>2, <3>1, <3>4, SnapshotsAfterResult
      <4> QED
        BY <3>3, <3>4, <4>2, <4>3
    <3>5. CASE k \notin DOMAIN e.rows
      <4>1. Observations(k, M) = O
        BY <1>1, <2>2, <3>1, <3>5, SnapshotsAfterResult
      <4> QED
        BY <3>2, <3>3, <3>5, <4>1
    <3> QED
      BY <3>4, <3>5
  <2> QED
    BY <2>1, <2>2
<1>9. Projects(u, M, R)
  BY <1>2, <1>5, <1>6, <1>7, <1>8 DEF Projects
<1> QED
  BY <1>1, <1>2, <1>9

-----------------------------------------------------------------------------
\* The events determine the tables.

LEMMA CheckpointIsUnique ==
    ASSUME NEW L, AreEvents(L), NEW R, NEW c, NEW d, CheckpointOf(c, L, R), CheckpointOf(d, L, R)
    PROVE  c = d
<1>1. ASSUME NEW x, NEW y, NEW S, S \subseteq L,
             IsLatest(x, {e.at : e \in S}), IsLatest(y, {e.at : e \in S})
      PROVE  x = y
  <2>1. PICK T : T = {e.at : e \in S}
    OBVIOUS
  <2>2. T \subseteq Nat /\ IsLatest(x, T) /\ IsLatest(y, T)
    BY <1>1, <2>1, TimesOfEvents
  <2> QED
    BY <2>2, LatestIsUnique
<1>2. /\ Results(L) \subseteq L /\ ByAccount(L) \subseteq L
      /\ BySymbols(L, R) \subseteq L /\ ByCommands(L, R) \subseteq L
  BY DEF Results, ByAccount, BySymbols, ByCommands
<1>3. c.at = d.at
  <2>1. PICK S, x, y : S = Results(L) /\ x = c.at /\ y = d.at
    OBVIOUS
  <2>2. S \subseteq L /\ IsLatest(x, {e.at : e \in S}) /\ IsLatest(y, {e.at : e \in S})
    BY <1>2, <2>1 DEF CheckpointOf
  <2> QED
    BY <1>1, <2>1, <2>2
<1>4. c.account = d.account
  <2>1. PICK S, x, y : S = ByAccount(L) /\ x = c.account /\ y = d.account
    OBVIOUS
  <2>2. S \subseteq L /\ IsLatest(x, {e.at : e \in S}) /\ IsLatest(y, {e.at : e \in S})
    BY <1>2, <2>1 DEF CheckpointOf
  <2> QED
    BY <1>1, <2>1, <2>2
<1>5. c.symbols = d.symbols
  <2>1. PICK S, x, y : S = BySymbols(L, R) /\ x = c.symbols /\ y = d.symbols
    OBVIOUS
  <2>2. S \subseteq L /\ IsLatest(x, {e.at : e \in S}) /\ IsLatest(y, {e.at : e \in S})
    BY <1>2, <2>1 DEF CheckpointOf
  <2> QED
    BY <1>1, <2>1, <2>2
<1>6. c.pending = d.pending
  <2>1. PICK S, x, y : S = ByCommands(L, R) /\ x = c.pending /\ y = d.pending
    OBVIOUS
  <2>2. S \subseteq L /\ IsLatest(x, {e.at : e \in S}) /\ IsLatest(y, {e.at : e \in S})
    BY <1>2, <2>1 DEF CheckpointOf
  <2> QED
    BY <1>1, <2>1, <2>2
<1>7. c.updated = d.updated
  <2>1. PICK T, x, y : T = {e.received : e \in Results(L)} /\ x = c.updated /\ y = d.updated
    OBVIOUS
  <2>2. T \subseteq Nat /\ IsLatest(x, T) /\ IsLatest(y, T)
    BY <1>2, <2>1, TimesOfEvents DEF CheckpointOf
  <2> QED
    BY <2>1, <2>2, LatestIsUnique
<1>8. c.source = d.source /\ \A kind \in Kinds : c.set[kind] = d.set[kind]
  <2>1. CASE Results(L) = {}
    BY <2>1 DEF CheckpointOf
  <2>2. CASE Results(L) # {}
    <3>1. PICK e \in Results(L) : e.at = c.at /\ e.req = c.source
      BY <2>2 DEF CheckpointOf
    <3>2. PICK f \in Results(L) : f.at = d.at /\ f.req = d.source
      BY <2>2 DEF CheckpointOf
    <3>3. /\ d.source <= e.req /\ \A kind \in Kinds : d.set[kind] = Part(e.rows, KeysOf(kind))
          /\ c.source <= f.req /\ \A kind \in Kinds : c.set[kind] = Part(e.rows, KeysOf(kind))
      BY <1>3, <3>1, <3>2 DEF CheckpointOf
    <3>4. e.req \in Nat /\ f.req \in Nat
      BY <1>2, EventFields DEF AreEvents
    <3>5. c.source = d.source
      BY <3>1, <3>2, <3>3, <3>4, SMT
    <3> QED
      BY <3>3, <3>5
  <2> QED
    BY <2>1, <2>2
<1>9. PICK source, at, account, symbols, pending, updated :
         /\ source = c.source /\ at = c.at /\ account = c.account /\ symbols = c.symbols
         /\ pending = c.pending /\ updated = c.updated
  OBVIOUS
<1>10. c = [source |-> source, at |-> at, account |-> account, symbols |-> symbols,
            pending |-> pending, watermark |-> [kind \in Kinds |-> at],
            set |-> [kind \in Kinds |-> c.set[kind]], updated |-> updated]
  BY <1>9 DEF CheckpointOf
<1>11. d = [source |-> source, at |-> at, account |-> account, symbols |-> symbols,
            pending |-> pending, watermark |-> [kind \in Kinds |-> at],
            set |-> [kind \in Kinds |-> d.set[kind]], updated |-> updated]
  BY <1>3, <1>4, <1>5, <1>6, <1>7, <1>8, <1>9 DEF CheckpointOf
<1>12. [kind \in Kinds |-> c.set[kind]] = [kind \in Kinds |-> d.set[kind]]
  BY <1>8
<1> QED
  BY <1>10, <1>11, <1>12

LEMMA ProjectionIsUnique ==
    ASSUME NEW L, AreEvents(L), NEW R, NEW t, NEW u, Projects(t, L, R), Projects(u, L, R),
           t.bars = u.bars
    PROVE  t = u
<1>1. PICK c, b : c = t.checkpoint /\ b = t.bars
  OBVIOUS
<1>2. u.checkpoint = c /\ u.bars = b
  BY <1>1, CheckpointIsUnique DEF Projects
<1>3. ASSUME NEW k \in Keys PROVE t.latest[k] = u.latest[k]
  <2>1. PICK r, q, O : r = t.latest[k] /\ q = u.latest[k] /\ O = Observations(k, L)
    OBVIOUS
  <2>2. AreObservations(O) /\ IsNewestOf(r, O) /\ IsNewestOf(q, O)
    BY <2>1, ObservationsOfEvents DEF Projects
  <2> QED
    BY <2>1, <2>2, NewestIsUnique
<1>4. [k \in Keys |-> t.latest[k]] = [k \in Keys |-> u.latest[k]]
  BY <1>3
<1>5. t = [latest |-> [k \in Keys |-> t.latest[k]], bars |-> b,
           members |-> [kind \in Kinds |-> [at |-> c.at, rows |-> c.set[kind]]],
           checkpoint |-> c]
  BY <1>1 DEF Projects
<1>6. u = [latest |-> [k \in Keys |-> u.latest[k]], bars |-> b,
           members |-> [kind \in Kinds |-> [at |-> c.at, rows |-> c.set[kind]]],
           checkpoint |-> c]
  BY <1>2 DEF Projects
<1> QED
  BY <1>4, <1>5, <1>6

LEMMA BarsAreUnique ==
    ASSUME NEW L, NEW a, NEW b, BarsOf(a, L), BarsOf(b, L)
    PROVE  a = b
<1>1. \A at \in Times : a[at] = b[at]
  BY DEF BarsOf
<1>2. [at \in Times |-> a[at]] = [at \in Times |-> b[at]]
  BY <1>1
<1> QED
  BY <1>2 DEF BarsOf

\* Of the runs only what the results of L answered matters.
LEMMA RunsAside ==
    ASSUME NEW t, NEW L, NEW R, Projects(t, L, R), NEW Q,
           \A e \in Results(L) : /\ Q[e.req].symbols <=> R[e.req].symbols
                                 /\ Q[e.req].disposition = R[e.req].disposition
                                 /\ Q[e.req].scope <=> R[e.req].scope
    PROVE  Projects(t, L, Q)
<1>1. BySymbols(L, R) = BySymbols(L, Q)
  BY DEF BySymbols
<1>2. ByCommands(L, R) = ByCommands(L, Q)
  BY DEF ByCommands
<1>3. CheckpointOf(t.checkpoint, L, Q)
  BY <1>1, <1>2 DEF CheckpointOf, Projects
<1> QED
  BY <1>3 DEF Projects

\* The empty tables are those of no events.
LEMMA EmptyProjects ==
    ASSUME NEW R, NEW b
    PROVE  Projects(Cleared(b), {}, R) /\ Cleared(b).bars = b
<1>1. PICK t, c : t = Cleared(b) /\ c = NoCheckpoint
  OBVIOUS
<1>2. t = [latest |-> [k \in Keys |-> NoRow], bars |-> b,
           members |-> [kind \in Kinds |-> NoMembers], checkpoint |-> c]
  BY <1>1 DEF Cleared, EmptyTables
<1>3. /\ t.latest = [k \in Keys |-> NoRow] /\ t.bars = b
      /\ t.members = [kind \in Kinds |-> NoMembers] /\ t.checkpoint = c
  BY <1>2
<1>4. /\ c.source = 0 /\ c.at = Never /\ c.account = Never /\ c.symbols = Never
      /\ c.pending = Never /\ c.watermark = [kind \in Kinds |-> Never]
      /\ c.set = [kind \in Kinds |-> <<>>] /\ c.updated = Never
      /\ c = [source |-> c.source, at |-> c.at, account |-> c.account, symbols |-> c.symbols,
              pending |-> c.pending, watermark |-> c.watermark, set |-> c.set,
              updated |-> c.updated]
  BY <1>1 DEF NoCheckpoint
<1>5. Results({}) = {} /\ ByAccount({}) = {} /\ BySymbols({}, R) = {} /\ ByCommands({}, R) = {}
  BY DEF Results, ByAccount, BySymbols, ByCommands
<1>6. [kind \in Kinds |-> c.set[kind]] = c.set /\ [kind \in Kinds |-> c.at] = c.watermark
  BY <1>4
<1>7. CheckpointOf(c, {}, R)
  BY <1>4, <1>5, <1>6 DEF CheckpointOf, IsLatest
<1>8. \A k \in Keys : Observations(k, {}) = {} /\ t.latest[k] = NoRow
  BY <1>3 DEF Observations
<1>9. \A k \in Keys : IsNewestOf(t.latest[k], Observations(k, {}))
  BY <1>8 DEF IsNewestOf
<1>10. [kind \in Kinds |-> [at |-> c.at, rows |-> c.set[kind]]] = t.members
  BY <1>3, <1>4 DEF NoMembers
<1>11. [k \in Keys |-> t.latest[k]] = t.latest
  BY <1>3
<1>12. t = [latest |-> t.latest, bars |-> t.bars, members |-> t.members, checkpoint |-> t.checkpoint]
  BY <1>2, <1>3
<1> QED
  BY <1>1, <1>3, <1>7, <1>9, <1>10, <1>11, <1>12 DEF Projects

LEMMA EmptyBars == BarsOf(EmptyTables.bars, {})
<1>1. EmptyTables.bars = [at \in Times |-> Nothing]
  BY DEF EmptyTables
<1>2. \A at : BarsAt(at, {}) = {}
  BY DEF BarsAt
<1> QED
  BY <1>1, <1>2 DEF BarsOf

-----------------------------------------------------------------------------
\* When a write contradicts what is stored.

\* No two events of S observe an account or a symbol at one moment differently.
SnapshotsAgree(S) ==
    \A e, f \in S : e.at = f.at =>
        \A k \in Snapshots \cap DOMAIN e.rows \cap DOMAIN f.rows : e.rows[k] = f.rows[k]

\* What agreement says of two single snapshots, and of one and a full set.
LEMMA SinglesAgree ==
    ASSUME NEW S, ObservationsAgree(S), NEW e \in S, NEW f \in S, e.at = f.at,
           e.req = 0, f.req = 0, NEW k \in Members, k \in DOMAIN e.rows, k \in DOMAIN f.rows
    PROVE  e.rows[k] = f.rows[k]
<1>1. \A j \in Members \cap DOMAIN e.rows \cap DOMAIN f.rows : e.rows[j] = f.rows[j]
  BY DEF ObservationsAgree
<1> QED
  BY <1>1

LEMMA SetListsSingle ==
    ASSUME NEW S, ObservationsAgree(S), NEW e \in S, NEW f \in S, e.at = f.at,
           e.req = 0, f.req > 0, NEW k \in Members, k \in DOMAIN e.rows
    PROVE  k \in DOMAIN f.rows /\ f.rows[k] = e.rows[k]
<1>1. \A j \in Members \cap DOMAIN e.rows : j \in DOMAIN f.rows /\ f.rows[j] = e.rows[j]
  BY DEF ObservationsAgree
<1> QED
  BY <1>1

\* A row of an event of L, or NoRow.
LEMMA RowIsObserved ==
    ASSUME NEW t, NEW L, NEW R, Projects(t, L, R), NEW k \in Keys, t.latest[k].at \in Nat
    PROVE  \E f \in L : Counts(f, k, L) /\ t.latest[k].at = f.at /\ t.latest[k].v = f.rows[k]
<1>1. PICK row, O : row = t.latest[k] /\ O = Observations(k, L)
  OBVIOUS
<1>2. row # NoRow
  BY <1>1, SMT DEF NoRow, Never
<1>3. row \in O
  BY <1>1, <1>2 DEF Projects, IsNewestOf
<1>4. PICK f \in L : Counts(f, k, L) /\ row = [at |-> f.at, v |-> f.rows[k]]
  BY <1>1, <1>3 DEF Observations
<1>5. row.at = f.at /\ row.v = f.rows[k]
  BY <1>4
<1> QED
  BY <1>1, <1>4, <1>5

\* An event of the account or of a symbol that disagrees with no event of L.
LEMMA SnapshotFits ==
    ASSUME NEW t, NEW L, NEW R, Projects(t, L, R), NEW S, L \subseteq S, SnapshotsAgree(S),
           NEW e \in S, IsEvent(e), NEW k \in Snapshots, k \in DOMAIN e.rows
    PROVE  ~Contradicts(t.latest[k], e.at, e.rows[k])
<1> SUFFICES ASSUME Contradicts(t.latest[k], e.at, e.rows[k]) PROVE FALSE
  OBVIOUS
<1>1. t.latest[k].at = e.at /\ t.latest[k].v # e.rows[k] /\ e.at \in Nat /\ k \in Keys
  BY EventFields DEF Contradicts, Keys
<1>2. PICK f \in L : Counts(f, k, L) /\ t.latest[k].at = f.at /\ t.latest[k].v = f.rows[k]
  BY <1>1, RowIsObserved
<1>3. k \in DOMAIN f.rows
  BY <1>2 DEF Counts
<1> QED
  BY <1>1, <1>2, <1>3 DEF SnapshotsAgree

\* An event of L contradicts no row it counts for.
LEMMA OwnRowFits ==
    ASSUME NEW t, NEW L, NEW R, Projects(t, L, R), AreEvents(L), NEW e \in L, NEW k \in Keys,
           Counts(e, k, L)
    PROVE  ~Contradicts(t.latest[k], e.at, e.rows[k])
<1>1. PICK row, O, o : row = t.latest[k] /\ O = Observations(k, L)
                       /\ o = [at |-> e.at, v |-> e.rows[k]]
  OBVIOUS
<1>2. o \in O /\ o.at = e.at /\ o.v = e.rows[k]
  BY <1>1 DEF Observations
<1>3. row \in O /\ (o = row \/ o.at < row.at)
  BY <1>1, <1>2 DEF Projects, IsNewestOf
<1>4. e.at \in Nat /\ ~(e.at < e.at)
  <2>1. e.at \in Nat
    BY EventFields DEF AreEvents
  <2> QED
    BY <2>1, SMT
<1> QED
  BY <1>1, <1>2, <1>3, <1>4 DEF Contradicts

\* A position or an order that agrees with L: with the last full set at the
\* watermark, with the other single snapshots above it.
LEMMA MemberFits ==
    ASSUME NEW t, NEW L, NEW R, Projects(t, L, R), AreEvents(L),
           NEW S, L \subseteq S, ObservationsAgree(S),
           NEW e \in S, IsEvent(e), e.req = 0, NEW k \in Members, DOMAIN e.rows = {k}
    PROVE  /\ e.at = Watermark(t, k) => IsMember(t, k, e.at, e.rows[k])
           /\ e.at > Watermark(t, k) => ~Contradicts(t.latest[k], e.at, e.rows[k])
<1>1. PICK c, kind : c = t.checkpoint /\ kind = KindOf(k)
  OBVIOUS
<1>2. kind \in Kinds /\ k \in KeysOf(kind) /\ k \in Keys
  BY <1>1, KeyKinds DEF Keys
<1>3. Watermark(t, k) = c.at /\ t.members[kind] = [at |-> c.at, rows |-> c.set[kind]]
  BY <1>1, WatermarkOf
<1>4. CheckpointOf(c, L, R) /\ e.at \in Nat
  BY <1>1, EventFields DEF Projects
<1>5. ASSUME e.at = c.at
      PROVE  IsMember(t, k, e.at, e.rows[k])
  <2>1. c.at # Never
    BY <1>4, <1>5, SMT DEF Never
  <2>2. Results(L) # {}
    BY <1>4, <2>1 DEF CheckpointOf, IsLatest
  <2>3. PICK g \in Results(L) : g.at = c.at
    BY <1>4, <2>2 DEF CheckpointOf
  <2>4. g \in S /\ g.req > 0
    BY DEF Results
  <2>5. k \in DOMAIN g.rows /\ g.rows[k] = e.rows[k]
    <3>1. e.at = g.at /\ k \in DOMAIN e.rows
      BY <1>5, <2>3
    <3> QED
      BY <2>4, <3>1, SetListsSingle
  <2>6. c.set[kind] = Part(g.rows, KeysOf(kind))
    BY <1>2, <1>4, <2>3 DEF CheckpointOf
  <2>7. k \in DOMAIN c.set[kind] /\ c.set[kind][k] = e.rows[k]
    BY <1>2, <2>5, <2>6 DEF Part
  <2>8. PICK m : m = t.members[kind]
    OBVIOUS
  <2>9. m.at = c.at /\ m.rows = c.set[kind]
    <3>1. m = [at |-> c.at, rows |-> c.set[kind]]
      BY <1>3, <2>8
    <3> QED
      BY <3>1
  <2> QED
    BY <1>1, <1>5, <2>7, <2>8, <2>9 DEF IsMember
<1>6. ASSUME e.at > c.at, Contradicts(t.latest[k], e.at, e.rows[k])
      PROVE  FALSE
  <2>1. t.latest[k].at = e.at /\ t.latest[k].v # e.rows[k]
    BY <1>6 DEF Contradicts
  <2>2. PICK f \in L : Counts(f, k, L) /\ t.latest[k].at = f.at /\ t.latest[k].v = f.rows[k]
    <3>1. k \in Keys
      BY <1>2
    <3>2. t.latest[k].at \in Nat
      BY <1>4, <2>1
    <3> QED
      BY <3>1, <3>2, RowIsObserved, SMT
  <2>3. f \notin Results(L)
    <3>1. \A g \in Results(L) : g.at < e.at
      BY <1>4, <1>6, AboveWatermark DEF CheckpointOf
    <3>2. ~(e.at < e.at)
      BY <1>4, SMT
    <3> QED
      BY <2>1, <2>2, <3>1, <3>2
  <2>4. f.req = 0 /\ k \in DOMAIN f.rows
    BY <2>2, <2>3 DEF Counts, IsLastSet
  <2> QED
    <3>1. f \in S /\ e.at = f.at /\ k \in DOMAIN e.rows
      BY <2>1, <2>2
    <3>2. e.rows[k] = f.rows[k]
      BY <2>4, <3>1, SinglesAgree
    <3> QED
      BY <2>1, <2>2, <3>2
<1> QED
  BY <1>3, <1>5, <1>6

\* A full set that agrees with L.
LEMMA SetFits ==
    ASSUME NEW t, NEW L, NEW R, Projects(t, L, R), AreEvents(L),
           NEW S, L \subseteq S, ObservationsAgree(S), SnapshotsAgree(S),
           NEW e \in S, IsEvent(e), e.req > 0
    PROVE  ~ResultContradicts(t, e)
<1>1. PICK c : c = t.checkpoint
  OBVIOUS
<1>2. CheckpointOf(c, L, R) /\ e.at \in Nat
  BY <1>1, EventFields DEF Projects
<1>3. \A k \in Snapshots \cap DOMAIN e.rows : ~Contradicts(t.latest[k], e.at, e.rows[k])
  BY SnapshotFits
<1>4. \A kind \in Kinds : c.watermark[kind] = c.at
  <2>1. c.watermark = [kind \in Kinds |-> c.at]
    BY <1>2, SMT DEF CheckpointOf
  <2> QED
    BY <2>1
<1>5. ASSUME NEW kind \in Kinds, e.at = c.at
      PROVE  Part(e.rows, KeysOf(kind)) = c.set[kind]
  <2>1. c.at # Never
    BY <1>2, <1>5, SMT DEF Never
  <2>2. Results(L) # {}
    BY <1>2, <2>1 DEF CheckpointOf, IsLatest
  <2>3. PICK g \in Results(L) : g.at = c.at
    BY <1>2, <2>2 DEF CheckpointOf
  <2>4. g \in S /\ g.req > 0
    BY DEF Results
  <2>5. Part(e.rows, KeysOf(kind)) = Part(g.rows, KeysOf(kind))
    BY <1>5, <2>3, <2>4 DEF ObservationsAgree
  <2> QED
    BY <1>2, <2>3, <2>5 DEF CheckpointOf
<1>6. ASSUME NEW k \in Members, k \in DOMAIN e.rows, e.at > c.at,
             Contradicts(t.latest[k], e.at, e.rows[k])
      PROVE  FALSE
  <2>1. t.latest[k].at = e.at /\ t.latest[k].v # e.rows[k] /\ k \in Keys
    BY <1>6 DEF Contradicts, Keys
  <2>2. PICK f \in L : Counts(f, k, L) /\ t.latest[k].at = f.at /\ t.latest[k].v = f.rows[k]
    BY <1>2, <2>1, RowIsObserved
  <2>3. f \notin Results(L)
    <3>1. \A g \in Results(L) : g.at < e.at
      BY <1>2, <1>6, AboveWatermark DEF CheckpointOf
    <3>2. ~(e.at < e.at)
      BY <1>2, SMT
    <3> QED
      BY <2>1, <2>2, <3>1, <3>2
  <2>4. f.req = 0 /\ k \in DOMAIN f.rows
    BY <1>6, <2>2, <2>3 DEF Counts, IsLastSet
  <2> QED
    <3>1. f \in S /\ f.at = e.at /\ k \in Members
      BY <2>1, <2>2
    <3>2. e.rows[k] = f.rows[k]
      BY <2>4, <3>1, SetListsSingle, SMT
    <3> QED
      BY <2>1, <2>2, <3>2
<1>7. \A kind \in Kinds : ~SetContradicts(t, kind, e)
  BY <1>1, <1>4, <1>5 DEF SetContradicts
<1>8. ASSUME NEW k \in Members \cap DOMAIN e.rows, SetIsNewer(t, KindOf(k), e.at)
      PROVE  ~Contradicts(t.latest[k], e.at, e.rows[k])
  <2>1. KindOf(k) \in Kinds
    BY DEF KindOf, Kinds
  <2>2. e.at > c.at
    BY <1>1, <1>4, <1>8, <2>1 DEF SetIsNewer
  <2> QED
    BY <1>6, <1>8, <2>2
<1> QED
  BY <1>3, <1>7, <1>8 DEF ResultContradicts

\* A bar that is one of the bars.
LEMMA BarFits ==
    ASSUME NEW bars, NEW L, BarsOf(bars, L), NEW all, NEW S, BarsOf(all, S), L \subseteq S,
           NEW e \in S, IsEvent(e), Bar \in DOMAIN e.rows
    PROVE  bars[e.at] \in {e.rows[Bar], Nothing}
<1>1. e.at \in Times
  BY EventFields
<1>2. e.rows[Bar] \in BarsAt(e.at, S) /\ BarsAt(e.at, L) \subseteq BarsAt(e.at, S)
  BY DEF BarsAt
<1>3. BarsAt(e.at, S) = {e.rows[Bar]}
  <2>1. IF BarsAt(e.at, S) = {} THEN all[e.at] = Nothing ELSE BarsAt(e.at, S) = {all[e.at]}
    BY <1>1 DEF BarsOf
  <2> QED
    BY <1>2, <2>1
<1>4. IF BarsAt(e.at, L) = {} THEN bars[e.at] = Nothing ELSE BarsAt(e.at, L) = {bars[e.at]}
  BY <1>1 DEF BarsOf
<1> QED
  BY <1>2, <1>3, <1>4
-----------------------------------------------------------------------------
\* The steps, and the runs.

\* Every step leaves the log, the tables and the runs alone, takes a snapshot,
\* commits a result, or creates or escalates a run.
LEMMA Steps ==
    ASSUME [Next]_vars
    PROVE  \/ UNCHANGED <<log, tables, runs>>
           \/ \E e \in Facts : Ingest(e) /\ UNCHANGED runs
           \/ \E e \in Event : \E u, s :
                 /\ e.req \in Requests /\ e.id # 0 /\ DOMAIN e.rows \subseteq Keys
                 /\ CommitResult(e.req, e, u, s)
           \/ \E r \in Requests : CreateRun(r, OpenedAt(r))
           \/ \E r \in Requests, t \in Escalations : Escalate(r, t.at, t.updated)
<1>1. CASE IngestStep
  BY <1>1 DEF IngestStep, IngestSome, reconVars
<1>2. CASE MarketStep
  BY <1>2 DEF MarketStep, UpdateSomeMarket, UpdateMarketSnapshot, reconVars
<1>3. CASE AnswerStep
  <2>1. PICK answer \in Answers :
          \/ CommitResult(answer.event.req, answer.event, answer.unresolved, answer.symbols)
          \/ RefuseResult(answer.event.req, answer.event, answer.unresolved)
    BY <1>3 DEF AnswerStep
  <2>2. /\ answer.event \in Event /\ answer.event.req \in Requests
        /\ answer.event.id # 0 /\ DOMAIN answer.event.rows \subseteq Keys
    BY AnswersAreResults
  <2>3. CASE RefuseResult(answer.event.req, answer.event, answer.unresolved)
    BY <2>3 DEF RefuseResult
  <2>4. CASE CommitResult(answer.event.req, answer.event, answer.unresolved, answer.symbols)
    BY <2>2, <2>4
  <2> QED
    BY <2>1, <2>3, <2>4
<1>4. CASE RunStep
  BY <1>4 DEF RunStep
<1>5. CASE \E c \in Commands : CommandMoves(c)
  BY <1>5 DEF CommandMoves
<1>6. CASE UNCHANGED vars
  BY <1>6 DEF vars
<1> QED
  BY <1>1, <1>2, <1>3, <1>4, <1>5, <1>6 DEF Next
RunFields == DOMAIN NoRun

IdsAreUnique == \A e, f \in log : e.id = f.id => e = f

\* A row that does not exist yet has no result.
RunsInv ==
    /\ DOMAIN runs = Requests
    /\ \A r \in Requests : /\ DOMAIN runs[r] = RunFields
                           /\ runs[r].status = "NONE" => runs[r].result = 0

RunForward(old, new) ==
    /\ old.result # 0 => new.result = old.result
    /\ old.status \in {"COMPLETED", "MANUAL"} => new = old
    /\ old.status # "NONE" => new.status # "NONE"

\* What the three writes make of a run.
LEMMA RunRequested ==
    ASSUME NEW at
    PROVE  /\ DOMAIN Requested(at) = RunFields /\ Requested(at).status = "REQUESTED"
           /\ Requested(at).result = 0
BY DEF Requested, RunFields, NoRun

LEMMA RunAnswered ==
    ASSUME NEW run, DOMAIN run = RunFields, NEW r, NEW e, NEW attention, NEW symbols,
           NEW new, new = Answered(run, r, e, attention, symbols)
    PROVE  DOMAIN new = RunFields /\ new.status \in {"COMPLETED", "PENDING_EVIDENCE"}
BY DEF Answered, Disposition, RunFields, NoRun

LEMMA RunEscalated ==
    ASSUME NEW run, DOMAIN run = RunFields, NEW at, NEW attention, NEW updated,
           NEW new, new = Escalated(run, at, attention, updated)
    PROVE  DOMAIN new = RunFields /\ new.status = "MANUAL" /\ new.result = run.result
BY DEF Escalated, RunFields, NoRun

\* Every step keeps the rows well-formed and moves each run forward.
LEMMA RunsStep ==
    ASSUME RunsInv, [Next]_vars
    PROVE  RunsInv' /\ \A r \in Requests : RunForward(runs[r], runs'[r])
<1>0. CASE UNCHANGED runs
  BY <1>0 DEF RunsInv, RunForward
<1>1. ASSUME NEW r \in Requests, NEW new, runs' = [runs EXCEPT ![r] = new],
             DOMAIN new = RunFields, new.status # "NONE", RunForward(runs[r], new)
      PROVE  RunsInv' /\ \A q \in Requests : RunForward(runs[q], runs'[q])
  <2>1. runs'[r] = new /\ \A q \in Requests \ {r} : runs'[q] = runs[q]
    BY <1>1 DEF RunsInv
  <2>2. DOMAIN runs' = Requests
    BY <1>1 DEF RunsInv
  <2>3. RunsInv'
    BY <1>1, <2>1, <2>2 DEF RunsInv
  <2>4. \A q \in Requests \ {r} : RunForward(runs[q], runs'[q])
    BY <2>1 DEF RunForward
  <2> QED
    BY <1>1, <2>1, <2>3, <2>4
<1>2. ASSUME NEW r \in Requests, CreateRun(r, OpenedAt(r))
      PROVE  RunsInv' /\ \A q \in Requests : RunForward(runs[q], runs'[q])
  <2>1. runs' = [runs EXCEPT ![r] = Requested(OpenedAt(r))] /\ runs[r].status = "NONE"
    BY <1>2 DEF CreateRun
  <2>2. DOMAIN runs[r] = RunFields /\ runs[r].result = 0
    BY <2>1 DEF RunsInv
  <2>3. /\ DOMAIN Requested(OpenedAt(r)) = RunFields
        /\ Requested(OpenedAt(r)).status = "REQUESTED"
    BY RunRequested
  <2>4. RunForward(runs[r], Requested(OpenedAt(r)))
    BY <2>1, <2>2 DEF RunForward
  <2> QED
    BY <1>1, <2>1, <2>3, <2>4
<1>3. ASSUME NEW r \in Requests, NEW e, NEW u, NEW s, CommitResult(r, e, u, s)
      PROVE  RunsInv' /\ \A q \in Requests : RunForward(runs[q], runs'[q])
  <2> DEFINE new == Answered(runs[r], r, e, Attention(r, e, u), s)
  <2>1. /\ runs' = [runs EXCEPT ![r] = new]
        /\ runs[r].status = "REQUESTED" /\ runs[r].result = 0
    BY <1>3 DEF CommitResult, TakesResult
  <2>2. DOMAIN runs[r] = RunFields
    BY DEF RunsInv
  <2>3. DOMAIN new = RunFields /\ new.status \in {"COMPLETED", "PENDING_EVIDENCE"}
    <3> DEFINE run == runs[r]
               attention == Attention(r, e, u)
    <3>1. DOMAIN run = RunFields /\ new = Answered(run, r, e, attention, s)
      BY <2>2
    <3> HIDE DEF run, new, attention
    <3> QED
      BY <3>1, RunAnswered
  <2>4. RunForward(runs[r], new)
    BY <2>1, <2>3 DEF RunForward
  <2> HIDE DEF new
  <2> QED
    BY <1>1, <2>1, <2>3, <2>4
<1>4. ASSUME NEW r \in Requests, NEW at, NEW updated, Escalate(r, at, updated)
      PROVE  RunsInv' /\ \A q \in Requests : RunForward(runs[q], runs'[q])
  <2>1. PICK attention : runs' = [runs EXCEPT ![r] =
                                    Escalated(runs[r], at, attention, updated)]
    BY <1>4 DEF Escalate
  <2>2. runs[r].status \in {"REQUESTED", "PENDING_EVIDENCE"}
    BY <1>4 DEF Escalate
  <2> DEFINE new == Escalated(runs[r], at, attention, updated)
  <2>3. DOMAIN runs[r] = RunFields
    BY DEF RunsInv
  <2>4. DOMAIN new = RunFields /\ new.status = "MANUAL" /\ new.result = runs[r].result
    <3> DEFINE run == runs[r]
    <3>1. DOMAIN run = RunFields /\ new = Escalated(run, at, attention, updated)
      BY <2>3
    <3> HIDE DEF run, new
    <3>2. DOMAIN new = RunFields /\ new.status = "MANUAL" /\ new.result = run.result
      BY <3>1, RunEscalated, SMT
    <3> QED
      BY <3>2 DEF run
  <2>5. RunForward(runs[r], new)
    BY <2>2, <2>4 DEF RunForward
  <2>6. runs' = [runs EXCEPT ![r] = new]
    BY <2>1
  <2> HIDE DEF new
  <2> QED
    BY <1>1, <2>4, <2>5, <2>6
<1>5. CASE IngestStep \/ MarketStep
  BY <1>0, <1>5 DEF IngestStep, MarketStep, reconVars
<1>6. CASE AnswerStep
  <2>1. PICK answer \in Answers :
          \/ CommitResult(answer.event.req, answer.event, answer.unresolved, answer.symbols)
          \/ RefuseResult(answer.event.req, answer.event, answer.unresolved)
    BY <1>6 DEF AnswerStep
  <2>2. answer.event.req \in Requests
    BY AnswersAreResults
  <2>3. CASE RefuseResult(answer.event.req, answer.event, answer.unresolved)
    BY <1>0, <2>3 DEF RefuseResult
  <2>4. CASE CommitResult(answer.event.req, answer.event, answer.unresolved, answer.symbols)
    BY <1>3, <2>2, <2>4
  <2> QED
    BY <2>1, <2>3, <2>4
<1>7. CASE RunStep
  BY <1>2, <1>4, <1>7 DEF RunStep
<1>8. CASE \E c \in Commands : CommandMoves(c)
  BY <1>0, <1>8 DEF CommandMoves
<1>9. CASE UNCHANGED vars
  BY <1>0, <1>9 DEF vars
<1> QED
  BY <1>5, <1>6, <1>7, <1>8, <1>9 DEF Next

LEMMA RunsInit == Init => RunsInv
<1> SUFFICES ASSUME Init PROVE RunsInv
  OBVIOUS
<1>1. runs = [r \in Requests |-> NoRun]
  BY DEF Init
<1>2. NoRun.result = 0
  BY DEF NoRun
<1> QED
  BY <1>1, <1>2 DEF RunsInv, RunFields

\* The rows of the runs are well-formed in every reachable state.
THEOREM RunsInvariant == Spec => []RunsInv
<1>1. RunsInv /\ [Next]_vars => RunsInv'
  BY RunsStep
<1> QED
  BY <1>1, RunsInit, PTL DEF Spec

-----------------------------------------------------------------------------
\* One event.

\* A snapshot that contradicts nothing adds its observation to what the tables hold.
LEMMA FactWrites ==
    ASSUME NEW t, NEW L, NEW R, Projects(t, L, R), AreEvents(L), NEW e, IsEvent(e), e.req = 0,
           ~FactContradicts(t, KeyOf(e), e.at, e.rows[KeyOf(e)]),
           NEW u, u = FactApplied(t, KeyOf(e), e.at, e.rows[KeyOf(e)])
    PROVE  /\ Projects(u, L \cup {e}, R)
           /\ Bar \notin DOMAIN e.rows => u.bars = t.bars
           /\ BarsOf(t.bars, L) => BarsOf(u.bars, L \cup {e})
<1>1. PICK k \in Keys \cup {Bar} : DOMAIN e.rows = {k}
  BY DEF IsEvent
<1>2. KeyOf(e) = k
  BY <1>1, OneKey
<1>3. PICK a, v : a = e.at /\ v = e.rows[k]
  OBVIOUS
<1>4. ~FactContradicts(t, k, a, v) /\ u = FactApplied(t, k, a, v)
  BY <1>2, <1>3
<1>5. CASE k = Bar
  <2>1. u = WithBar(t, a, v) /\ t.bars[a] \in {v, Nothing}
    BY <1>4, <1>5 DEF FactApplied, FactContradicts
  <2>2. DOMAIN e.rows = {Bar}
    BY <1>1, <1>5
  <2>3. Projects(u, L \cup {e}, R)
    <3>1. Projects(WithBar(t, a, v), L \cup {e}, R)
      BY <2>2, BarsAside
    <3> QED
      BY <2>1, <3>1
  <2>4. u.bars = [t.bars EXCEPT ![a] = v]
    BY <2>1, SMT DEF WithBar
  <2>5. PICK bars : bars = t.bars
    OBVIOUS
  <2>6. bars[e.at] \in {e.rows[Bar], Nothing}
    BY <1>3, <1>5, <2>1, <2>5
  <2>7. ASSUME BarsOf(bars, L) PROVE BarsOf([bars EXCEPT ![e.at] = e.rows[Bar]], L \cup {e})
    BY <2>2, <2>6, <2>7, BarAdded
  <2>8. u.bars = [bars EXCEPT ![e.at] = e.rows[Bar]]
    BY <1>3, <1>5, <2>4, <2>5
  <2> QED
    BY <2>2, <2>3, <2>5, <2>7, <2>8
<1>6. CASE k # Bar
  <2>1. k \in Keys /\ Bar \notin DOMAIN e.rows
    BY <1>1, <1>6
  <2>2. Projects(FactApplied(t, k, e.at, e.rows[k]), L \cup {e}, R)
    BY <1>1, <1>3, <1>4, <2>1, FactProjects
  <2>3. u = t \/ u = WithRow(t, k, Newest(t.latest[k], a, v))
    BY <1>4, <1>6 DEF FactApplied
  <2>4. u.bars = t.bars
    BY <2>3, SMT DEF WithRow
  <2> QED
    BY <1>3, <1>4, <2>1, <2>2, <2>4, NoBarAdded
<1> QED
  BY <1>5, <1>6

\* The tables are those of the log, which agrees; every full set in it is the
\* result of a run.
TablesInv ==
    /\ IsFiniteSet(log) /\ IdsAreUnique /\ AreEvents(log)
    /\ ObservationsAgree(log)
    /\ Projects(tables, log, runs)
    /\ BarsOf(tables.bars, log)
    /\ \A e \in Results(log) : e.req \in Requests /\ runs[e.req].result = e.id /\ e.id # 0

\* A longer log, apart from the tables.
LEMMA LogGrows ==
    ASSUME TablesInv, NEW e, IsEvent(e), \A f \in log : f.id = e.id => f = e,
           log' = log \cup {e}
    PROVE  IsFiniteSet(log') /\ IdsAreUnique' /\ AreEvents(log')
<1>1. IsFiniteSet(log) /\ IdsAreUnique /\ AreEvents(log)
  BY DEF TablesInv
<1>2. IsFiniteSet(log')
  BY <1>1, FS_AddElement
<1>3. IdsAreUnique'
  BY <1>1 DEF IdsAreUnique
<1>4. AreEvents(log')
  BY <1>1 DEF AreEvents
<1> QED
  BY <1>2, <1>3, <1>4

\* The observations of a snapshot agree with the log: of a position or an order
\* the code checks it, the others are not compared.
LEMMA SnapshotAgrees ==
    ASSUME TablesInv, NEW e \in Facts, Ingest(e)
    PROVE  ObservationsAgree(log')
<1>1. PICK k \in Keys \cup {Bar} : DOMAIN e.rows = {k}
  BY FactsAreSnapshots
<1>2. KeyOf(e) = k
  BY <1>1, OneKey
<1>3. CASE k \in Members
  BY <1>2, <1>3 DEF Ingest
<1>4. CASE k \notin Members
  <2>1. e.req = 0 /\ Members \cap DOMAIN e.rows = {}
    BY <1>1, <1>4, FactsAreSnapshots
  <2>2. log' = log \cup {e}
    BY DEF Ingest
  <2>3. ObservationsAgree(log)
    BY DEF TablesInv
  <2> QED
    BY <2>1, <2>2, <2>3, SMT DEF ObservationsAgree
<1> QED
  BY <1>3, <1>4

\* Every snapshot of one key preserves the invariant (ingest_durable).
LEMMA SnapshotStep ==
    ASSUME TablesInv, NEW e \in Facts, Ingest(e), UNCHANGED runs
    PROVE  TablesInv'
<1>1. /\ log' = log \cup {e} /\ (\A f \in log : f.id = e.id => f = e)
      /\ ~FactContradicts(tables, KeyOf(e), e.at, e.rows[KeyOf(e)])
      /\ tables' = FactApplied(tables, KeyOf(e), e.at, e.rows[KeyOf(e)])
  BY DEF Ingest
<1>2. e.req = 0 /\ IsEvent(e)
  <2>1. ~(0 > 0)
    BY SMT
  <2> QED
    BY <2>1, FactsAreSnapshots DEF IsEvent
<1>3. IsFiniteSet(log') /\ IdsAreUnique' /\ AreEvents(log')
  BY <1>1, <1>2, LogGrows
<1>4. ObservationsAgree(log')
  BY SnapshotAgrees
<1>5. Projects(tables', log', runs') /\ BarsOf(tables'.bars, log')
  <2>1. PICK t, u, L, R : t = tables /\ u = tables' /\ L = log /\ R = runs
    OBVIOUS
  <2>2. Projects(t, L, R) /\ AreEvents(L) /\ BarsOf(t.bars, L)
    BY <2>1 DEF TablesInv
  <2>3. /\ ~FactContradicts(t, KeyOf(e), e.at, e.rows[KeyOf(e)])
        /\ u = FactApplied(t, KeyOf(e), e.at, e.rows[KeyOf(e)])
    BY <1>1, <2>1
  <2>4. Projects(u, L \cup {e}, R) /\ BarsOf(u.bars, L \cup {e})
    BY <1>2, <2>2, <2>3, FactWrites
  <2> QED
    BY <1>1, <2>1, <2>4
<1>6. Results(log') = Results(log)
  BY <1>1, <1>2, SnapshotIsNoResult
<1>7. \A f \in Results(log') : f.req \in Requests /\ runs'[f.req].result = f.id /\ f.id # 0
  BY <1>6 DEF TablesInv
<1> QED
  BY <1>3, <1>4, <1>5, <1>7 DEF TablesInv

\* Every full set preserves the invariant (commit_reconciliation_result_on): what
\* the handler passes on is what a replay later reads from the run.
LEMMA ResultStep ==
    ASSUME TablesInv, RunsInv, NEW e \in Event, e.req \in Requests, e.id # 0,
           DOMAIN e.rows \subseteq Keys, NEW u, NEW s, CommitResult(e.req, e, u, s)
    PROVE  TablesInv'
<1> DEFINE r == e.req
           attention == Attention(r, e, u)
           pending == EarnsPending(r, attention)
           new == Answered(runs[r], r, e, attention, s)
<1>1. /\ log' = log \cup {e} /\ (\A f \in log : f.id # e.id) /\ ObservationsAgree(log')
      /\ ~ResultContradicts(tables, e)
      /\ tables' = ResultApplied(tables, e, s, pending)
      /\ runs' = [runs EXCEPT ![r] = new] /\ runs[r].result = 0
  BY DEF CommitResult, TakesResult
<1>2. e.req > 0 /\ e.req # 0 /\ IsEvent(e)
  <2>1. e.req > 0 /\ e.req # 0
    <3>1. e.req \in Nat \ {0}
      BY RequestsAreIds
    <3> QED
      BY <3>1, SMT
  <2> QED
    BY <2>1 DEF IsEvent
<1>3. IsFiniteSet(log') /\ IdsAreUnique' /\ AreEvents(log')
  BY <1>1, <1>2, LogGrows
<1>4. runs'[r] = new /\ \A q \in Requests \ {r} : runs'[q] = runs[q]
  BY <1>1 DEF RunsInv
<1>5. /\ new.disposition = Disposition(attention) /\ new.result = e.id
      /\ new.symbols = s /\ new.scope = (AccountWide(r) /\ r \notin Routed)
  <2>1. DOMAIN runs[r] = RunFields
    BY DEF RunsInv
  <2> QED
    BY <2>1 DEF Answered, RunFields, NoRun
<1>6. pending <=> runs'[r].disposition = "COMPLETED" /\ runs'[r].scope
  BY <1>4, <1>5 DEF Disposition, EarnsPending
<1>7. ASSUME NEW f \in Results(log)
      PROVE  f.req \in Requests /\ runs'[f.req] = runs[f.req]
  <2>1. f.req \in Requests /\ runs[f.req].result = f.id /\ f.id # 0
    BY DEF TablesInv
  <2>2. f.req # r
    BY <1>1, <2>1
  <2> QED
    BY <1>4, <2>1, <2>2
<1>8. Projects(tables', log', runs') /\ BarsOf(tables'.bars, log')
  <2> HIDE DEF pending, new, attention
  <2>1. PICK t, L, R, Q : t = tables /\ L = log /\ R = runs /\ Q = runs'
    OBVIOUS
  <2>2. Projects(t, L, R) /\ AreEvents(L) /\ BarsOf(t.bars, L)
    BY <2>1 DEF TablesInv
  <2>3. \A f \in Results(L) : Q[f.req] = R[f.req]
    BY <1>7, <2>1
  <2>4. Projects(t, L, Q)
    BY <2>2, <2>3, RunsAside
  <2>5. ~ResultContradicts(t, e)
    BY <1>1, <2>1
  <2>a. s <=> Q[e.req].symbols
    BY <1>4, <1>5, <2>1
  <2>b. pending <=> Q[e.req].disposition = "COMPLETED" /\ Q[e.req].scope
    BY <1>6, <2>1
  <2>6. /\ Projects(ResultApplied(t, e, s, pending), L \cup {e}, Q)
        /\ ResultApplied(t, e, s, pending).bars = t.bars
    BY <1>2, <2>2, <2>4, <2>5, <2>a, <2>b, ResultProjects, SMT
  <2>7. BarsOf(t.bars, L \cup {e})
    <3>1. Bar \notin DOMAIN e.rows
      BY KeyKinds
    <3> QED
      BY <2>2, <3>1, NoBarAdded
  <2> QED
    BY <1>1, <2>1, <2>6, <2>7
<1>9. Results(log') = Results(log) \cup {e}
  BY <1>1, <1>2 DEF Results
<1>10. \A f \in Results(log') : f.req \in Requests /\ runs'[f.req].result = f.id /\ f.id # 0
  BY <1>4, <1>5, <1>7, <1>9 DEF TablesInv
<1> QED
  BY <1>1, <1>3, <1>8, <1>10 DEF TablesInv

\* A step that writes one run only, and keeps what its result says.
LEMMA OtherStep ==
    ASSUME TablesInv, UNCHANGED <<log, tables>>,
           \A q \in Requests : runs[q].result # 0 =>
               /\ runs'[q].result = runs[q].result /\ runs'[q].symbols = runs[q].symbols
               /\ runs'[q].disposition = runs[q].disposition /\ runs'[q].scope = runs[q].scope
    PROVE  TablesInv'
<1>1. \A e \in Results(log) : /\ e.req \in Requests /\ runs[e.req].result = e.id /\ e.id # 0
                              /\ runs[e.req].result # 0
  BY DEF TablesInv
<1>2. Projects(tables, log, runs')
  <2>1. PICK t, L, R, Q : t = tables /\ L = log /\ R = runs /\ Q = runs'
    OBVIOUS
  <2>2. Projects(t, L, R)
    BY <2>1 DEF TablesInv
  <2>3. ASSUME NEW e \in Results(L)
        PROVE  /\ Q[e.req].symbols <=> R[e.req].symbols
               /\ Q[e.req].disposition = R[e.req].disposition
               /\ Q[e.req].scope <=> R[e.req].scope
    BY <1>1, <2>1
  <2>4. Projects(t, L, Q)
    BY <2>2, <2>3, RunsAside
  <2> QED
    BY <2>1, <2>4
<1>3. \A e \in Results(log) : e.req \in Requests /\ runs'[e.req].result = e.id /\ e.id # 0
  BY <1>1
<1>4. IdsAreUnique'
  BY DEF TablesInv, IdsAreUnique
<1> QED
  BY <1>2, <1>3, <1>4 DEF TablesInv

LEMMA EscalationKeeps ==
    ASSUME RunsInv, NEW r \in Requests, NEW at, NEW updated, Escalate(r, at, updated),
           NEW q \in Requests
    PROVE  /\ runs'[q].result = runs[q].result /\ runs'[q].symbols = runs[q].symbols
           /\ runs'[q].disposition = runs[q].disposition /\ runs'[q].scope = runs[q].scope
<1>1. PICK attention : runs' = [runs EXCEPT ![r] = Escalated(runs[r], at, attention, updated)]
  BY DEF Escalate
<1>2. PICK run, new : run = runs[r] /\ new = Escalated(run, at, attention, updated)
  OBVIOUS
<1>3. DOMAIN run = RunFields
  BY <1>2 DEF RunsInv
<1>4. /\ new.result = run.result /\ new.symbols = run.symbols
      /\ new.disposition = run.disposition /\ new.scope = run.scope
  BY <1>2, <1>3 DEF Escalated, RunFields, NoRun
<1>5. runs'[r] = new /\ (q # r => runs'[q] = runs[q])
  BY <1>1, <1>2 DEF RunsInv
<1> QED
  BY <1>2, <1>4, <1>5

LEMMA TablesStep ==
    ASSUME TablesInv, RunsInv, [Next]_vars
    PROVE  TablesInv'
<1>1. CASE UNCHANGED <<log, tables, runs>>
  BY <1>1, OtherStep
<1>2. CASE \E e \in Facts : Ingest(e) /\ UNCHANGED runs
  BY <1>2, SnapshotStep
<1>3. ASSUME NEW e \in Event, NEW u, NEW s, CommitResult(e.req, e, u, s),
             e.req \in Requests, e.id # 0, DOMAIN e.rows \subseteq Keys
      PROVE  TablesInv'
  BY <1>3, ResultStep
<1>4. ASSUME NEW r \in Requests, CreateRun(r, OpenedAt(r))
      PROVE  TablesInv'
  <2>1. /\ UNCHANGED <<log, tables>> /\ runs[r].status = "NONE"
        /\ runs' = [runs EXCEPT ![r] = Requested(OpenedAt(r))]
    BY <1>4 DEF CreateRun
  <2>2. runs[r].result = 0 /\ \A q \in Requests \ {r} : runs'[q] = runs[q]
    BY <2>1 DEF RunsInv
  <2> QED
    BY <2>1, <2>2, OtherStep
<1>5. ASSUME NEW r \in Requests, NEW t \in Escalations, Escalate(r, t.at, t.updated)
      PROVE  TablesInv'
  <2>1. UNCHANGED <<log, tables>>
    BY <1>5 DEF Escalate
  <2>2. \A q \in Requests :
           /\ runs'[q].result = runs[q].result /\ runs'[q].symbols = runs[q].symbols
           /\ runs'[q].disposition = runs[q].disposition /\ runs'[q].scope = runs[q].scope
    BY <1>5, EscalationKeeps
  <2> QED
    BY <2>1, <2>2, OtherStep
<1> QED
  BY <1>1, <1>2, <1>3, <1>4, <1>5, Steps

LEMMA TablesInit == Init => TablesInv
<1> SUFFICES ASSUME Init PROVE TablesInv
  OBVIOUS
<1>1. log = {} /\ tables = EmptyTables
  BY DEF Init, ProjectionsInit
<1>2. IsFiniteSet(log) /\ IdsAreUnique /\ AreEvents(log) /\ ObservationsAgree(log)
  BY <1>1, FS_EmptySet DEF IdsAreUnique, AreEvents, ObservationsAgree
<1>3. Cleared(EmptyTables.bars) = EmptyTables
  BY DEF Cleared, EmptyTables
<1>4. Projects(tables, log, runs) /\ BarsOf(tables.bars, log)
  BY <1>1, <1>3, EmptyProjects, EmptyBars
<1>5. Results(log) = {}
  BY <1>1 DEF Results
<1> QED
  BY <1>2, <1>4, <1>5 DEF TablesInv

\* The tables are those of the log in every state that live writes reach.
THEOREM TablesInvariant == Spec => []TablesInv
<1>1. TablesInv /\ RunsInv /\ [Next]_vars => TablesInv'
  BY TablesStep
<1> QED
  BY <1>1, TablesInit, RunsInvariant, PTL DEF Spec

-----------------------------------------------------------------------------
\* The order of a replay.

\* Induction over the numbers up to N: a set of initial segments has a least one.
LEMMA Induction ==
    ASSUME NEW N \in Nat, NEW G, 0 \in G, \A n \in 1 .. N : n - 1 \in G => n \in G
    PROVE  0 .. N \subseteq G
<1> DEFINE S == 0 .. N
           B == S \ G
           T == {0 .. m : m \in B}
<1> SUFFICES ASSUME B # {} PROVE FALSE
  OBVIOUS
<1>1. IsFiniteSet(S)
  BY FS_Interval, SMT
<1>2. T \subseteq SUBSET S /\ T # {}
  BY SMT
<1>3. IsWellFoundedOn(StrictSubsetOrdering(S), SUBSET S)
  BY <1>1, FS_StrictSubsetOrderingWellFounded, FS_FiniteSubsetsOfFinite
<1>4. PICK s \in T : \A t \in T : ~(<<t, s>> \in StrictSubsetOrdering(S))
  <2> HIDE DEF T, S
  <2> QED
    BY <1>2, <1>3, WFMin
<1>5. PICK m \in B : s = 0 .. m
  OBVIOUS
<1>6. m \in 1 .. N /\ m - 1 \in S
  BY SMT
<1>7. 0 .. (m - 1) \subseteq s /\ 0 .. (m - 1) # s
  <2>1. m \in s /\ m \notin 0 .. (m - 1)
    BY <1>5, SMT
  <2>2. 0 .. (m - 1) \subseteq s
    BY <1>5, SMT
  <2> QED
    BY <2>1, <2>2
<1>8. m - 1 \notin B
  <2> SUFFICES ASSUME m - 1 \in B PROVE FALSE
    OBVIOUS
  <2>1. PICK t : t = 0 .. (m - 1)
    OBVIOUS
  <2>2. t \in T /\ t \in SUBSET S /\ s \in SUBSET S
    BY <1>2, <2>1, SMT
  <2>3. t \subseteq s /\ t # s
    BY <1>7, <2>1
  <2>4. ~(<<t, s>> \in StrictSubsetOrdering(S))
    BY <1>4, <2>2
  <2> QED
    BY <2>2, <2>3, <2>4 DEF StrictSubsetOrdering
<1> QED
  BY <1>6, <1>8

\* The events that are replayed before e, and how many they are.
Earlier(S, e) == {f \in S : Before(f, e)}
Rank(S, e) == Cardinality(Earlier(S, e))

\* Events with their own ids, finitely many.
IsHistory(S) ==
    /\ IsFiniteSet(S) /\ AreEvents(S)
    /\ \A e, f \in S : e.id = f.id => e = f

\* Arrival time and id order the events of a history.
LEMMA BeforeIsOrder ==
    ASSUME NEW S, IsHistory(S), NEW e \in S, NEW f \in S
    PROVE  /\ ~Before(e, e)
           /\ e # f => Before(e, f) \/ Before(f, e)
           /\ \A g \in S : Before(g, e) /\ Before(e, f) => Before(g, f)
<1>1. \A g \in S : g.received \in Nat /\ g.id \in Nat
  BY EventFields, IdsAreOrdered DEF IsHistory, AreEvents
<1>2. ~Before(e, e)
  BY <1>1, SMT DEF Before
<1>3. e # f => e.id # f.id
  BY DEF IsHistory
<1>4. e # f => Before(e, f) \/ Before(f, e)
  BY <1>1, <1>3, SMT DEF Before
<1>5. ASSUME NEW g \in S, Before(g, e), Before(e, f) PROVE Before(g, f)
  BY <1>1, <1>5, SMT DEF Before
<1> QED
  BY <1>2, <1>4, <1>5

\* The ranks are the numbers below the size of the history, each taken once.
LEMMA RanksGrow ==
    ASSUME NEW S, IsHistory(S), NEW e \in S, NEW f \in S, Before(e, f)
    PROVE  Rank(S, e) < Rank(S, f)
<1>1. PICK A, B : A = Earlier(S, e) /\ B = Earlier(S, f)
  OBVIOUS
<1>2. A \subseteq B /\ e \in B /\ e \notin A /\ B \subseteq S
  BY <1>1, BeforeIsOrder DEF Earlier
<1>3. IsFiniteSet(B)
  BY <1>2, FS_Subset DEF IsHistory
<1>4. Cardinality(A) <= Cardinality(B) /\ Cardinality(A) # Cardinality(B) /\ IsFiniteSet(A)
  BY <1>2, <1>3, FS_Subset
<1>5. Cardinality(A) \in Nat /\ Cardinality(B) \in Nat
  BY <1>3, <1>4, FS_CardinalityType
<1>6. Cardinality(A) < Cardinality(B)
  BY <1>4, <1>5, SMT
<1> QED
  BY <1>1, <1>6 DEF Rank

LEMMA RankIsBelow ==
    ASSUME NEW S, IsHistory(S), NEW e \in S
    PROVE  /\ Cardinality(S) \in Nat
           /\ Rank(S, e) \in 0 .. (Cardinality(S) - 1)
<1>1. PICK A : A = Earlier(S, e)
  OBVIOUS
<1>2. A \subseteq S /\ e \notin A
  BY <1>1, BeforeIsOrder DEF Earlier
<1>3. IsFiniteSet(S)
  BY DEF IsHistory
<1>4. Cardinality(A) <= Cardinality(S) /\ Cardinality(A) # Cardinality(S) /\ IsFiniteSet(A)
  BY <1>2, <1>3, FS_Subset
<1>5. Cardinality(A) \in Nat /\ Cardinality(S) \in Nat
  BY <1>3, <1>4, FS_CardinalityType
<1>6. Cardinality(A) \in 0 .. (Cardinality(S) - 1)
  BY <1>4, <1>5, SMT
<1> QED
  BY <1>1, <1>5, <1>6 DEF Rank

LEMMA RanksCover ==
    ASSUME NEW S, IsHistory(S), NEW m \in 0 .. (Cardinality(S) - 1)
    PROVE  \E e \in S : Rank(S, e) = m
<1> DEFINE N == Cardinality(S)
           T == 0 .. (N - 1)
           r == [e \in S |-> Rank(S, e)]
<1>1. IsFiniteSet(S) /\ N \in Nat
  BY FS_CardinalityType DEF IsHistory
<1>2. IsFiniteSet(T) /\ Cardinality(T) = N
  <2> HIDE DEF N
  <2>1. 0 \in Int /\ N - 1 \in Int /\ (IF 0 > N - 1 THEN 0 ELSE N - 1 - 0 + 1) = N
    BY <1>1, SMT
  <2> QED
    BY <2>1, FS_Interval
<1>3. r \in [S -> T]
  BY RankIsBelow
<1>4. ASSUME NEW e \in S, NEW f \in S, r[e] = r[f] PROVE e = f
  <2>1. Rank(S, e) = Rank(S, f) /\ Rank(S, e) \in Nat
    BY <1>4, RankIsBelow, SMT
  <2>2. ~(Rank(S, e) < Rank(S, f)) /\ ~(Rank(S, f) < Rank(S, e))
    BY <2>1, SMT
  <2> QED
    BY <2>2, RanksGrow, BeforeIsOrder
<1>5. r \in Injection(S, T)
  <2> HIDE DEF r
  <2> QED
    BY <1>3, <1>4 DEF Injection, IsInjective
<1>6. r \in Surjection(S, T)
  <2> HIDE DEF r, T
  <2> QED
    BY <1>2, <1>5, FS_Injection
<1>7. \E e \in S : r[e] = m
  <2> HIDE DEF r
  <2> QED
    BY <1>6 DEF Surjection
<1> QED
  BY <1>7

\* What has been replayed after n events.
Prefix(S, n) == {e \in S : Rank(S, e) < n}

LEMMA PrefixGrows ==
    ASSUME NEW S, IsHistory(S), NEW n \in 1 .. Cardinality(S)
    PROVE  /\ Nth(S, n) \in S
           /\ Prefix(S, n) = Prefix(S, n - 1) \cup {Nth(S, n)}
<1>1. n \in Nat /\ Cardinality(S) \in Nat /\ n - 1 \in 0 .. (Cardinality(S) - 1)
  <2>1. Cardinality(S) \in Nat
    BY FS_CardinalityType DEF IsHistory
  <2> QED
    BY <2>1, SMT
<1>2. PICK x : x = Nth(S, n)
  OBVIOUS
<1>3. x \in S /\ Rank(S, x) = n - 1
  <2>1. \E e \in S : Cardinality({f \in S : Before(f, e)}) = n - 1
    BY <1>1, RanksCover DEF Rank, Earlier
  <2> QED
    BY <1>2, <2>1 DEF Nth, Rank, Earlier
<1>4. ASSUME NEW e \in S, Rank(S, e) = n - 1 PROVE e = x
  <2>1. ~(n - 1 < n - 1)
    BY <1>1, SMT
  <2>2. ~(Rank(S, e) < Rank(S, x)) /\ ~(Rank(S, x) < Rank(S, e))
    BY <1>3, <1>4, <2>1
  <2>3. ~Before(e, x) /\ ~Before(x, e)
    BY <1>3, <2>2, RanksGrow
  <2> QED
    BY <1>3, <2>3, BeforeIsOrder
<1>5. ASSUME NEW e \in S PROVE Rank(S, e) < n <=> Rank(S, e) < n - 1 \/ Rank(S, e) = n - 1
  <2>1. Rank(S, e) \in 0 .. (Cardinality(S) - 1)
    BY RankIsBelow
  <2> QED
    BY <1>1, <2>1, SMT
<1> QED
  BY <1>2, <1>3, <1>4, <1>5 DEF Prefix

LEMMA PrefixEnds ==
    ASSUME NEW S, IsHistory(S)
    PROVE  Prefix(S, 0) = {} /\ Prefix(S, Cardinality(S)) = S
<1>1. ASSUME NEW e \in S PROVE ~(Rank(S, e) < 0) /\ Rank(S, e) < Cardinality(S)
  <2>1. Cardinality(S) \in Nat /\ Rank(S, e) \in 0 .. (Cardinality(S) - 1)
    BY RankIsBelow
  <2> QED
    BY <2>1, SMT
<1> QED
  BY <1>1 DEF Prefix

-----------------------------------------------------------------------------
\* A replay.

\* An event that contradicts nothing adds its observations to what the tables hold.
LEMMA EventWrites ==
    ASSUME NEW t, NEW L, Projects(t, L, runs), AreEvents(L), NEW e, IsEvent(e),
           ~EventContradicts(t, e)
    PROVE  /\ Projects(EventApplied(t, e), L \cup {e}, runs)
           /\ Bar \notin DOMAIN e.rows => EventApplied(t, e).bars = t.bars
           /\ BarsOf(t.bars, L) => BarsOf(EventApplied(t, e).bars, L \cup {e})
<1>1. PICK u, R : u = EventApplied(t, e) /\ R = runs
  OBVIOUS
<1>2. Projects(t, L, R)
  BY <1>1
<1>3. CASE e.req = 0
  <2>1. /\ ~FactContradicts(t, KeyOf(e), e.at, e.rows[KeyOf(e)])
        /\ u = FactApplied(t, KeyOf(e), e.at, e.rows[KeyOf(e)])
    BY <1>1, <1>3 DEF EventContradicts, EventApplied
  <2>2. /\ Projects(u, L \cup {e}, R)
        /\ Bar \notin DOMAIN e.rows => u.bars = t.bars
        /\ BarsOf(t.bars, L) => BarsOf(u.bars, L \cup {e})
    BY <1>2, <1>3, <2>1, FactWrites
  <2> QED
    BY <1>1, <2>2
<1>4. CASE e.req # 0
  <2>1. PICK s, p : /\ s = R[e.req].symbols
                    /\ p = (R[e.req].disposition = "COMPLETED" /\ R[e.req].scope)
    OBVIOUS
  <2>2. ~ResultContradicts(t, e) /\ u = ResultApplied(t, e, s, p)
    BY <1>1, <1>4, <2>1 DEF EventContradicts, EventApplied
  <2>3. e.req > 0
    <3>1. e.req \in Nat
      BY EventFields
    <3> QED
      BY <1>4, <3>1, SMT
  <2>4. /\ Projects(ResultApplied(t, e, s, p), L \cup {e}, R)
        /\ ResultApplied(t, e, s, p).bars = t.bars
    <3>1. s <=> R[e.req].symbols
      BY <2>1
    <3>2. p <=> R[e.req].disposition = "COMPLETED" /\ R[e.req].scope
      BY <2>1
    <3>3. ~ResultContradicts(t, e)
      BY <2>2
    <3> QED
      BY <1>2, <2>3, <3>1, <3>2, <3>3, ResultProjects, SMT
  <2>5. Bar \notin DOMAIN e.rows
    BY <2>3, KeyKinds DEF IsEvent
  <2>6. BarsOf(t.bars, L) => BarsOf(t.bars, L \cup {e})
    BY <2>5, NoBarAdded
  <2> QED
    BY <1>1, <2>2, <2>4, <2>5, <2>6
<1> QED
  BY <1>3, <1>4

\* An event of a log that agrees contradicts nothing that part of the log has left.
LEMMA EventFits ==
    ASSUME TablesInv, SnapshotsAgree(log), NEW t, NEW L, Projects(t, L, runs), L \subseteq log,
           NEW e \in log, Bar \in DOMAIN e.rows => BarsOf(t.bars, L)
    PROVE  ~EventContradicts(t, e)
<1>1. PICK S, R, all : S = log /\ R = runs /\ all = tables.bars
  OBVIOUS
<1>2. /\ L \subseteq S /\ e \in S /\ AreEvents(S) /\ ObservationsAgree(S) /\ SnapshotsAgree(S)
      /\ BarsOf(all, S) /\ Projects(t, L, R)
  BY <1>1 DEF TablesInv
<1>3. AreEvents(L) /\ IsEvent(e)
  BY <1>2 DEF AreEvents
<1>4. CASE e.req = 0
  <2>1. PICK k \in Keys \cup {Bar} : DOMAIN e.rows = {k}
    BY <1>3, <1>4 DEF IsEvent
  <2>2. KeyOf(e) = k /\ k \in DOMAIN e.rows
    BY <2>1, OneKey
  <2>3. ~(k \in Snapshots /\ Contradicts(t.latest[k], e.at, e.rows[k]))
    BY <1>2, <1>3, <2>2, SnapshotFits
  <2>4. ASSUME k \in Members
        PROVE  /\ ~(e.at = Watermark(t, k) /\ ~IsMember(t, k, e.at, e.rows[k]))
               /\ ~(e.at > Watermark(t, k) /\ Contradicts(t.latest[k], e.at, e.rows[k]))
    BY <1>2, <1>3, <1>4, <2>1, <2>4, MemberFits
  <2>5. ~(k = Bar /\ t.bars[e.at] \notin {e.rows[k], Nothing})
    <3>1. SUFFICES ASSUME k = Bar PROVE t.bars[e.at] \in {e.rows[k], Nothing}
      OBVIOUS
    <3>2. PICK bars : bars = t.bars
      OBVIOUS
    <3>3. BarsOf(bars, L) /\ Bar \in DOMAIN e.rows
      BY <2>2, <3>1, <3>2
    <3>4. bars[e.at] \in {e.rows[Bar], Nothing}
      BY <1>2, <1>3, <3>3, BarFits
    <3> QED
      BY <3>1, <3>2, <3>4
  <2>6. ~FactContradicts(t, k, e.at, e.rows[k])
    BY <2>3, <2>4, <2>5 DEF FactContradicts
  <2> QED
    BY <1>4, <2>2, <2>6 DEF EventContradicts
<1>5. CASE e.req # 0
  <2>1. e.req > 0
    <3>1. e.req \in Nat
      BY <1>3, EventFields
    <3> QED
      BY <1>5, <3>1, SMT
  <2>2. ~ResultContradicts(t, e)
    BY <1>2, <1>3, <2>1, SetFits
  <2> QED
    BY <1>5, <2>2 DEF EventContradicts
<1> QED
  BY <1>4, <1>5

\* h[n] is what n events of S make of the tables start.
IsReplay(h, S, start, N) ==
    h = [n \in 0 .. N |-> IF n = 0 THEN [ok |-> TRUE, tables |-> start]
                          ELSE Replayed(h[n - 1], Nth(S, n))]

LEMMA ReplayExtends ==
    ASSUME NEW S, NEW start, NEW n \in Nat \ {0}, NEW h, IsReplay(h, S, start, n - 1)
    PROVE  \E g : IsReplay(g, S, start, n)
<1> DEFINE x == Replayed(h[n - 1], Nth(S, n))
           g == [m \in 0 .. n |-> IF m = n THEN x ELSE h[m]]
           Step(f, m) == IF m = 0 THEN [ok |-> TRUE, tables |-> start]
                         ELSE Replayed(f[m - 1], Nth(S, m))
<1>1. \A m \in 0 .. (n - 1) : h[m] = Step(h, m)
  BY DEF IsReplay
<1>2. ASSUME NEW m \in 0 .. n PROVE g[m] = Step(g, m)
  <2>1. CASE m = n
    <3>1. m # 0 /\ m - 1 \in 0 .. n /\ m - 1 # n
      BY <2>1, SMT
    <3>2. g[m - 1] = h[m - 1]
      BY <3>1
    <3>3. g[m] = x
      BY <2>1
    <3> QED
      BY <2>1, <3>1, <3>2, <3>3
  <2>2. CASE m # n
    <3>1. m \in 0 .. (n - 1) /\ (m # 0 => m - 1 \in 0 .. n /\ m - 1 # n)
      BY <2>2, SMT
    <3>2. g[m] = h[m] /\ (m # 0 => g[m - 1] = h[m - 1])
      BY <2>2, <3>1
    <3> QED
      BY <1>1, <3>1, <3>2
  <2> QED
    BY <2>1, <2>2
<1>3. g = [m \in 0 .. n |-> Step(g, m)]
  <2>1. g = [m \in 0 .. n |-> g[m]]
    OBVIOUS
  <2> HIDE DEF g
  <2> QED
    BY <1>2, <2>1
<1>4. IsReplay(g, S, start, n)
  <2> HIDE DEF g
  <2> QED
    BY <1>3 DEF IsReplay
<1> QED
  BY <1>4

LEMMA ReplaysExist ==
    ASSUME NEW S, NEW start, NEW N \in Nat
    PROVE  \E h : IsReplay(h, S, start, N)
<1> DEFINE G == {n \in Nat : \E h : IsReplay(h, S, start, n)}
<1>1. 0 \in G
  <2> DEFINE h == [n \in 0 .. 0 |-> [ok |-> TRUE, tables |-> start]]
  <2>1. \A n \in 0 .. 0 : n = 0
    BY SMT
  <2>2. h = [n \in 0 .. 0 |-> IF n = 0 THEN [ok |-> TRUE, tables |-> start]
                              ELSE Replayed(h[n - 1], Nth(S, n))]
    BY <2>1
  <2>3. IsReplay(h, S, start, 0)
    <3> HIDE DEF h
    <3> QED
      BY <2>2 DEF IsReplay
  <2>4. 0 \in Nat
    BY SMT
  <2> QED
    BY <2>3, <2>4
<1>2. ASSUME NEW n \in 1 .. N, n - 1 \in G PROVE n \in G
  <2>1. n \in Nat \ {0}
    BY SMT
  <2>2. PICK h : IsReplay(h, S, start, n - 1)
    BY <1>2
  <2> QED
    BY <2>1, <2>2, ReplayExtends
<1>3. 0 .. N \subseteq G
  <2> HIDE DEF G
  <2> QED
    BY <1>1, <1>2, Induction
<1>4. N \in 0 .. N
  BY SMT
<1> QED
  BY <1>3, <1>4

\* What a replay returns.
LEMMA ReplayIsLast ==
    ASSUME NEW S, IsFiniteSet(S), NEW start
    PROVE  \E h : IsReplay(h, S, start, Cardinality(S)) /\ Replay(S, start) = h[Cardinality(S)]
<1>1. Cardinality(S) \in Nat
  BY FS_CardinalityType
<1>2. PICK N : N = Cardinality(S)
  OBVIOUS
<1> DEFINE h == CHOOSE f : IsReplay(f, S, start, Cardinality(S))
<1>3. IsReplay(h, S, start, Cardinality(S))
  <2>1. \E f : IsReplay(f, S, start, Cardinality(S))
    BY <1>1, ReplaysExist
  <2> QED
    BY <2>1
<1>4. Replay(S, start) = h[Cardinality(S)]
  BY DEF Replay, IsReplay
<1> QED
  BY <1>3, <1>4

HasNoBars(S) == \A e \in S : Bar \notin DOMAIN e.rows

\* The replay of S from cleared tables with the bars b has the events P behind it.
Restores(t, b, S, P) ==
    /\ Projects(t, P, runs)
    /\ BarsOf(b, {}) => BarsOf(t.bars, P)
    /\ HasNoBars(S) => t.bars = b

\* One step of a replay.
LEMMA ReplayedRestores ==
    ASSUME NEW S, AreEvents(S), NEW b, NEW P, P \subseteq S, NEW e \in S,
           NEW x, x.ok => Restores(x.tables, b, S, P), Replayed(x, e).ok
    PROVE  Restores(Replayed(x, e).tables, b, S, P \cup {e})
<1>1. PICK y : y = Replayed(x, e)
  OBVIOUS
<1>2. x.ok /\ ~EventContradicts(x.tables, e)
  <2>1. SUFFICES ASSUME ~x.ok \/ EventContradicts(x.tables, e) PROVE FALSE
    OBVIOUS
  <2>2. Replayed(x, e) = [ok |-> FALSE, tables |-> x.tables]
    BY <2>1 DEF Replayed
  <2>3. Replayed(x, e).ok = FALSE
    BY <2>2, SMT
  <2> QED
    BY <2>3
<1>3. y = [ok |-> TRUE, tables |-> EventApplied(x.tables, e)]
  BY <1>1, <1>2 DEF Replayed
<1>4. PICK t, u : t = x.tables /\ u = EventApplied(t, e)
  OBVIOUS
<1>5. y.tables = u
  BY <1>3, <1>4
<1>6. Restores(t, b, S, P) /\ ~EventContradicts(t, e)
  BY <1>2, <1>4
<1>7. Projects(t, P, runs) /\ AreEvents(P) /\ IsEvent(e)
  BY <1>6 DEF Restores, AreEvents
<1>8. /\ Projects(u, P \cup {e}, runs)
      /\ Bar \notin DOMAIN e.rows => u.bars = t.bars
      /\ BarsOf(t.bars, P) => BarsOf(u.bars, P \cup {e})
  BY <1>4, <1>6, <1>7, EventWrites
<1>9. Restores(u, b, S, P \cup {e})
  BY <1>6, <1>8 DEF Restores, HasNoBars
<1> QED
  BY <1>1, <1>5, <1>9

LEMMA ReplayedFits ==
    ASSUME TablesInv, SnapshotsAgree(log), NEW S, S \subseteq log, NEW b,
           BarsOf(b, {}) \/ HasNoBars(S), NEW P, P \subseteq S, NEW e \in S,
           NEW x, x.ok, Restores(x.tables, b, S, P)
    PROVE  Replayed(x, e).ok
<1>1. PICK t : t = x.tables
  OBVIOUS
<1>2. Projects(t, P, runs) /\ P \subseteq log /\ e \in log
  BY <1>1 DEF Restores
<1>3. Bar \in DOMAIN e.rows => BarsOf(t.bars, P)
  BY <1>1 DEF Restores, HasNoBars
<1>4. ~EventContradicts(t, e)
  BY <1>2, <1>3, EventFits
<1>5. Replayed(x, e) = [ok |-> TRUE, tables |-> EventApplied(t, e)]
  BY <1>1, <1>4 DEF Replayed
<1>6. Replayed(x, e).ok = TRUE
  BY <1>5, SMT
<1> QED
  BY <1>6

\* The steps of a replay.
LEMMA ReplaySteps ==
    ASSUME NEW S, IsFiniteSet(S), NEW start, NEW h, IsReplay(h, S, start, Cardinality(S))
    PROVE  /\ h[0] = [ok |-> TRUE, tables |-> start]
           /\ \A n \in 1 .. Cardinality(S) : h[n] = Replayed(h[n - 1], Nth(S, n))
<1>1. PICK N : N = Cardinality(S)
  OBVIOUS
<1>2. N \in Nat
  BY <1>1, FS_CardinalityType
<1>3. 0 \in 0 .. N /\ \A n \in 1 .. N : n \in 0 .. N /\ n # 0
  BY <1>2, SMT
<1>4. \A n \in 0 .. N : h[n] = IF n = 0 THEN [ok |-> TRUE, tables |-> start]
                               ELSE Replayed(h[n - 1], Nth(S, n))
  BY <1>1 DEF IsReplay
<1> QED
  BY <1>1, <1>3, <1>4

\* A replay that succeeds leaves the tables of its events.
LEMMA ReplayRestores ==
    ASSUME NEW S, IsHistory(S), NEW b, Replay(S, Cleared(b)).ok
    PROVE  Restores(Replay(S, Cleared(b)).tables, b, S, S)
<1>1. IsFiniteSet(S) /\ AreEvents(S)
  BY DEF IsHistory
<1>2. PICK N, start : N = Cardinality(S) /\ start = Cleared(b)
  OBVIOUS
<1>3. PICK h : IsReplay(h, S, start, Cardinality(S)) /\ Replay(S, start) = h[Cardinality(S)]
  BY <1>1, ReplayIsLast
<1>4. /\ h[0] = [ok |-> TRUE, tables |-> start]
      /\ \A n \in 1 .. N : h[n] = Replayed(h[n - 1], Nth(S, n))
  <2>1. /\ h[0] = [ok |-> TRUE, tables |-> start]
        /\ \A n \in 1 .. Cardinality(S) : h[n] = Replayed(h[n - 1], Nth(S, n))
    <3>1. IsReplay(h, S, start, Cardinality(S))
      BY <1>3
    <3> QED
      BY <1>1, <3>1, ReplaySteps, SMT
  <2> QED
    BY <1>2, <2>1
<1>5. N \in Nat
  BY <1>1, <1>2, FS_CardinalityType
<1> DEFINE G == {n \in Nat : h[n].ok => Restores(h[n].tables, b, S, Prefix(S, n))}
<1>6. 0 \in G
  <2>1. h[0].tables = start
    BY <1>4, SMT
  <2>2. Projects(start, {}, runs) /\ start.bars = b
    BY <1>2, EmptyProjects
  <2>3. Restores(start, b, S, {})
    BY <2>2 DEF Restores
  <2>4. 0 \in Nat /\ Prefix(S, 0) = {}
    BY PrefixEnds, SMT
  <2> QED
    BY <2>1, <2>3, <2>4
<1>7. ASSUME NEW n \in 1 .. N, n - 1 \in G PROVE n \in G
  <2>1. PICK x, y, e, P : /\ x = h[n - 1] /\ y = h[n] /\ e = Nth(S, n)
                          /\ P = Prefix(S, n - 1)
    OBVIOUS
  <2>2. y = Replayed(x, e) /\ (x.ok => Restores(x.tables, b, S, P))
    BY <1>4, <1>7, <2>1
  <2>3. e \in S /\ Prefix(S, n) = P \cup {e}
    BY <1>2, <2>1, PrefixGrows
  <2>4. P \subseteq S
    BY <2>1 DEF Prefix
  <2>5. ASSUME y.ok PROVE Restores(y.tables, b, S, P \cup {e})
    BY <1>1, <2>2, <2>3, <2>4, <2>5, ReplayedRestores
  <2>6. n \in Nat
    BY <1>5, SMT
  <2> QED
    BY <2>1, <2>3, <2>5, <2>6
<1>8. 0 .. N \subseteq G
  <2> HIDE DEF G
  <2> QED
    BY <1>5, <1>6, <1>7, Induction
<1>9. N \in G
  <2>1. N \in 0 .. N
    BY <1>5, SMT
  <2> QED
    BY <1>8, <2>1
<1>10. Prefix(S, N) = S
  BY <1>2, PrefixEnds
<1> QED
  BY <1>2, <1>3, <1>9, <1>10

\* A replay of a log that agrees succeeds.
LEMMA ReplayFits ==
    ASSUME TablesInv, SnapshotsAgree(log), NEW S, IsHistory(S), S \subseteq log, NEW b,
           BarsOf(b, {}) \/ HasNoBars(S)
    PROVE  Replay(S, Cleared(b)).ok
<1>1. IsFiniteSet(S) /\ AreEvents(S)
  BY DEF IsHistory
<1>2. PICK N, start : N = Cardinality(S) /\ start = Cleared(b)
  OBVIOUS
<1>3. PICK h : IsReplay(h, S, start, Cardinality(S)) /\ Replay(S, start) = h[Cardinality(S)]
  BY <1>1, ReplayIsLast
<1>4. /\ h[0] = [ok |-> TRUE, tables |-> start]
      /\ \A n \in 1 .. N : h[n] = Replayed(h[n - 1], Nth(S, n))
  <2>1. /\ h[0] = [ok |-> TRUE, tables |-> start]
        /\ \A n \in 1 .. Cardinality(S) : h[n] = Replayed(h[n - 1], Nth(S, n))
    <3>1. IsReplay(h, S, start, Cardinality(S))
      BY <1>3
    <3> QED
      BY <1>1, <3>1, ReplaySteps, SMT
  <2> QED
    BY <1>2, <2>1
<1>5. N \in Nat
  BY <1>1, <1>2, FS_CardinalityType
<1> DEFINE G == {n \in Nat : h[n].ok /\ Restores(h[n].tables, b, S, Prefix(S, n))}
<1>6. 0 \in G
  <2>1. h[0].tables = start /\ h[0].ok = TRUE
    BY <1>4, SMT
  <2>2. Projects(start, {}, runs) /\ start.bars = b
    BY <1>2, EmptyProjects
  <2>3. Restores(start, b, S, {})
    BY <2>2 DEF Restores
  <2>4. 0 \in Nat /\ Prefix(S, 0) = {}
    BY PrefixEnds, SMT
  <2> QED
    BY <2>1, <2>3, <2>4
<1>7. ASSUME NEW n \in 1 .. N, n - 1 \in G PROVE n \in G
  <2>1. PICK x, y, e, P : /\ x = h[n - 1] /\ y = h[n] /\ e = Nth(S, n)
                          /\ P = Prefix(S, n - 1)
    OBVIOUS
  <2>2. y = Replayed(x, e) /\ x.ok /\ Restores(x.tables, b, S, P)
    BY <1>4, <1>7, <2>1
  <2>3. e \in S /\ Prefix(S, n) = P \cup {e}
    BY <1>2, <2>1, PrefixGrows
  <2>4. P \subseteq S
    BY <2>1 DEF Prefix
  <2>5. y.ok
    BY <2>2, <2>3, <2>4, ReplayedFits
  <2>6. Restores(y.tables, b, S, P \cup {e})
    BY <1>1, <2>2, <2>3, <2>4, <2>5, ReplayedRestores
  <2>7. n \in Nat
    BY <1>5, SMT
  <2> QED
    BY <2>1, <2>3, <2>5, <2>6, <2>7
<1>8. 0 .. N \subseteq G
  <2> HIDE DEF G
  <2> QED
    BY <1>5, <1>6, <1>7, Induction
<1>9. N \in G
  <2>1. N \in 0 .. N
    BY <1>5, SMT
  <2> QED
    BY <1>8, <2>1
<1> QED
  BY <1>2, <1>3, <1>9

-----------------------------------------------------------------------------
\* The rebuild.

\* The events that are replayed over the account's tables.
Replayable(L) == {e \in L : ~IsBar(e)}

LEMMA ReplayableHasNoBars ==
    ASSUME NEW L, AreEvents(L)
    PROVE  HasNoBars(Replayable(L)) /\ \A e \in L : Bar \in DOMAIN e.rows <=> IsBar(e)
<1>1. ASSUME NEW e \in L PROVE Bar \in DOMAIN e.rows <=> IsBar(e)
  <2>1. e.req = 0 \/ e.req > 0
    <3>1. e.req \in Nat
      BY EventFields DEF AreEvents
    <3> QED
      BY <3>1, SMT
  <2>2. IsEvent(e)
    BY DEF AreEvents
  <2>3. CASE e.req = 0
    BY <2>2, <2>3 DEF IsEvent, IsBar
  <2>4. CASE e.req > 0
    <3>1. Bar \notin DOMAIN e.rows
      BY <2>2, <2>4, KeyKinds DEF IsEvent
    <3> QED
      BY <3>1 DEF IsBar
  <2> QED
    BY <2>1, <2>3, <2>4
<1> QED
  BY <1>1 DEF HasNoBars, Replayable

\* The bars make no difference to the other tables.
LEMMA ReplayableProjects ==
    ASSUME NEW t, NEW L, NEW R, AreEvents(L), Projects(t, Replayable(L), R)
    PROVE  Projects(t, L, R)
<1>1. PICK M : M = Replayable(L)
  OBVIOUS
<1>2. \A e \in L : e \notin M => DOMAIN e.rows = {Bar}
  BY <1>1 DEF Replayable, IsBar
<1>3. M \subseteq L
  BY <1>1 DEF Replayable
<1>4. Results(M) = Results(L)
  <2>1. ASSUME NEW e \in Results(L) PROVE e \in M
    <3>1. e \in L /\ e.req > 0
      BY DEF Results
    <3>2. Bar \notin DOMAIN e.rows
      BY <3>1, KeyKinds DEF AreEvents, IsEvent
    <3> QED
      BY <1>2, <3>1, <3>2
  <2> QED
    BY <1>3, <2>1 DEF Results
<1>5. ASSUME NEW k \in Keys PROVE Observations(k, M) = Observations(k, L)
  <2>1. \A e : Counts(e, k, M) <=> Counts(e, k, L)
    BY <1>4 DEF Counts, IsLastSet
  <2>2. \A e \in L : Counts(e, k, L) => e \in M
    BY <1>2, KeyKinds DEF Counts
  <2>3. {f \in M : Counts(f, k, M)} = {f \in L : Counts(f, k, L)}
    BY <1>3, <2>1, <2>2
  <2> QED
    BY <2>3 DEF Observations
<1>6. CheckpointOf(t.checkpoint, L, R)
  <2>1. PICK c : c = t.checkpoint
    OBVIOUS
  <2>2. CheckpointOf(c, M, R)
    BY <1>1, <2>1 DEF Projects
  <2> QED
    BY <1>4, <2>1, <2>2, CheckpointOfResults
<1>7. \A k \in Keys : IsNewestOf(t.latest[k], Observations(k, L))
  BY <1>1, <1>5 DEF Projects
<1> QED
  BY <1>6, <1>7 DEF Projects

LEMMA SinglesBars ==
    ASSUME TablesInv, NEW bars, BarsOf(bars, Singles)
    PROVE  BarsOf(bars, log)
<1>1. PICK L, M : L = log /\ M = Singles
  OBVIOUS
<1>2. AreEvents(L) /\ M = {e \in L : e.req = 0}
  BY <1>1 DEF TablesInv, Singles
<1>3. ASSUME NEW e \in L, Bar \in DOMAIN e.rows PROVE e.req = 0
  <2>1. e.req = 0 \/ e.req > 0
    <3>1. e.req \in Nat
      BY <1>2, EventFields DEF AreEvents
    <3> QED
      BY <3>1, SMT
  <2> QED
    BY <1>2, <1>3, <2>1, KeyKinds DEF AreEvents, IsEvent
<1>4. ASSUME NEW at PROVE BarsAt(at, M) = BarsAt(at, L)
  <2>1. {f \in M : Bar \in DOMAIN f.rows /\ f.at = at}
          = {f \in L : Bar \in DOMAIN f.rows /\ f.at = at}
    BY <1>2, <1>3
  <2> QED
    BY <2>1 DEF BarsAt
<1> QED
  BY <1>1, <1>4 DEF BarsOf

\* Part of the log is a history.
LEMMA LogIsHistory ==
    ASSUME TablesInv, NEW S, S \subseteq log
    PROVE  IsHistory(S)
<1>1. IsFiniteSet(S)
  BY FS_Subset DEF TablesInv
<1> QED
  BY <1>1 DEF TablesInv, IdsAreUnique, IsHistory, AreEvents

\* A replay over cleared account tables gives the tables, with the bars it began with.
LEMMA AccountReplay ==
    ASSUME TablesInv, NEW b, Replay(Replayable(log), Cleared(b)).ok, b = tables.bars
    PROVE  Replay(Replayable(log), Cleared(b)).tables = tables
<1>1. PICK S, L, R, t, u : /\ S = Replayable(log) /\ L = log /\ R = runs /\ t = tables
                           /\ u = Replay(S, Cleared(b)).tables
  OBVIOUS
<1>2. S \subseteq log
  BY <1>1 DEF Replayable
<1>3. IsHistory(S)
  BY <1>2, LogIsHistory
<1>4. Replay(S, Cleared(b)).ok
  BY <1>1
<1>5. Restores(Replay(S, Cleared(b)).tables, b, S, S)
  BY <1>3, <1>4, ReplayRestores
<1>6. Restores(u, b, S, S)
  BY <1>1, <1>5
<1>7. AreEvents(L) /\ Projects(t, L, R)
  BY <1>1 DEF TablesInv
<1>8. HasNoBars(S)
  BY <1>1, <1>7, ReplayableHasNoBars
<1>9. u.bars = t.bars /\ Projects(u, Replayable(L), R)
  BY <1>1, <1>6, <1>8 DEF Restores
<1>10. Projects(u, L, R)
  BY <1>7, <1>9, ReplayableProjects
<1>11. u = t
  BY <1>7, <1>9, <1>10, ProjectionIsUnique
<1> QED
  BY <1>1, <1>11

\* The first pass restores the bars.
LEMMA IngestedBars ==
    ASSUME TablesInv, Ingested.ok
    PROVE  Ingested.tables.bars = tables.bars
<1>1. PICK S, b, t : /\ S = Singles /\ b = EmptyTables.bars /\ t = Ingested.tables
  OBVIOUS
<1>2. Cleared(b) = EmptyTables
  BY <1>1 DEF Cleared, EmptyTables
<1>3. IsHistory(S)
  <2>1. S \subseteq log
    BY <1>1 DEF Singles
  <2> QED
    BY <2>1, LogIsHistory
<1>4. Ingested = Replay(S, Cleared(b))
  BY <1>1, <1>2 DEF Ingested
<1>5. Replay(S, Cleared(b)).ok
  BY <1>4
<1>6. Restores(Replay(S, Cleared(b)).tables, b, S, S)
  BY <1>3, <1>5, ReplayRestores
<1>7. Restores(t, b, S, S)
  BY <1>1, <1>4, <1>6
<1>8. BarsOf(t.bars, Singles)
  BY <1>1, <1>7, EmptyBars DEF Restores
<1>9. PICK x, y, L : x = t.bars /\ y = tables.bars /\ L = log
  OBVIOUS
<1>10. BarsOf(x, L) /\ BarsOf(y, L)
  <2>1. BarsOf(x, Singles)
    BY <1>8, <1>9
  <2>2. BarsOf(x, log)
    BY <2>1, SinglesBars
  <2> QED
    BY <1>9, <2>2 DEF TablesInv
<1>11. x = y
  BY <1>10, BarsAreUnique
<1> QED
  BY <1>1, <1>9, <1>11

\* Both rebuilds give the tables back, and the log alone decides whether they can.
LEMMA RebuildReproduces ==
    ASSUME TablesInv
    PROVE  RebuildReproducesTables
<1>1. \A b : Replay({e \in log : ~IsBar(e)}, Cleared(b)) = Replay(Replayable(log), Cleared(b))
  BY DEF Replayable
<1>2. ASSUME Ingested.ok, Rebuilt.ok PROVE Rebuilt.tables = tables
  <2>1. PICK b : b = Ingested.tables.bars
    OBVIOUS
  <2>2. b = tables.bars
    BY <1>2, <2>1, IngestedBars
  <2>3. Rebuilt = Replay(Replayable(log), Cleared(b))
    BY <1>1, <2>1 DEF Rebuilt
  <2>4. Replay(Replayable(log), Cleared(b)).ok
    BY <1>2, <2>3
  <2>5. Replay(Replayable(log), Cleared(b)).tables = tables
    BY <2>2, <2>4, AccountReplay
  <2> QED
    BY <2>3, <2>5
<1>3. ASSUME AccountRebuilt.ok PROVE AccountRebuilt.tables = tables
  <2>1. PICK b : b = tables.bars
    OBVIOUS
  <2>2. AccountRebuilt = Replay(Replayable(log), Cleared(b))
    BY <1>1, <2>1 DEF AccountRebuilt
  <2>3. Replay(Replayable(log), Cleared(b)).ok
    BY <1>3, <2>2
  <2>4. Replay(Replayable(log), Cleared(b)).tables = tables
    BY <2>1, <2>3, AccountReplay
  <2> QED
    BY <2>2, <2>4
<1>4. ASSUME ~SnapshotsDisagree PROVE Ingested.ok /\ Rebuilt.ok
  <2>1. SnapshotsAgree(log)
    BY <1>4 DEF SnapshotsDisagree, SnapshotsAgree
  <2>2. Ingested.ok
    <3>1. PICK S, b : S = Singles /\ b = EmptyTables.bars
      OBVIOUS
    <3>2. Cleared(b) = EmptyTables
      BY <3>1 DEF Cleared, EmptyTables
    <3>3. S \subseteq log /\ BarsOf(b, {})
      BY <3>1, EmptyBars DEF Singles
    <3>4. IsHistory(S)
      BY <3>3, LogIsHistory
    <3>5. Replay(S, Cleared(b)).ok
      BY <2>1, <3>3, <3>4, ReplayFits
    <3> QED
      BY <3>1, <3>2, <3>5 DEF Ingested
  <2>3. Rebuilt.ok
    <3>1. PICK S, b : S = Replayable(log) /\ b = Ingested.tables.bars
      OBVIOUS
    <3>2. S \subseteq log /\ HasNoBars(S)
      BY <3>1, ReplayableHasNoBars DEF Replayable, TablesInv
    <3>3. IsHistory(S)
      BY <3>2, LogIsHistory
    <3>4. Replay(S, Cleared(b)).ok
      BY <2>1, <3>2, <3>3, ReplayFits
    <3> QED
      BY <1>1, <3>1, <3>4 DEF Rebuilt
  <2> QED
    BY <2>2, <2>3
<1> QED
  BY <1>2, <1>3, <1>4 DEF RebuildReproducesTables

\* A rebuild changes nothing that a live write could see.
LEMMA RebuildIsStep ==
    ASSUME TablesInv, [RebuildNext]_vars
    PROVE  [Next]_vars
<1>1. /\ Ingested.ok /\ Rebuilt.ok => Rebuilt.tables = tables
      /\ AccountRebuilt.ok => AccountRebuilt.tables = tables
  BY RebuildReproduces DEF RebuildReproducesTables
<1>2. CASE RebuildIngestProjections
  BY <1>1, <1>2 DEF RebuildIngestProjections, vars, reconVars
<1>3. CASE \E r \in Requests : RepeatResult(r)
  BY <1>1, <1>3 DEF RepeatResult, vars, reconVars
<1> QED
  BY <1>2, <1>3 DEF RebuildNext

\* Rebuilding the projections and repeating a result are invisible: with them, the
\* store goes through the states that the live writes alone go through
\* (rebuild_ingest_projections, commit_reconciliation_result_on).
THEOREM RebuildIsInvisible == RebuildSpec => Spec
<1>1. TablesInv /\ RunsInv /\ [RebuildNext]_vars => TablesInv' /\ RunsInv'
  BY RebuildIsStep, TablesStep, RunsStep
<1>2. TablesInv /\ [RebuildNext]_vars => [Next]_vars
  BY RebuildIsStep
<1>3. Init => TablesInv /\ RunsInv
  BY TablesInit, RunsInit
<1> QED
  BY <1>1, <1>2, <1>3, PTL DEF RebuildSpec, Spec

\* A rebuild that succeeds restores exactly the tables that the live writes left,
\* and only two account or symbol observations of one moment can make it fail.
THEOREM RebuildIsFaithful == RebuildSpec => []RebuildReproducesTables
<1>1. TablesInv => RebuildReproducesTables
  BY RebuildReproduces
<1> QED
  BY <1>1, RebuildIsInvisible, TablesInvariant, PTL

-----------------------------------------------------------------------------
\* The watermarks, the rows and the runs.

\* Times of the checkpoint are times or Never.
CheckpointTyped(c) ==
    /\ c.at \in Int /\ c.account \in Int /\ c.symbols \in Int
    /\ c.pending \in Int /\ c.updated \in Int
    /\ c.watermark \in [Kinds -> Int]

LEMMA LaterIsMax ==
    ASSUME NEW a \in Int, NEW b \in Int
    PROVE  Later(a, b) \in Int /\ Later(a, b) >= a /\ Later(a, b) >= b
           /\ Later(a, b) \in {a, b}
BY SMT DEF Later

\* A time that is kept or moved to the later one does not move back.
LEMMA KeptOrLater ==
    ASSUME NEW a \in Int, NEW b \in Int, NEW d, d \in {a, Later(a, b)}
    PROVE  d \in Int /\ d >= a
BY SMT DEF Later

\* What advance_checkpoint does to the times of the checkpoint.
LEMMA CheckpointMoves ==
    ASSUME NEW c, CheckpointTyped(c), NEW e \in Event, NEW symbols, NEW pending,
           NEW d, d = CheckpointAfterResult(c, e, symbols, pending)
    PROVE  /\ CheckpointTyped(d)
           /\ d.at >= c.at /\ d.account >= c.account /\ d.symbols >= c.symbols
           /\ d.pending >= c.pending /\ d.updated >= c.updated
           /\ \A kind \in Kinds : /\ d.watermark[kind] = Later(c.watermark[kind], e.at)
                                  /\ d.watermark[kind] >= c.watermark[kind]
<1>1. e.at \in Int /\ e.received \in Int
  <2>1. e.at \in Nat
    BY TimesAreStored DEF Event
  <2>2. e.received \in Nat
    BY TimesAreStored DEF Event
  <2> QED
    BY <2>1, <2>2, SMT
<1>2. /\ c.at \in Int /\ c.account \in Int /\ c.symbols \in Int
      /\ c.pending \in Int /\ c.updated \in Int /\ \A kind \in Kinds : c.watermark[kind] \in Int
  BY DEF CheckpointTyped
<1>3. \A kind \in Kinds : /\ Later(c.watermark[kind], e.at) \in Int
                          /\ Later(c.watermark[kind], e.at) >= c.watermark[kind]
  BY <1>1, <1>2, LaterIsMax
<1>4. /\ Later(c.at, e.at) \in Int /\ Later(c.at, e.at) >= c.at
      /\ Later(c.account, e.at) \in Int /\ Later(c.account, e.at) >= c.account
      /\ Later(c.symbols, e.at) \in Int /\ Later(c.symbols, e.at) >= c.symbols
      /\ Later(c.pending, e.at) \in Int /\ Later(c.pending, e.at) >= c.pending
      /\ Later(c.updated, e.received) \in Int /\ Later(c.updated, e.received) >= c.updated
  BY <1>1, <1>2, LaterIsMax
<1>5. d.at = Later(c.at, e.at) /\ d.updated = Later(c.updated, e.received)
  BY DEF CheckpointAfterResult
<1>6. d.account \in {c.account, Later(c.account, e.at)}
  BY DEF CheckpointAfterResult
<1>7. d.symbols \in {c.symbols, Later(c.symbols, e.at)}
  BY DEF CheckpointAfterResult
<1>8. d.pending \in {c.pending, Later(c.pending, e.at)}
  BY DEF CheckpointAfterResult
<1>9. d.watermark = [kind \in Kinds |-> Later(c.watermark[kind], e.at)]
  BY DEF CheckpointAfterResult
<1>10. d.watermark \in [Kinds -> Int]
  BY <1>3, <1>9
<1>11. CheckpointTyped(d)
  <2>1. d.at \in Int /\ d.updated \in Int
    BY <1>4, <1>5
  <2>2. d.account \in Int /\ d.symbols \in Int /\ d.pending \in Int
    BY <1>1, <1>2, <1>6, <1>7, <1>8, KeptOrLater
  <2> QED
    BY <1>10, <2>1, <2>2 DEF CheckpointTyped
<1>12. /\ d.at >= c.at /\ d.account >= c.account /\ d.symbols >= c.symbols
       /\ d.pending >= c.pending /\ d.updated >= c.updated
  <2>1. d.at >= c.at /\ d.updated >= c.updated
    BY <1>2, <1>4, <1>5
  <2>2. d.account >= c.account
    BY <1>1, <1>2, <1>6, KeptOrLater
  <2>3. d.symbols >= c.symbols
    BY <1>1, <1>2, <1>7, KeptOrLater
  <2>4. d.pending >= c.pending
    BY <1>1, <1>2, <1>8, KeptOrLater
  <2> QED
    BY <2>1, <2>2, <2>3, <2>4
<1>13. \A kind \in Kinds : /\ d.watermark[kind] = Later(c.watermark[kind], e.at)
                           /\ d.watermark[kind] >= c.watermark[kind]
  BY <1>3, <1>9
<1> QED
  BY <1>11, <1>12, <1>13

LEMMA CheckpointIsTyped ==
    ASSUME TablesInv
    PROVE  CheckpointTyped(tables.checkpoint)
<1>1. PICK c, L, R : c = tables.checkpoint /\ L = log /\ R = runs
  OBVIOUS
<1>2. CheckpointOf(c, L, R) /\ AreEvents(L)
  BY <1>1 DEF TablesInv, Projects
<1>3. ASSUME NEW S, S \subseteq Results(L), NEW x, IsLatest(x, {e.at : e \in S})
      PROVE  x \in Int
  <2>1. PICK T : T = {e.at : e \in S}
    OBVIOUS
  <2>2. T \subseteq Nat
    <3>1. S \subseteq L
      BY <1>3 DEF Results
    <3> QED
      BY <1>2, <2>1, <3>1, TimesOfEvents
  <2>3. IsLatest(x, T)
    BY <1>3, <2>1
  <2> QED
    BY <2>2, <2>3, LatestIsInt
<1>4. /\ Results(L) \subseteq Results(L) /\ ByAccount(L) \subseteq Results(L)
      /\ BySymbols(L, R) \subseteq Results(L) /\ ByCommands(L, R) \subseteq Results(L)
  BY DEF ByAccount, BySymbols, ByCommands
<1>5. /\ IsLatest(c.at, {e.at : e \in Results(L)})
      /\ IsLatest(c.account, {e.at : e \in ByAccount(L)})
      /\ IsLatest(c.symbols, {e.at : e \in BySymbols(L, R)})
      /\ IsLatest(c.pending, {e.at : e \in ByCommands(L, R)})
  BY <1>2 DEF CheckpointOf
<1>6. c.at \in Int /\ c.account \in Int /\ c.symbols \in Int /\ c.pending \in Int
  BY <1>3, <1>4, <1>5
<1>7. c.updated \in Int
  <2>1. PICK T, x : T = {e.received : e \in Results(L)} /\ x = c.updated
    OBVIOUS
  <2>2. T \subseteq Nat
    <3>1. Results(L) \subseteq L
      BY DEF Results
    <3> QED
      BY <1>2, <2>1, <3>1, TimesOfEvents
  <2>3. IsLatest(x, T)
    BY <1>2, <2>1 DEF CheckpointOf
  <2>4. x \in Int
    BY <2>2, <2>3, LatestIsInt
  <2> QED
    BY <2>1, <2>4
<1>8. c.watermark = [kind \in Kinds |-> c.at]
  BY <1>2, SMT DEF CheckpointOf
<1>9. c.watermark \in [Kinds -> Int]
  BY <1>6, <1>8
<1> QED
  BY <1>1, <1>6, <1>7, <1>9 DEF CheckpointTyped

\* The checkpoint moves with a result, and only then.
LEMMA CheckpointSteps ==
    ASSUME [Next]_vars
    PROVE  \/ tables'.checkpoint = tables.checkpoint
           \/ \E e \in Event : \E symbols, pending :
                 tables'.checkpoint = CheckpointAfterResult(tables.checkpoint, e, symbols, pending)
<1>1. CASE UNCHANGED <<log, tables, runs>>
  BY <1>1
<1>2. ASSUME NEW e \in Facts, Ingest(e)
      PROVE  tables'.checkpoint = tables.checkpoint
  <2>1. tables' = FactApplied(tables, KeyOf(e), e.at, e.rows[KeyOf(e)])
    BY <1>2 DEF Ingest
  <2> QED
    BY <2>1 DEF FactApplied, WithBar, WithRow
<1>3. ASSUME NEW e \in Event, NEW u, NEW s, CommitResult(e.req, e, u, s)
      PROVE  \E pending : tables'.checkpoint
                            = CheckpointAfterResult(tables.checkpoint, e, s, pending)
  <2>1. PICK pending : tables' = ResultApplied(tables, e, s, pending)
    BY <1>3 DEF CommitResult
  <2>2. tables'.checkpoint = CheckpointAfterResult(tables.checkpoint, e, s, pending)
    BY <2>1 DEF ResultApplied
  <2> QED
    BY <2>2
<1>4. CASE \E r \in Requests : CreateRun(r, OpenedAt(r))
  BY <1>4 DEF CreateRun
<1>5. CASE \E r \in Requests, t \in Escalations : Escalate(r, t.at, t.updated)
  BY <1>5 DEF Escalate
<1> QED
  BY <1>1, <1>2, <1>3, <1>4, <1>5, Steps

Forward(c, d) ==
    /\ d.at >= c.at /\ d.account >= c.account /\ d.symbols >= c.symbols
    /\ d.pending >= c.pending /\ d.updated >= c.updated
    /\ \A kind \in Kinds : d.watermark[kind] >= c.watermark[kind]

LEMMA CheckpointForward ==
    ASSUME TablesInv, [Next]_vars
    PROVE  Forward(tables.checkpoint, tables'.checkpoint)
<1>1. PICK c, d : c = tables.checkpoint /\ d = tables'.checkpoint
  OBVIOUS
<1>2. CheckpointTyped(c)
  BY <1>1, CheckpointIsTyped
<1>3. CASE d = c
  <2>1. Forward(c, c)
    BY <1>2, SMT DEF Forward, CheckpointTyped
  <2> QED
    BY <1>1, <1>3, <2>1
<1>4. ASSUME NEW e \in Event, NEW s, NEW p, d = CheckpointAfterResult(c, e, s, p)
      PROVE  Forward(c, d)
  BY <1>2, <1>4, CheckpointMoves DEF Forward
<1> QED
  BY <1>1, <1>3, <1>4, CheckpointSteps

\* No write, a rebuild included, moves a watermark of the account back.
THEOREM WatermarksAdvance == RebuildSpec => WatermarksNeverRegress
<1>1. TablesInv /\ [Next]_vars =>
        [LET c == tables.checkpoint
             d == tables'.checkpoint
         IN  /\ d.at >= c.at /\ d.account >= c.account /\ d.symbols >= c.symbols
             /\ d.pending >= c.pending /\ d.updated >= c.updated
             /\ \A kind \in Kinds : d.watermark[kind] >= c.watermark[kind]]_vars
  BY CheckpointForward DEF Forward
<1> QED
  BY <1>1, RebuildIsInvisible, TablesInvariant, PTL DEF Spec, WatermarksNeverRegress

\* For every order of arrival the projection holds the newest observation that
\* counts, which no other contradicts, and no row for a key without one.
THEOREM LatestAlwaysNewest == RebuildSpec => []LatestIsNewest
<1>1. TablesInv => LatestIsNewest
  BY DEF TablesInv, Projects, LatestIsNewest
<1> QED
  BY <1>1, RebuildIsInvisible, TablesInvariant, PTL

\* A run takes one result, and a completed or escalated run is final.
THEOREM RunsAdvance == RebuildSpec => RunsOnlyAdvance
<1>1. RunsInv /\ [Next]_vars =>
        [\A r \in Requests :
            /\ runs[r].result # 0 => runs'[r].result = runs[r].result
            /\ runs[r].status \in {"COMPLETED", "MANUAL"} => runs'[r] = runs[r]
            /\ runs[r].status # "NONE" => runs'[r].status # "NONE"]_vars
  BY RunsStep DEF RunForward
<1> QED
  BY <1>1, RebuildIsInvisible, RunsInvariant, PTL DEF Spec, RunsOnlyAdvance

-----------------------------------------------------------------------------
\* Redelivery.

LEMMA RedeliveryFits ==
    ASSUME TablesInv, NEW e \in log, e.req = 0
    PROVE  /\ ~FactContradicts(tables, KeyOf(e), e.at, e.rows[KeyOf(e)])
           /\ FactApplied(tables, KeyOf(e), e.at, e.rows[KeyOf(e)]) = tables
<1>1. PICK t, L, R : t = tables /\ L = log /\ R = runs
  OBVIOUS
<1>2. /\ AreEvents(L) /\ ObservationsAgree(L) /\ Projects(t, L, R) /\ BarsOf(t.bars, L)
      /\ e \in L /\ IsEvent(e)
  BY <1>1 DEF TablesInv, AreEvents
<1>3. PICK k \in Keys \cup {Bar} : DOMAIN e.rows = {k}
  BY <1>2 DEF IsEvent
<1>4. KeyOf(e) = k /\ k \in DOMAIN e.rows
  BY <1>3, OneKey
<1>5. ASSUME k \in Snapshots
      PROVE  ~Contradicts(t.latest[k], e.at, e.rows[k])
  <2>1. k \in Keys /\ k \notin Members
    BY <1>5, KeyKinds DEF Keys
  <2>2. Counts(e, k, L)
    BY <1>4, <2>1 DEF Counts
  <2> QED
    BY <1>2, <2>1, <2>2, OwnRowFits
<1>6. ASSUME k \in Members
      PROVE  /\ ~(e.at = Watermark(t, k) /\ ~IsMember(t, k, e.at, e.rows[k]))
             /\ ~(e.at > Watermark(t, k) /\ Contradicts(t.latest[k], e.at, e.rows[k]))
  BY <1>2, <1>3, <1>6, MemberFits
<1>7. ASSUME k = Bar
      PROVE  t.bars[e.at] \in {e.rows[k], Nothing}
  <2>1. PICK bars : bars = t.bars
    OBVIOUS
  <2>2. BarsOf(bars, L) /\ Bar \in DOMAIN e.rows
    BY <1>2, <1>4, <1>7, <2>1
  <2>3. bars[e.at] \in {e.rows[Bar], Nothing}
    BY <1>2, <2>2, BarFits
  <2> QED
    BY <1>7, <2>1, <2>3
<1>8. ~FactContradicts(t, k, e.at, e.rows[k])
  BY <1>5, <1>6, <1>7 DEF FactContradicts
<1>9. PICK u : u = FactApplied(t, KeyOf(e), e.at, e.rows[KeyOf(e)])
  OBVIOUS
<1>10. ~FactContradicts(t, KeyOf(e), e.at, e.rows[KeyOf(e)])
  BY <1>4, <1>8
<1>11. Projects(u, L \cup {e}, R) /\ BarsOf(u.bars, L \cup {e})
  BY <1>2, <1>9, <1>10, FactWrites
<1>12. L \cup {e} = L
  BY <1>2
<1>13. u = t
  <2>1. PICK a, b : a = u.bars /\ b = t.bars
    OBVIOUS
  <2>2. BarsOf(a, L) /\ BarsOf(b, L)
    BY <1>2, <1>11, <1>12, <2>1
  <2>3. u.bars = t.bars
    BY <2>1, <2>2, BarsAreUnique
  <2>4. Projects(u, L, R)
    BY <1>11, <1>12
  <2> QED
    BY <1>2, <2>3, <2>4, ProjectionIsUnique
<1> QED
  BY <1>1, <1>9, <1>10, <1>13

\* A snapshot that is delivered a second time, however late, is accepted and
\* changes nothing (ingest_durable).
THEOREM RedeliveryAlwaysHarmless == RebuildSpec => []RedeliveryIsHarmless
<1>1. TablesInv => RedeliveryIsHarmless
  BY RedeliveryFits DEF RedeliveryIsHarmless
<1> QED
  BY <1>1, RebuildIsInvisible, TablesInvariant, PTL

-----------------------------------------------------------------------------
\* What is stored reads back.

\* The event that a run with a result points at.
Explains(e, r, run) ==
    /\ e.id = run.result /\ e.req = r /\ e.at = run.observed
    /\ run.status \in {"PENDING_EVIDENCE", "COMPLETED"} => run.updated = e.received
    /\ run.status = "MANUAL" => run.updated >= e.received

\* A run that exists, over a log: RunReadsBack without the choice of an event.
RunFits(r, run, L) ==
    /\ run.status \in {"REQUESTED", "PENDING_EVIDENCE", "COMPLETED", "MANUAL"}
    /\ run.requested \in Nat /\ run.created \in Nat /\ run.updated \in Nat
    /\ run.created >= run.requested /\ run.updated >= run.created
    /\ IF run.result = 0
       THEN run.observed = Never /\ run.status \in {"REQUESTED", "MANUAL"}
       ELSE /\ run.status # "REQUESTED" /\ run.observed \in Nat
            /\ \E e \in L : Explains(e, r, run)
            /\ run.disposition = Disposition(run.attention)
            /\ AccountWide(r) \/ run.attention \subseteq Target(r)
    /\ run.status = "REQUESTED" => run.updated = run.created
    /\ run.status \in {"PENDING_EVIDENCE", "COMPLETED"} => run.disposition = run.status
    /\ IF run.status = "MANUAL"
       THEN /\ run.escalated \in Nat /\ run.escalated >= run.requested
            /\ run.escalated >= run.observed /\ run.updated >= run.escalated
            /\ run.result # 0 => run.disposition = "PENDING_EVIDENCE" /\ run.manual = run.attention
       ELSE run.escalated = Never

\* The event that a stored id names is the one that is found.
LEMMA ResultFound ==
    ASSUME IdsAreUnique, NEW r, NEW e \in log, e.id = runs[r].result
    PROVE  ResultOf(r) = e
BY DEF ResultOf, IdsAreUnique

\* A run that fits its log reads back.
LEMMA FittingReadsBack ==
    ASSUME IdsAreUnique, NEW r, RunFits(r, runs[r], log)
    PROVE  RunReadsBack(r)
<1> DEFINE run == runs[r]
<1>1. ResultColumnsFit(r)
  BY DEF RunFits, ResultColumnsFit, Explains
<1>2. ManualColumnsFit(r)
  BY SMT DEF RunFits, ManualColumnsFit, Never
<1>3. RunStateFits(r)
  BY DEF RunFits, RunStateFits
<1>4. RunTimesFit(r)
  <2>1. CASE run.result = 0
    <3>1. run.status \in {"REQUESTED", "MANUAL"}
      BY <2>1 DEF RunFits
    <3> QED
      BY <2>1, <3>1 DEF RunFits, RunTimesFit
  <2>2. CASE run.result # 0
    <3>1. PICK e \in log : Explains(e, r, run)
      BY <2>2 DEF RunFits
    <3>2. ResultOf(r) = e
      BY <3>1, ResultFound DEF Explains
    <3> QED
      BY <2>2, <3>1, <3>2 DEF RunFits, RunTimesFit, Explains
  <2> QED
    BY <2>1, <2>2
<1> QED
  BY <1>1, <1>2, <1>3, <1>4 DEF RunReadsBack

\* A longer log explains no less.
LEMMA FitsLonger ==
    ASSUME NEW r, NEW run, NEW L, NEW M, L \subseteq M, RunFits(r, run, L)
    PROVE  RunFits(r, run, M)
BY DEF RunFits

\* The three writes keep a run fitting.
LEMMA RequestedFits ==
    ASSUME NEW r, NEW at \in Nat, NEW L
    PROVE  RunFits(r, Requested(at), L)
<1>1. PICK run : run = Requested(at)
  OBVIOUS
<1>2. /\ run.status = "REQUESTED" /\ run.requested = at /\ run.created = at /\ run.updated = at
      /\ run.result = 0 /\ run.observed = Never /\ run.escalated = Never
  BY <1>1 DEF Requested, NoRun
<1> QED
  BY <1>1, <1>2, SMT DEF RunFits

LEMMA AnsweredFits ==
    ASSUME NEW r, NEW run, NEW L, DOMAIN run = RunFields, RunFits(r, run, L),
           run.status = "REQUESTED", NEW e \in Event, e.req = r, e.id # 0,
           e.received >= run.updated, NEW attention, AccountWide(r) \/ attention \subseteq Target(r),
           NEW symbols
    PROVE  RunFits(r, Answered(run, r, e, attention, symbols), L \cup {e})
<1>1. PICK new : new = Answered(run, r, e, attention, symbols)
  OBVIOUS
<1>2. /\ new.status = Disposition(attention) /\ new.disposition = Disposition(attention)
      /\ new.result = e.id /\ new.observed = e.at /\ new.attention = attention
      /\ new.updated = e.received /\ new.requested = run.requested
      /\ new.created = run.created /\ new.escalated = run.escalated
  BY <1>1 DEF Answered, RunFields, NoRun
<1>3. e.at \in Nat /\ e.received \in Nat
  BY TimesAreStored DEF Event
<1>4. Disposition(attention) \in {"COMPLETED", "PENDING_EVIDENCE"}
  BY DEF Disposition
<1>5. Explains(e, r, new)
  BY <1>2, <1>4 DEF Explains
<1>6. /\ run.requested \in Nat /\ run.created \in Nat /\ run.created >= run.requested
      /\ run.updated \in Nat /\ run.updated >= run.created /\ run.escalated = Never
  BY DEF RunFits
<1> QED
  BY <1>1, <1>2, <1>3, <1>4, <1>5, <1>6 DEF RunFits

LEMMA EscalatedFits ==
    ASSUME NEW r, NEW run, NEW L, DOMAIN run = RunFields, RunFits(r, run, L),
           run.status \in {"REQUESTED", "PENDING_EVIDENCE"}, NEW at \in Nat, NEW updated \in Nat,
           at >= run.requested, at >= run.observed, updated >= at, updated >= run.updated,
           NEW attention, run.result # 0 => attention = run.attention
    PROVE  RunFits(r, Escalated(run, at, attention, updated), L)
<1>1. PICK new : new = Escalated(run, at, attention, updated)
  OBVIOUS
<1>2. /\ new.status = "MANUAL" /\ new.escalated = at /\ new.manual = attention
      /\ new.updated = updated /\ new.requested = run.requested /\ new.created = run.created
      /\ new.result = run.result /\ new.observed = run.observed
      /\ new.attention = run.attention /\ new.disposition = run.disposition
  BY <1>1 DEF Escalated, RunFields, NoRun
<1>3. CASE run.result = 0
  BY <1>1, <1>2, <1>3 DEF RunFits
<1>4. CASE run.result # 0
  <2>1. PICK e \in L : Explains(e, r, run)
    BY <1>4 DEF RunFits
  <2>2. run.status = "PENDING_EVIDENCE" /\ run.updated = e.received /\ run.updated \in Nat
    BY <1>4, <2>1 DEF RunFits, Explains
  <2>3. Explains(e, r, new)
    BY <1>2, <2>1, <2>2 DEF Explains
  <2> QED
    BY <1>1, <1>2, <1>4, <2>2, <2>3, SMT DEF RunFits
<1> QED
  BY <1>3, <1>4

\* The results that vouch for a time: of the account, the symbols, the commands.
AccountSeen(R, L, t) ==
    \E q \in Requests, e \in L : /\ R[q].result # 0 /\ R[q].observed = t
                                 /\ e.id = R[q].result /\ Account \in DOMAIN e.rows
SymbolsSeen(R, t) == \E q \in Requests : R[q].result # 0 /\ R[q].observed = t /\ R[q].symbols
CommandsSeen(R, t) ==
    \E q \in Requests : /\ R[q].result # 0 /\ R[q].observed = t /\ R[q].status = "COMPLETED"
                        /\ R[q].scope /\ AccountWide(q) /\ q \notin Routed

\* A checkpoint over runs and a log.
CheckpointFits(c, R, L) ==
    /\ c.source \in Requests \cup {0}
    /\ c.source = 0 => c.at = Never
    /\ c.source # 0 => R[c.source].result # 0 /\ R[c.source].observed = c.at
    /\ c.updated >= c.at
    /\ \A kind \in Kinds : c.watermark[kind] = c.at
    /\ c.account <= c.at /\ c.symbols <= c.at /\ c.pending <= c.at
    /\ c.account # Never => AccountSeen(R, L, c.account)
    /\ c.symbols # Never => SymbolsSeen(R, c.symbols)
    /\ c.pending # Never => CommandsSeen(R, c.pending)

\* The log only grows, and a run with a result keeps what a checkpoint needs of it.
KeepsRuns(R, L, Q, M) ==
    /\ L \subseteq M
    /\ \A q \in Requests : R[q].result # 0 =>
           /\ Q[q].result = R[q].result /\ Q[q].observed = R[q].observed
           /\ Q[q].symbols = R[q].symbols /\ Q[q].scope = R[q].scope
           /\ R[q].status = "COMPLETED" => Q[q].status = "COMPLETED"

LEMMA CheckpointKept ==
    ASSUME NEW c, NEW R, NEW L, NEW Q, NEW M, CheckpointFits(c, R, L), KeepsRuns(R, L, Q, M),
           0 \notin Requests
    PROVE  CheckpointFits(c, Q, M)
<1>1. c.account # Never => AccountSeen(Q, M, c.account)
  BY DEF CheckpointFits, KeepsRuns, AccountSeen
<1>2. c.symbols # Never => SymbolsSeen(Q, c.symbols)
  BY DEF CheckpointFits, KeepsRuns, SymbolsSeen
<1>3. c.pending # Never => CommandsSeen(Q, c.pending)
  BY DEF CheckpointFits, KeepsRuns, CommandsSeen
<1>4. c.source # 0 => Q[c.source].result # 0 /\ Q[c.source].observed = c.at
  BY DEF CheckpointFits, KeepsRuns
<1> QED
  BY <1>1, <1>2, <1>3, <1>4 DEF CheckpointFits

LEMMA LaterKeepsOrder ==
    ASSUME NEW a \in Int, NEW x \in Int, NEW b \in Int, NEW y \in Int, a <= b, x <= y
    PROVE  Later(a, x) <= Later(b, y) /\ a <= Later(b, y)
BY SMT DEF Later

\* A result that is in the log, and whose run has taken it, advances a checkpoint
\* to one that fits.
LEMMA CheckpointAdvances ==
    ASSUME NEW c, CheckpointTyped(c), NEW R, NEW L, CheckpointFits(c, R, L), 0 \notin Requests,
           NEW e \in Event, e \in L, NEW r \in Requests, e.req = r, e.at <= e.received,
           R[r].result = e.id, e.id # 0, R[r].observed = e.at,
           NEW symbols, symbols => R[r].symbols,
           NEW pending, pending => /\ R[r].status = "COMPLETED" /\ R[r].scope
                                   /\ AccountWide(r) /\ r \notin Routed
    PROVE  CheckpointFits(CheckpointAfterResult(c, e, symbols, pending), R, L)
<1>1. PICK d : d = CheckpointAfterResult(c, e, symbols, pending)
  OBVIOUS
<1>2. e.at \in Nat /\ e.received \in Nat
  BY TimesAreStored DEF Event
<1>3. /\ c.at \in Int /\ c.account \in Int /\ c.symbols \in Int /\ c.pending \in Int
      /\ c.updated \in Int
  BY DEF CheckpointTyped
<1>4. /\ d.source = IF e.at > c.at \/ (e.at = c.at /\ e.req < c.source) THEN e.req ELSE c.source
      /\ d.at = Later(c.at, e.at) /\ d.updated = Later(c.updated, e.received)
      /\ d.account = IF Account \in DOMAIN e.rows THEN Later(c.account, e.at) ELSE c.account
      /\ d.symbols = IF symbols THEN Later(c.symbols, e.at) ELSE c.symbols
      /\ d.pending = IF pending THEN Later(c.pending, e.at) ELSE c.pending
      /\ \A kind \in Kinds : d.watermark[kind] = Later(c.watermark[kind], e.at)
  BY <1>1 DEF CheckpointAfterResult
<1>5. /\ c.updated >= c.at /\ c.account <= c.at /\ c.symbols <= c.at /\ c.pending <= c.at
      /\ \A kind \in Kinds : c.watermark[kind] = c.at
  BY DEF CheckpointFits
<1>6. /\ d.updated >= d.at /\ d.account <= d.at /\ d.symbols <= d.at /\ d.pending <= d.at
      /\ \A kind \in Kinds : d.watermark[kind] = d.at
  <2>1. PICK a, x : a = c.at /\ x = e.at
    OBVIOUS
  <2>2. a \in Int /\ x \in Int /\ d.at = Later(a, x) /\ x <= x
    BY <1>2, <1>3, <1>4, <2>1, SMT
  <2>3. d.updated >= d.at
    <3>1. PICK b, y : b = c.updated /\ y = e.received
      OBVIOUS
    <3>2. b \in Int /\ y \in Int /\ a <= b /\ x <= y
      BY <1>2, <1>3, <1>5, <2>1, <3>1, SMT
    <3>3. d.updated = Later(b, y)
      BY <1>4, <3>1
    <3> QED
      BY <2>2, <3>2, <3>3, LaterKeepsOrder, SMT
  <2>4. ASSUME NEW b \in Int, b <= a, NEW z, z = b \/ z = Later(b, x)
        PROVE  z <= d.at
    <3>1. Later(b, x) <= Later(a, x) /\ b <= Later(a, x)
      BY <2>2, <2>4, LaterKeepsOrder
    <3> QED
      BY <2>2, <2>4, <3>1
  <2>5. d.account <= d.at
    BY <1>3, <1>4, <1>5, <2>1, <2>4
  <2>6. d.symbols <= d.at
    BY <1>3, <1>4, <1>5, <2>1, <2>4
  <2>7. d.pending <= d.at
    BY <1>3, <1>4, <1>5, <2>1, <2>4
  <2>8. \A kind \in Kinds : d.watermark[kind] = d.at
    BY <1>4, <1>5
  <2> QED
    BY <2>3, <2>5, <2>6, <2>7, <2>8
<1>7. /\ d.source \in Requests \cup {0}
      /\ d.source = 0 => d.at = Never
      /\ d.source # 0 => R[d.source].result # 0 /\ R[d.source].observed = d.at
  <2>1. CASE e.at > c.at
    <3>1. d.source = r /\ d.at = e.at
      BY <1>2, <1>3, <1>4, <2>1, SMT DEF Later
    <3> QED
      BY <3>1
  <2>2. CASE ~(e.at > c.at)
    <3>1. d.at = c.at /\ c.at \in Nat
      BY <1>2, <1>3, <1>4, <2>2, SMT DEF Later
    <3>2. c.source \in Requests /\ R[c.source].result # 0 /\ R[c.source].observed = c.at
      BY <3>1, SMT DEF CheckpointFits, Never
    <3>3. d.source = c.source \/ (d.source = r /\ e.at = c.at)
      BY <1>4, <2>2
    <3> QED
      BY <3>1, <3>2, <3>3
  <2> QED
    BY <2>1, <2>2
<1>8. d.account # Never => AccountSeen(R, L, d.account)
  <2>1. Account \in DOMAIN e.rows => AccountSeen(R, L, e.at)
    BY DEF AccountSeen
  <2>2. d.account = c.account \/ (d.account = e.at /\ Account \in DOMAIN e.rows)
    BY <1>4 DEF Later
  <2> QED
    BY <2>1, <2>2 DEF CheckpointFits
<1>9. d.symbols # Never => SymbolsSeen(R, d.symbols)
  <2>1. symbols => SymbolsSeen(R, e.at)
    BY DEF SymbolsSeen
  <2>2. d.symbols = c.symbols \/ (d.symbols = e.at /\ symbols)
    BY <1>4 DEF Later
  <2> QED
    BY <2>1, <2>2 DEF CheckpointFits
<1>10. d.pending # Never => CommandsSeen(R, d.pending)
  <2>1. pending => CommandsSeen(R, e.at)
    BY DEF CommandsSeen
  <2>2. d.pending = c.pending \/ (d.pending = e.at /\ pending)
    BY <1>4 DEF Later
  <2> QED
    BY <2>1, <2>2 DEF CheckpointFits
<1> QED
  BY <1>1, <1>6, <1>7, <1>8, <1>9, <1>10 DEF CheckpointFits

\* Every run that exists fits the log, and so does the checkpoint.
ReadInv ==
    /\ IdsAreUnique
    /\ \A r \in Requests : IF runs[r].status = "NONE" THEN runs[r] = NoRun
                           ELSE RunFits(r, runs[r], log)
    /\ CheckpointFits(tables.checkpoint, runs, log)

LEMMA NoRequestIsZero == 0 \notin Requests
BY RequestsAreIds

\* A step that writes one run of a log that only grows.
LEMMA OneRunWritten ==
    ASSUME RunsInv, ReadInv, log \subseteq log', NEW r \in Requests, NEW new,
           runs' = [runs EXCEPT ![r] = new], new.status # "NONE", RunFits(r, new, log'),
           runs[r].result # 0 =>
               /\ new.result = runs[r].result /\ new.observed = runs[r].observed
               /\ new.symbols = runs[r].symbols /\ new.scope = runs[r].scope
               /\ runs[r].status # "COMPLETED"
    PROVE  /\ \A q \in Requests : IF runs'[q].status = "NONE" THEN runs'[q] = NoRun
                                  ELSE RunFits(q, runs'[q], log')
           /\ CheckpointFits(tables.checkpoint, runs', log')
<1>1. runs'[r] = new /\ \A q \in Requests \ {r} : runs'[q] = runs[q]
  BY DEF RunsInv
<1>2. ASSUME NEW q \in Requests
      PROVE  IF runs'[q].status = "NONE" THEN runs'[q] = NoRun ELSE RunFits(q, runs'[q], log')
  <2>1. CASE q = r
    BY <1>1, <2>1
  <2>2. CASE q # r
    <3>1. runs'[q] = runs[q]
      BY <1>1, <2>2
    <3>2. runs[q].status # "NONE" => RunFits(q, runs[q], log')
      BY FitsLonger DEF ReadInv
    <3> QED
      BY <3>1, <3>2 DEF ReadInv
  <2> QED
    BY <2>1, <2>2
<1>3. KeepsRuns(runs, log, runs', log')
  BY <1>1 DEF KeepsRuns
<1>4. CheckpointFits(tables.checkpoint, runs', log')
  BY <1>3, CheckpointKept, NoRequestIsZero DEF ReadInv
<1> QED
  BY <1>2, <1>4

\* Creating and escalating a run.
LEMMA RequestReads ==
    ASSUME RunsInv, ReadInv, NEW r \in Requests, CreateRun(r, OpenedAt(r))
    PROVE  ReadInv'
<1> DEFINE new == Requested(OpenedAt(r))
<1>1. /\ log' = log /\ tables' = tables /\ runs' = [runs EXCEPT ![r] = new]
      /\ runs[r].status = "NONE"
  BY DEF CreateRun
<1>2. RunFits(r, new, log') /\ new.status # "NONE"
  <2>1. OpenedAt(r) \in Nat
    BY RunTimesAreStored
  <2> QED
    BY <2>1, RequestedFits, RunRequested
<1>3. runs[r].result = 0
  BY <1>1 DEF RunsInv
<1> HIDE DEF new
<1>4. /\ \A q \in Requests : IF runs'[q].status = "NONE" THEN runs'[q] = NoRun
                             ELSE RunFits(q, runs'[q], log')
      /\ CheckpointFits(tables.checkpoint, runs', log')
  BY <1>1, <1>2, <1>3, OneRunWritten
<1> QED
  BY <1>1, <1>4 DEF ReadInv, IdsAreUnique

LEMMA EscalationReads ==
    ASSUME RunsInv, ReadInv, NEW r \in Requests, NEW t \in Escalations,
           Escalate(r, t.at, t.updated)
    PROVE  ReadInv'
<1> DEFINE attention == IF runs[r].result = 0 THEN Scope(r) ELSE runs[r].attention
           new == Escalated(runs[r], t.at, attention, t.updated)
<1>1. /\ log' = log /\ tables' = tables /\ runs' = [runs EXCEPT ![r] = new]
      /\ runs[r].status \in {"REQUESTED", "PENDING_EVIDENCE"}
      /\ t.at >= runs[r].requested /\ t.at >= runs[r].observed
      /\ t.updated >= t.at /\ t.updated >= runs[r].updated
  BY DEF Escalate
<1>2. /\ DOMAIN runs[r] = RunFields /\ RunFits(r, runs[r], log)
      /\ t.at \in Nat /\ t.updated \in Nat
  BY <1>1, RunTimesAreStored DEF RunsInv, ReadInv
<1>3. PICK run, a : run = runs[r] /\ a = attention
  OBVIOUS
<1>4. RunFits(r, new, log')
  BY <1>1, <1>2, <1>3, EscalatedFits
<1>5. /\ new.status = "MANUAL" /\ new.result = runs[r].result /\ new.observed = runs[r].observed
      /\ new.symbols = runs[r].symbols /\ new.scope = runs[r].scope
  BY <1>2 DEF Escalated, RunFields, NoRun
<1> HIDE DEF new
<1>6. /\ \A q \in Requests : IF runs'[q].status = "NONE" THEN runs'[q] = NoRun
                             ELSE RunFits(q, runs'[q], log')
      /\ CheckpointFits(tables.checkpoint, runs', log')
  BY <1>1, <1>4, <1>5, OneRunWritten
<1> QED
  BY <1>1, <1>6 DEF ReadInv, IdsAreUnique

\* A snapshot.
LEMMA SnapshotReads ==
    ASSUME RunsInv, ReadInv, NEW e \in Facts, Ingest(e), UNCHANGED runs
    PROVE  ReadInv'
<1>1. /\ log' = log \cup {e} /\ \A f \in log : f.id = e.id => f = e
      /\ tables'.checkpoint = tables.checkpoint
  BY DEF Ingest, FactApplied, WithBar, WithRow
<1>2. IdsAreUnique'
  BY <1>1 DEF ReadInv, IdsAreUnique
<1>3. KeepsRuns(runs, log, runs', log')
  BY <1>1 DEF KeepsRuns
<1>4. CheckpointFits(tables'.checkpoint, runs', log')
  BY <1>1, <1>3, CheckpointKept, NoRequestIsZero DEF ReadInv
<1>5. \A q \in Requests : IF runs'[q].status = "NONE" THEN runs'[q] = NoRun
                          ELSE RunFits(q, runs'[q], log')
  BY <1>1, FitsLonger DEF ReadInv
<1> QED
  BY <1>2, <1>4, <1>5 DEF ReadInv

\* A result.
LEMMA ResultReads ==
    ASSUME TablesInv, RunsInv, ReadInv, NEW e \in Event, e.req \in Requests, e.id # 0,
           NEW u, NEW s, CommitResult(e.req, e, u, s)
    PROVE  ReadInv'
<1> DEFINE r == e.req
           attention == Attention(r, e, u)
           pending == EarnsPending(r, attention)
           new == Answered(runs[r], r, e, attention, s)
<1>1. /\ log' = log \cup {e} /\ (\A f \in log : f.id # e.id)
      /\ tables' = ResultApplied(tables, e, s, pending)
      /\ runs' = [runs EXCEPT ![r] = new] /\ runs[r].status = "REQUESTED" /\ runs[r].result = 0
      /\ e.at <= e.received /\ e.received >= runs[r].updated
  BY DEF CommitResult, TakesResult, ResultFits
<1>2. DOMAIN runs[r] = RunFields /\ RunFits(r, runs[r], log)
  BY <1>1 DEF RunsInv, ReadInv
<1>3. AccountWide(r) \/ attention \subseteq Target(r)
  BY DEF Attention, Scope
<1>4. RunFits(r, new, log')
  <2> DEFINE run == runs[r]
  <2>1. DOMAIN run = RunFields /\ RunFits(r, run, log) /\ run.status = "REQUESTED"
        /\ e.received >= run.updated
    BY <1>1, <1>2
  <2>2. new = Answered(run, r, e, attention, s)
    OBVIOUS
  <2> HIDE DEF run, attention, new
  <2> QED
    BY <1>1, <1>3, <2>1, <2>2, AnsweredFits
<1>5. /\ new.status = Disposition(attention) /\ new.result = e.id /\ new.observed = e.at
      /\ new.symbols = s /\ new.scope = (AccountWide(r) /\ r \notin Routed)
  BY <1>2 DEF Answered, RunFields, NoRun
<1>6. new.status # "NONE" /\ (attention = {} => new.status = "COMPLETED")
  BY <1>5 DEF Disposition
<1>7. pending => /\ new.status = "COMPLETED" /\ new.scope /\ AccountWide(r) /\ r \notin Routed
  BY <1>5, <1>6 DEF EarnsPending
<1>8. runs'[r] = new
  BY <1>1 DEF RunsInv
<1>9. tables'.checkpoint = CheckpointAfterResult(tables.checkpoint, e, s, pending)
  BY <1>1 DEF ResultApplied
<1> HIDE DEF new, pending, attention
<1>10. /\ \A q \in Requests : IF runs'[q].status = "NONE" THEN runs'[q] = NoRun
                              ELSE RunFits(q, runs'[q], log')
       /\ CheckpointFits(tables.checkpoint, runs', log')
  BY <1>1, <1>4, <1>6, OneRunWritten
<1>11. CheckpointFits(tables'.checkpoint, runs', log')
  <2>1. CheckpointTyped(tables.checkpoint)
    BY CheckpointIsTyped
  <2>2. PICK c, R, L : c = tables.checkpoint /\ R = runs' /\ L = log'
    OBVIOUS
  <2>3. CheckpointFits(CheckpointAfterResult(c, e, s, pending), R, L)
    BY <1>1, <1>5, <1>7, <1>8, <1>10, <2>1, <2>2, CheckpointAdvances, NoRequestIsZero
  <2> QED
    BY <1>9, <2>2, <2>3
<1>12. IdsAreUnique'
  BY <1>1 DEF ReadInv, IdsAreUnique
<1> QED
  BY <1>10, <1>11, <1>12 DEF ReadInv

\* What reads back is an invariant of every behaviour.
LEMMA ReadStep ==
    ASSUME TablesInv, RunsInv, ReadInv, [Next]_vars
    PROVE  ReadInv'
<1>1. CASE UNCHANGED <<log, tables, runs>>
  BY <1>1 DEF ReadInv, IdsAreUnique
<1>2. ASSUME NEW e \in Facts, Ingest(e), UNCHANGED runs
      PROVE  ReadInv'
  BY <1>2, SnapshotReads
<1>3. ASSUME NEW e \in Event, NEW u, NEW s, CommitResult(e.req, e, u, s),
             e.req \in Requests, e.id # 0
      PROVE  ReadInv'
  BY <1>3, ResultReads
<1>4. ASSUME NEW r \in Requests, CreateRun(r, OpenedAt(r))
      PROVE  ReadInv'
  BY <1>4, RequestReads
<1>5. ASSUME NEW r \in Requests, NEW t \in Escalations, Escalate(r, t.at, t.updated)
      PROVE  ReadInv'
  BY <1>5, EscalationReads
<1> QED
  BY <1>1, <1>2, <1>3, <1>4, <1>5, Steps

\* The runs and the checkpoint fit the log in every reachable state.
THEOREM ReadInvariant == Spec => []ReadInv
<1>1. Init => ReadInv
  <2> SUFFICES ASSUME Init PROVE ReadInv
    OBVIOUS
  <2>1. /\ log = {} /\ runs = [r \in Requests |-> NoRun]
        /\ tables.checkpoint = NoCheckpoint
    BY DEF Init, ProjectionsInit, EmptyTables
  <2>2. NoRun.status = "NONE"
    BY DEF NoRun
  <2>3. CheckpointFits(NoCheckpoint, runs, log)
    BY SMT DEF CheckpointFits, NoCheckpoint, Never
  <2> QED
    BY <2>1, <2>2, <2>3 DEF ReadInv, IdsAreUnique
<1>2. TablesInv /\ RunsInv /\ ReadInv /\ [Next]_vars => ReadInv'
  BY ReadStep
<1> QED
  BY <1>1, <1>2, TablesInvariant, RunsInvariant, PTL DEF Spec

\* The members of a kind are the last full set, and every row of the kind that is
\* not newer is a member's.
LEMMA MembersIntact ==
    ASSUME TablesInv, NEW kind \in Kinds, NEW f \in Results(log),
           f.at = tables.checkpoint.at
    PROVE  MembershipIsIntact(tables.checkpoint, kind)
<1>1. PICK t, L, R, c, m : /\ t = tables /\ L = log /\ R = runs /\ c = t.checkpoint
                           /\ m = t.members[kind]
  OBVIOUS
<1>2. AreEvents(L) /\ Projects(t, L, R) /\ CheckpointOf(c, L, R)
  BY <1>1 DEF TablesInv, Projects
<1>3. m = [at |-> c.at, rows |-> c.set[kind]]
  <2>1. t.members = [i \in Kinds |-> [at |-> t.checkpoint.at, rows |-> t.checkpoint.set[i]]]
    BY <1>2, SMT DEF Projects
  <2> QED
    BY <1>1, <2>1
<1>4. m.at = c.at /\ m.rows = c.set[kind]
  BY <1>3
<1>5. c.watermark[kind] = c.at
  <2>1. c.watermark = [i \in Kinds |-> c.at]
    BY <1>2, SMT DEF CheckpointOf
  <2> QED
    BY <2>1
<1>6. f \in Results(L) /\ f \in L /\ f.at = c.at /\ f.at \in Nat
  <2>1. f \in Results(L) /\ f \in L /\ f.at = c.at
    BY <1>1 DEF Results
  <2> QED
    BY <1>2, <2>1, EventFields DEF AreEvents
<1>7. ASSUME NEW g \in Results(L), g.at = c.at
      PROVE  /\ DOMAIN m.rows = KeysOf(kind) \cap DOMAIN g.rows
             /\ \A k \in DOMAIN m.rows : m.rows[k] = g.rows[k]
  <2>1. m.rows = Part(g.rows, KeysOf(kind))
    BY <1>2, <1>4, <1>7 DEF CheckpointOf
  <2> QED
    BY <2>1 DEF Part
<1>8. \A k \in KeysOf(kind) : k \in Members /\ k \in Keys
  BY DEF KeysOf, Members, Keys, Kinds
<1>9. \A g \in Results(L) : g.at <= f.at
  <2>1. PICK x : x = c.at
    OBVIOUS
  <2>2. IsLatest(x, {e.at : e \in Results(L)})
    BY <1>2, <2>1 DEF CheckpointOf
  <2>3. \A g \in Results(L) : g.at <= x
    BY <1>2, <1>6, <2>2, AboveWatermark
  <2> QED
    BY <1>6, <2>1, <2>3
<1>10. ASSUME NEW k \in DOMAIN m.rows
       PROVE  t.latest[k].at >= m.at /\ ~Contradicts(t.latest[k], m.at, m.rows[k])
  <2>1. k \in KeysOf(kind) /\ k \in DOMAIN f.rows /\ m.rows[k] = f.rows[k] /\ k \in Keys
    BY <1>6, <1>7, <1>8, <1>10
  <2>2. Counts(f, k, L)
    BY <1>6, <1>9, <2>1 DEF Counts, IsLastSet
  <2>3. ~Contradicts(t.latest[k], f.at, f.rows[k])
    BY <1>2, <1>6, <2>1, <2>2, OwnRowFits
  <2>4. PICK row, O, x : /\ row = t.latest[k] /\ O = Observations(k, L)
                         /\ x = [at |-> f.at, v |-> f.rows[k]]
    OBVIOUS
  <2>5. x \in O /\ x.at = f.at
    BY <1>6, <2>2, <2>4 DEF Observations
  <2>6. row \in O /\ (x = row \/ x.at < row.at)
    BY <1>2, <2>1, <2>4, <2>5 DEF Projects, IsNewestOf
  <2>7. row.at \in Nat
    <3>1. AreObservations(O)
      BY <1>2, <2>4, ObservationsOfEvents
    <3> QED
      BY <2>6, <3>1 DEF AreObservations
  <2>8. row.at >= f.at
    <3>1. f.at = row.at \/ f.at < row.at
      BY <2>5, <2>6
    <3> QED
      BY <1>6, <2>7, <3>1, SMT
  <2> QED
    BY <1>4, <1>6, <2>1, <2>3, <2>4, <2>8
<1>11. ASSUME NEW k \in KeysOf(kind), t.latest[k].at \in 0 .. m.at
       PROVE  k \in DOMAIN m.rows
  <2>1. k \in Members /\ k \in Keys
    BY <1>8
  <2>2. PICK a : a = t.latest[k].at
    OBVIOUS
  <2>3. a \in Nat /\ ~(f.at < a)
    <3>1. a \in 0 .. f.at
      BY <1>4, <1>6, <1>11, <2>2
    <3> QED
      BY <1>6, <3>1, SMT
  <2>4. t.latest[k].at \in Nat
    BY <2>2, <2>3
  <2>5. PICK w \in L : Counts(w, k, L) /\ t.latest[k].at = w.at /\ t.latest[k].v = w.rows[k]
    BY <1>2, <2>1, <2>4, RowIsObserved, SMT
  <2>6. w.at = a /\ k \in DOMAIN w.rows
    BY <2>2, <2>5 DEF Counts
  <2>7. w \in Results(L) /\ f.at <= a
    BY <1>6, <2>1, <2>3, <2>5, <2>6 DEF Counts, IsLastSet
  <2>8. a = f.at
    BY <1>6, <2>3, <2>7, SMT
  <2>9. k \in KeysOf(kind) \cap DOMAIN w.rows
    BY <2>6
  <2> QED
    BY <1>6, <1>7, <2>6, <2>7, <2>8, <2>9
<1> QED
  BY <1>1, <1>3, <1>5, <1>10, <1>11 DEF MembershipIsIntact

\* A checkpoint that fits reads back.
LEMMA CheckpointIsIntact ==
    ASSUME TablesInv, RunsInv, ReadInv
    PROVE  CheckpointReadsBack
<1> DEFINE c == tables.checkpoint
           r == c.source
<1> SUFFICES ASSUME c.source # 0
             PROVE  /\ c.updated >= c.at
                    /\ \A kind \in Kinds : c.watermark[kind] = c.at
                    /\ \A at \in {c.account, c.symbols, c.pending} : at <= c.at
                    /\ runs[r].result # 0 /\ runs[r].observed = c.at
                    /\ RunReadsBack(r)
                    /\ SetsHaveEvidence(c)
                    /\ ReadinessHasEvidence(c)
                    /\ \A kind \in Kinds : MembershipIsIntact(c, kind)
  BY DEF CheckpointReadsBack
<1>1. CheckpointFits(c, runs, log) /\ IdsAreUnique
  BY DEF ReadInv
<1>2. /\ c.updated >= c.at
      /\ \A kind \in Kinds : c.watermark[kind] = c.at
      /\ \A at \in {c.account, c.symbols, c.pending} : at <= c.at
      /\ r \in Requests /\ runs[r].result # 0 /\ runs[r].observed = c.at
  BY <1>1 DEF CheckpointFits
<1>3. NoRun.result = 0
  BY DEF NoRun
<1>4. RunFits(r, runs[r], log)
  BY <1>2, <1>3 DEF ReadInv
<1>5. RunReadsBack(r)
  BY <1>1, <1>4, FittingReadsBack
<1>6. PICK f \in log : f.id = runs[r].result /\ f.req = r /\ f.at = c.at
  BY <1>2, <1>4 DEF RunFits, Explains
<1>7. f \in Results(log) /\ ResultOf(r) = f
  <2>1. f.req \in Nat \ {0}
    BY <1>2, <1>6, RequestsAreIds
  <2> QED
    BY <1>1, <1>6, <2>1, ResultFound, SMT DEF Results
<1>8. SetsHaveEvidence(c)
  <2>1. CheckpointOf(c, log, runs)
    BY DEF TablesInv, Projects
  <2>2. \A kind \in Kinds : c.set[kind] = Part(f.rows, KeysOf(kind))
    BY <1>6, <1>7, <2>1 DEF CheckpointOf
  <2> QED
    BY <1>7, <2>2 DEF SetsHaveEvidence
<1>9. \A kind \in Kinds : MembershipIsIntact(c, kind)
  BY <1>6, <1>7, MembersIntact
<1>10. ReadinessHasEvidence(c)
  <2>1. ASSUME c.account # Never
        PROVE  \E q \in Requests : /\ runs[q].result # 0 /\ runs[q].observed = c.account
                                   /\ Account \in DOMAIN ResultOf(q).rows
    <3>1. PICK q \in Requests, e \in log :
              /\ runs[q].result # 0 /\ runs[q].observed = c.account
              /\ e.id = runs[q].result /\ Account \in DOMAIN e.rows
      BY <1>1, <2>1 DEF CheckpointFits, AccountSeen
    <3>2. ResultOf(q) = e
      BY <1>1, <3>1, ResultFound
    <3> QED
      BY <3>1, <3>2
  <2>2. c.symbols # Never => SymbolsSeen(runs, c.symbols)
    BY <1>1 DEF CheckpointFits
  <2>3. c.pending # Never => CommandsSeen(runs, c.pending)
    BY <1>1 DEF CheckpointFits
  <2> QED
    BY <2>1, <2>2, <2>3 DEF ReadinessHasEvidence, SymbolsSeen, CommandsSeen
<1> QED
  BY <1>2, <1>5, <1>8, <1>9, <1>10

\* Whatever the order of snapshots, results and escalations, no later read finds
\* a run or a checkpoint that it would have to call corrupt
\* (validate_run_state_consistency, validate_checkpoint_integrity).
THEOREM StoredAlwaysReadsBack == RebuildSpec => []StoredReadsBack
<1>1. TablesInv /\ RunsInv /\ ReadInv => StoredReadsBack
  BY CheckpointIsIntact, FittingReadsBack DEF StoredReadsBack, ReadInv
<1> QED
  BY <1>1, RebuildIsInvisible, TablesInvariant, RunsInvariant, ReadInvariant, PTL

-----------------------------------------------------------------------------
\* Types.

\* A set that is listed, or none, holds payloads of its kind.
LEMMA SetTyped ==
    ASSUME TablesInv, NEW kind \in Kinds
    PROVE  tables.members[kind].rows \in Rows(KeysOf(kind))
<1>1. PICK t, L, R, c : t = tables /\ L = log /\ R = runs /\ c = t.checkpoint
  OBVIOUS
<1>2. AreEvents(L) /\ Projects(t, L, R) /\ CheckpointOf(c, L, R)
  BY <1>1 DEF TablesInv, Projects
<1>3. t.members[kind].rows = c.set[kind]
  <2>1. t.members = [i \in Kinds |-> [at |-> t.checkpoint.at, rows |-> t.checkpoint.set[i]]]
    BY <1>2, SMT DEF Projects
  <2>2. t.members[kind] = [at |-> c.at, rows |-> c.set[kind]]
    BY <1>1, <2>1
  <2> QED
    BY <2>2, SMT
<1>4. CASE Results(L) = {}
  <2>1. c.set[kind] = <<>>
    BY <1>2, <1>4 DEF CheckpointOf
  <2>2. <<>> \in [{} -> Values]
    BY SMT
  <2> QED
    BY <1>1, <1>3, <2>1, <2>2 DEF Rows
<1>5. CASE Results(L) # {}
  <2>1. PICK e \in Results(L) : e.at = c.at
    BY <1>2, <1>5 DEF CheckpointOf
  <2>2. c.set[kind] = Part(e.rows, KeysOf(kind))
    BY <1>2, <2>1 DEF CheckpointOf
  <2>3. \A k \in DOMAIN e.rows : e.rows[k] \in Values
    BY <1>2, EventFields DEF AreEvents, Results
  <2>4. Part(e.rows, KeysOf(kind)) \in [KeysOf(kind) \cap DOMAIN e.rows -> Values]
    BY <2>3 DEF Part
  <2> QED
    BY <1>1, <1>3, <2>2, <2>4 DEF Rows
<1> QED
  BY <1>4, <1>5

LEMMA TablesTyped ==
    ASSUME TablesInv
    PROVE  /\ log \subseteq Event
           /\ tables.latest \in [Keys -> [at : Times, v : Values] \cup {NoRow}]
           /\ tables.bars \in [Times -> Values \cup {Nothing}]
<1>1. PICK t, L, R : t = tables /\ L = log /\ R = runs
  OBVIOUS
<1>2. AreEvents(L) /\ Projects(t, L, R) /\ BarsOf(t.bars, L)
  BY <1>1 DEF TablesInv
<1>3. L \subseteq Event
  BY <1>2 DEF AreEvents, IsEvent
<1>4. ASSUME NEW k \in Keys PROVE t.latest[k] \in [at : Times, v : Values] \cup {NoRow}
  <2>1. PICK row, O : row = t.latest[k] /\ O = Observations(k, L)
    OBVIOUS
  <2>2. row = NoRow \/ row \in O
    BY <1>2, <2>1 DEF Projects, IsNewestOf
  <2>3. ASSUME row \in O PROVE row \in [at : Times, v : Values]
    <3>1. PICK e \in L : Counts(e, k, L) /\ row = [at |-> e.at, v |-> e.rows[k]]
      BY <2>1, <2>3 DEF Observations
    <3>2. e.at \in Times /\ e.rows[k] \in Values
      BY <1>2, <3>1, EventFields DEF AreEvents, Counts
    <3> QED
      BY <3>1, <3>2
  <2> QED
    BY <2>1, <2>2, <2>3
<1>5. t.latest = [k \in Keys |-> t.latest[k]]
  BY <1>2, SMT DEF Projects
<1>6. t.latest \in [Keys -> [at : Times, v : Values] \cup {NoRow}]
  BY <1>4, <1>5
<1>7. PICK bars : bars = t.bars
  OBVIOUS
<1>8. ASSUME NEW at \in Times PROVE bars[at] \in Values \cup {Nothing}
  <2>1. bars[at] = Nothing \/ bars[at] \in BarsAt(at, L)
    BY <1>2, <1>7 DEF BarsOf
  <2>2. BarsAt(at, L) \subseteq Values
    BY <1>2, EventFields DEF AreEvents, BarsAt
  <2> QED
    BY <2>1, <2>2
<1>9. bars \in [Times -> Values \cup {Nothing}]
  BY <1>2, <1>7, <1>8 DEF BarsOf
<1> QED
  BY <1>1, <1>3, <1>6, <1>7, <1>9

\* The columns that no result or snapshot writes.
OthersTyped ==
    /\ market \in [at : Times, v : Values] \cup {NoRow}
    /\ commands \in [Commands -> [standing : Standings, updated : ChangeTimes \cup {Never}]]
    /\ handed \subseteq Commands /\ refused \subseteq Requests

LEMMA OthersStep ==
    ASSUME OthersTyped, [Next]_vars
    PROVE  OthersTyped'
<1>1. CASE UNCHANGED <<market, commands, handed, refused>>
  BY <1>1 DEF OthersTyped
<1>2. CASE IngestStep
  BY <1>1, <1>2 DEF IngestStep, IngestSome, Ingest, reconVars
<1>3. CASE MarketStep
  <2>1. PICK tick \in Ticks : UpdateMarketSnapshot(tick.at, tick.v)
    BY <1>3 DEF MarketStep, UpdateSomeMarket
  <2>2. tick.at \in Times /\ tick.v \in Values
    BY TicksAreTimed
  <2>3. market' = market \/ market' = [at |-> tick.at, v |-> tick.v]
    BY <2>1 DEF UpdateMarketSnapshot, Newest
  <2>4. market' \in [at : Times, v : Values] \cup {NoRow}
    <3>1. [at |-> tick.at, v |-> tick.v] \in [at : Times, v : Values]
      BY <2>2
    <3>2. market \in [at : Times, v : Values] \cup {NoRow}
      BY DEF OthersTyped
    <3> QED
      BY <2>3, <3>1, <3>2
  <2>5. UNCHANGED <<commands, handed, refused>>
    BY <1>3 DEF MarketStep, reconVars
  <2> QED
    BY <2>4, <2>5 DEF OthersTyped
<1>4. ASSUME NEW answer \in Answers, NEW u, NEW s,
             \/ CommitResult(answer.event.req, answer.event, u, s)
             \/ RefuseResult(answer.event.req, answer.event, u)
      PROVE  OthersTyped'
  <2>1. UNCHANGED <<market, commands, handed>>
    BY <1>4 DEF CommitResult, RefuseResult
  <2>2. refused' \subseteq refused \cup {answer.event.req}
    BY <1>4 DEF CommitResult, RefuseResult
  <2>3. answer.event.req \in Requests
    BY AnswersAreResults
  <2> QED
    BY <2>1, <2>2, <2>3 DEF OthersTyped
<1>5. CASE RunStep
  BY <1>1, <1>5 DEF RunStep, CreateRun, Escalate
<1>6. ASSUME NEW c \in Commands, CommandMoves(c)
      PROVE  OthersTyped'
  <2>1. PICK standing \in NextStanding(commands[c].standing), at \in ChangeTimes :
            /\ commands' = [commands EXCEPT ![c] = [standing |-> standing, updated |-> at]]
            /\ handed' \subseteq handed \cup {c}
    BY <1>6 DEF CommandMoves
  <2>2. commands[c].standing \in Standings
    BY DEF OthersTyped
  <2>3. standing \in Standings
    BY <2>2 DEF NextStanding, Standings
  <2>4. commands' \in [Commands -> [standing : Standings, updated : ChangeTimes \cup {Never}]]
    BY <2>1, <2>3 DEF OthersTyped
  <2>5. UNCHANGED <<market, refused>>
    BY <1>6 DEF CommandMoves
  <2> QED
    BY <2>1, <2>4, <2>5 DEF OthersTyped
<1> QED
  BY <1>1, <1>2, <1>3, <1>4, <1>5, <1>6 DEF Next, AnswerStep, vars

\* Every reachable state is well typed: whatever arrives, the tables hold payloads
\* of their own keys and every run has the columns the code writes.
THEOREM StoreIsTyped == RebuildSpec => []TypeOK
<1>1. Init => OthersTyped
  <2> SUFFICES ASSUME Init PROVE OthersTyped
    OBVIOUS
  <2>1. \A c \in Commands : [standing |-> "UNKNOWN", updated |-> Never]
                              \in [standing : Standings, updated : ChangeTimes \cup {Never}]
    BY SMT DEF Standings
  <2>2. market = NoRow /\ handed = {} /\ refused = {}
    BY DEF Init, ProjectionsInit
  <2>3. commands = [c \in Commands |-> [standing |-> "UNKNOWN", updated |-> Never]]
    BY DEF Init
  <2>4. commands \in [Commands -> [standing : Standings, updated : ChangeTimes \cup {Never}]]
    BY <2>1, <2>3
  <2> QED
    BY <2>2, <2>4 DEF OthersTyped
<1>2. OthersTyped /\ [Next]_vars => OthersTyped'
  BY OthersStep
<1>3. TablesInv /\ ReadInv =>
          \A r \in Requests : runs[r].status \in Statuses /\ runs[r].result \in Ids \cup {0}
  <2> SUFFICES ASSUME TablesInv, ReadInv, NEW r \in Requests
               PROVE  runs[r].status \in Statuses /\ runs[r].result \in Ids \cup {0}
    OBVIOUS
  <2>1. CASE runs[r].status = "NONE"
    <3>1. runs[r] = NoRun
      BY <2>1 DEF ReadInv
    <3>2. NoRun.result = 0
      BY SMT DEF NoRun
    <3> QED
      BY <2>1, <3>1, <3>2 DEF Statuses
  <2>2. CASE RunFits(r, runs[r], log)
    <3>1. runs[r].status \in Statuses
      BY <2>2 DEF RunFits, Statuses
    <3>2. runs[r].result = 0 \/ \E e \in log : e.id = runs[r].result
      BY <2>2 DEF RunFits, Explains
    <3>3. \A e \in log : e.id \in Ids
      BY EventFields DEF TablesInv, AreEvents
    <3> QED
      BY <3>1, <3>2, <3>3
  <2> QED
    BY <2>1, <2>2 DEF ReadInv
<1>4. ReadInv => tables.checkpoint.source \in Requests \cup {0}
  BY DEF ReadInv, CheckpointFits
<1>5. TablesInv /\ ReadInv /\ OthersTyped => TypeOK
  BY <1>3, <1>4, SetTyped, TablesTyped DEF TypeOK, OthersTyped
<1> QED
  BY <1>1, <1>2, <1>5, RebuildIsInvisible, TablesInvariant, ReadInvariant, PTL DEF Spec
=============================================================================
