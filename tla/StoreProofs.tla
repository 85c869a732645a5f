----------------------------- MODULE StoreProofs -----------------------------
(***************************************************************************)
(* The database, its caches, its telemetry and its backups, for any        *)
(* policies, retentions and intervals: what every copy of the database     *)
(* holds, what an eviction and a rotation spare, what a restore can be     *)
(* undone from, what a restart finds of the telemetry, and how far apart   *)
(* the automatic backups are.                                              *)
(***************************************************************************)
EXTENDS Store, SubsequencesProofs

----------------------------------------------------------------------------
(* Rows that are deleted.                                                   *)

\* Deleting rows leaves a table with no more rows, each of which it had.
LEMMA PickedRows ==
  ASSUME NEW S, NEW table \in Seq(S), NEW P, P \subseteq DOMAIN table
  PROVE  LET rest == Picked(table, P) IN
         /\ rest \in Seq(S) /\ Len(rest) \in Nat /\ Len(rest) <= Len(table)
         /\ \A k \in DOMAIN rest : \E i \in P : rest[k] = table[i]
         /\ \A i \in P : \E k \in DOMAIN rest : rest[k] = table[i]
<1> DEFINE rest == Picked(table, P)
<1>1. Cardinality(P) \in Nat /\ Cardinality(P) <= Len(table)
  BY PositionsFinite
<1>2. /\ rest \in Seq(S) /\ Len(rest) = Cardinality(P)
      /\ DOMAIN rest = 1 .. Cardinality(P)
      /\ \A k \in 1 .. Cardinality(P) : Nth(P, k) \in P /\ rest[k] = table[Nth(P, k)]
      /\ \A i \in P : \E k \in 1 .. Cardinality(P) : Nth(P, k) = i
  BY PickedIs
<1> HIDE DEF rest
<1>3. \A k \in DOMAIN rest : \E i \in P : rest[k] = table[i]
  BY <1>2
<1>4. ASSUME NEW i \in P PROVE \E k \in DOMAIN rest : rest[k] = table[i]
  <2>1. PICK k \in 1 .. Cardinality(P) : Nth(P, k) = i
    BY <1>2
  <2> QED
    BY <1>2, <2>1
<1> QED
  BY <1>1, <1>2, <1>3, <1>4 DEF rest

\* ... in which the rows are still one per key.
LEMMA PickedTidy ==
  ASSUME NEW S, NEW table \in Seq(S), NEW P, P \subseteq DOMAIN table,
         NEW t, Tidy(table, t)
  PROVE  Tidy(Picked(table, P), t)
<1> DEFINE rest == Picked(table, P)
<1>1. /\ rest \in Seq(S) /\ DOMAIN rest = 1 .. Cardinality(P)
      /\ \A k \in 1 .. Cardinality(P) : Nth(P, k) \in P /\ rest[k] = table[Nth(P, k)]
      /\ \A k, m \in 1 .. Cardinality(P) : k < m => Nth(P, k) < Nth(P, m)
  BY PickedIs
<1>2. P \subseteq Nat /\ Cardinality(P) \in Nat
  BY PositionsFinite
<1> HIDE DEF rest
<1>3. ASSUME NEW k \in DOMAIN rest, NEW m \in DOMAIN rest, rest[k].key = rest[m].key
      PROVE  k = m
  <2>1. k \in 1 .. Cardinality(P) /\ m \in 1 .. Cardinality(P)
    BY <1>1
  <2>2. /\ Nth(P, k) \in DOMAIN table /\ Nth(P, m) \in DOMAIN table
        /\ table[Nth(P, k)].key = table[Nth(P, m)].key
    BY <1>1, <1>3, <2>1
  <2>3. Nth(P, k) = Nth(P, m) /\ Nth(P, k) \in Nat
    BY <1>1, <1>2, <2>1, <2>2 DEF Tidy
  <2>4. k < m \/ m < k \/ k = m
    BY <1>2, <2>1
  <2>5. (k < m => Nth(P, k) < Nth(P, m)) /\ (m < k => Nth(P, m) < Nth(P, k))
    BY <1>1, <2>1
  <2> QED
    BY <2>3, <2>4, <2>5
<1>4. ASSUME NEW k \in DOMAIN rest
      PROVE  rest[k].created <= rest[k].used /\ rest[k].used <= t
  <2>1. Nth(P, k) \in DOMAIN table /\ rest[k] = table[Nth(P, k)]
    BY <1>1
  <2> QED
    BY <2>1 DEF Tidy
<1> QED
  BY <1>3, <1>4 DEF Tidy, rest

LEMMA PickedLogged ==
  ASSUME NEW table, NEW t, Logged(table, t), NEW P, P \subseteq DOMAIN table
  PROVE  Logged(Picked(table, P), t)
<1> DEFINE rest == Picked(table, P)
<1>1. table \in Seq(LogRows)
  BY DEF Logged
<1>2. rest \in Seq(LogRows) /\ \A k \in DOMAIN rest : \E i \in P : rest[k] = table[i]
  BY <1>1, PickedRows
<1> HIDE DEF rest
<1>3. ASSUME NEW k \in DOMAIN rest PROVE rest[k].created <= t
  <2>1. PICK i \in P : rest[k] = table[i]
    BY <1>2
  <2> QED
    BY <2>1 DEF Logged
<1> QED
  BY <1>2, <1>3 DEF Logged, rest

----------------------------------------------------------------------------
(* Bytes.                                                                   *)

Cells(table) == UNION {{i} \X (1 .. table[i].size) : i \in DOMAIN table}

LEMMA CellsFinite ==
  ASSUME NEW keys, NEW table \in Seq(CacheRows(keys))
  PROVE  /\ IsFiniteSet(Cells(table)) /\ TotalBytes(table) = Cardinality(Cells(table))
         /\ TotalBytes(table) \in Nat
<1> DEFINE row(i) == {i} \X (1 .. table[i].size)
           all == {row(i) : i \in DOMAIN table}
           f == [i \in DOMAIN table |-> row(i)]
<1>1. Len(table) \in Nat /\ DOMAIN table = 1 .. Len(table)
  OBVIOUS
<1>2. IsFiniteSet(DOMAIN table)
  BY <1>1, UpTo
<1>3. f \in Surjection(DOMAIN table, all)
  BY DEF Surjection
<1>4. IsFiniteSet(all)
  <2> HIDE DEF all, f
  <2> QED
    BY <1>2, <1>3, FS_Surjection
<1>5. ASSUME NEW i \in DOMAIN table PROVE IsFiniteSet(row(i))
  <2>1. table[i] \in CacheRows(keys)
    OBVIOUS
  <2>2. table[i].size \in Nat
    BY <2>1, StoreAssumption DEF CacheRows
  <2>3. IsFiniteSet({i}) /\ IsFiniteSet(1 .. table[i].size)
    BY <2>2, UpTo, FS_Singleton
  <2> QED
    BY <2>3, FS_Product
<1>6. \A T \in all : IsFiniteSet(T)
  BY <1>5
<1>7. Cells(table) = UNION all
  BY DEF Cells
<1> HIDE DEF all
<1>8. IsFiniteSet(Cells(table))
  BY <1>4, <1>6, <1>7, FS_UNION
<1> QED
  BY <1>8, FS_CardinalityType DEF TotalBytes, Cells

\* Deleting rows never makes a table larger.
LEMMA PickedBytes ==
  ASSUME NEW keys, NEW table \in Seq(CacheRows(keys)), NEW P, P \subseteq DOMAIN table
  PROVE  TotalBytes(Picked(table, P)) <= TotalBytes(table)
<1> DEFINE rest == Picked(table, P)
           f == [c \in Cells(rest) |-> <<Nth(P, c[1]), c[2]>>]
<1>1. /\ rest \in Seq(CacheRows(keys)) /\ DOMAIN rest = 1 .. Cardinality(P)
      /\ \A k \in 1 .. Cardinality(P) : Nth(P, k) \in P /\ rest[k] = table[Nth(P, k)]
      /\ \A k, m \in 1 .. Cardinality(P) : k < m => Nth(P, k) < Nth(P, m)
  BY PickedIs
<1>2. P \subseteq Nat /\ Cardinality(P) \in Nat
  BY PositionsFinite
<1> HIDE DEF rest
<1>3. ASSUME NEW c \in Cells(rest)
      PROVE  /\ c = <<c[1], c[2]>> /\ c[1] \in 1 .. Cardinality(P)
             /\ c[2] \in 1 .. rest[c[1]].size
  BY <1>1 DEF Cells
<1>4. ASSUME NEW c \in Cells(rest) PROVE f[c] \in Cells(table)
  <2>1. Nth(P, c[1]) \in DOMAIN table /\ rest[c[1]] = table[Nth(P, c[1])]
    BY <1>1, <1>3
  <2>2. c[2] \in 1 .. table[Nth(P, c[1])].size
    BY <1>3, <2>1
  <2>3. f[c] = <<Nth(P, c[1]), c[2]>>
    OBVIOUS
  <2> QED
    BY <2>1, <2>2, <2>3 DEF Cells
<1>5. ASSUME NEW c \in Cells(rest), NEW d \in Cells(rest), f[c] = f[d] PROVE c = d
  <2>1. Nth(P, c[1]) = Nth(P, d[1]) /\ c[2] = d[2]
    BY <1>5
  <2>2. c[1] \in 1 .. Cardinality(P) /\ d[1] \in 1 .. Cardinality(P)
    BY <1>3
  <2>3. Nth(P, c[1]) \in Nat
    BY <1>1, <1>2, <2>2
  <2>4. c[1] < d[1] \/ d[1] < c[1] \/ c[1] = d[1]
    BY <1>2, <2>2
  <2>5. /\ c[1] < d[1] => Nth(P, c[1]) < Nth(P, d[1])
        /\ d[1] < c[1] => Nth(P, d[1]) < Nth(P, c[1])
    BY <1>1, <2>2
  <2>6. c[1] = d[1]
    BY <2>1, <2>3, <2>4, <2>5
  <2>7. c = <<c[1], c[2]>> /\ d = <<d[1], d[2]>>
    BY <1>3
  <2> QED
    BY <2>1, <2>6, <2>7
<1>6. f \in Injection(Cells(rest), Cells(table))
  <2>1. f \in [Cells(rest) -> Cells(table)]
    BY <1>4
  <2>2. DOMAIN f = Cells(rest)
    OBVIOUS
  <2> HIDE DEF f
  <2> QED
    BY <1>5, <2>1, <2>2 DEF Injection, IsInjective
<1>7. IsFiniteSet(Cells(table)) /\ TotalBytes(table) = Cardinality(Cells(table))
  BY CellsFinite
<1>8. TotalBytes(rest) = Cardinality(Cells(rest))
  BY <1>1, CellsFinite
<1> HIDE DEF f
<1> QED
  BY <1>6, <1>7, <1>8, FS_Injection DEF rest

LEMMA NoRowsNoBytes == TotalBytes(<<>>) = 0 /\ Len(<<>>) = 0
<1>1. DOMAIN <<>> = {}
  OBVIOUS
<1>2. UNION {{i} \X (1 .. <<>>[i].size) : i \in DOMAIN <<>>} = {}
  BY <1>1
<1> QED
  BY <1>2, FS_EmptySet DEF TotalBytes

----------------------------------------------------------------------------
(* Rows that are written.                                                   *)

LEMMA UpsertedIs ==
  ASSUME NEW S, NEW table \in Seq(S), NEW row \in S
  PROVE  /\ Upserted(table, row) \in Seq(S)
         /\ \A k \in DOMAIN Upserted(table, row) :
              Upserted(table, row)[k] = row \/ \E i \in DOMAIN table :
                Upserted(table, row)[k] = table[i]
<1> DEFINE same == [i \in DOMAIN table |-> IF table[i].key = row.key THEN row ELSE table[i]]
<1>1. Len(table) \in Nat /\ DOMAIN table = 1 .. Len(table)
  OBVIOUS
<1>2. CASE row.key \in Keys(table)
  <2>1. same \in [1 .. Len(table) -> S]
    BY <1>1
  <2>2. same \in Seq(S)
    BY <1>1, <2>1
  <2>3. Upserted(table, row) = same
    BY <1>2 DEF Upserted
  <2>4. DOMAIN same = DOMAIN table
    OBVIOUS
  <2> QED
    BY <1>2, <2>2, <2>3, <2>4
<1>3. CASE row.key \notin Keys(table)
  <2>1. Upserted(table, row) = Append(table, row)
    BY <1>3 DEF Upserted
  <2>2. /\ Append(table, row) \in Seq(S) /\ Len(Append(table, row)) = Len(table) + 1
        /\ DOMAIN Append(table, row) = 1 .. Len(table) + 1
        /\ Append(table, row)[Len(table) + 1] = row
        /\ \A i \in 1 .. Len(table) : Append(table, row)[i] = table[i]
    BY <1>1
  <2> QED
    BY <1>1, <2>1, <2>2
<1> QED
  BY <1>2, <1>3

LEMMA UpsertedNew ==
  ASSUME NEW S, NEW table \in Seq(S), NEW row \in S, row.key \notin Keys(table),
         NEW i \in DOMAIN table
  PROVE  i \in DOMAIN Upserted(table, row) /\ Upserted(table, row)[i] = table[i]
  BY DEF Upserted

LEMMA UpsertedTidy ==
  ASSUME NEW keys, NEW table \in Seq(CacheRows(keys)), NEW row \in CacheRows(keys),
         NEW t \in Nat, Tidy(table, t), row.created <= row.used, row.used <= t
  PROVE  Tidy(Upserted(table, row), t)
<1> DEFINE new == Upserted(table, row)
<1>1. Len(table) \in Nat /\ DOMAIN table = 1 .. Len(table)
  OBVIOUS
<1>2. \A k \in DOMAIN new : new[k] = row \/ \E i \in DOMAIN table : new[k] = table[i]
  BY UpsertedIs
<1>3. \A k \in DOMAIN new : new[k].created <= new[k].used /\ new[k].used <= t
  <2> HIDE DEF new
  <2> QED
    BY <1>2 DEF Tidy
<1>4. ASSUME NEW k \in DOMAIN new, NEW m \in DOMAIN new, new[k].key = new[m].key
      PROVE  k = m
  <2>1. CASE row.key \in Keys(table)
    <3>1. new = [i \in DOMAIN table |-> IF table[i].key = row.key THEN row ELSE table[i]]
      BY <2>1 DEF Upserted
    <3>2. k \in DOMAIN table /\ m \in DOMAIN table
      BY <3>1
    <3>3. new[k].key = table[k].key /\ new[m].key = table[m].key
      BY <3>1, <3>2
    <3> QED
      BY <1>4, <3>2, <3>3 DEF Tidy
  <2>2. CASE row.key \notin Keys(table)
    <3>1. new = Append(table, row)
      BY <2>2 DEF Upserted
    <3>2. /\ DOMAIN new = 1 .. Len(table) + 1 /\ new[Len(table) + 1] = row
          /\ \A i \in 1 .. Len(table) : new[i] = table[i]
      BY <1>1, <3>1
    <3>3. \A i \in DOMAIN table : table[i].key # row.key
      BY <2>2 DEF Keys
    <3> HIDE DEF new
    <3>4. (k \in DOMAIN table \/ k = Len(table) + 1) /\ (m \in DOMAIN table \/ m = Len(table) + 1)
      BY <1>1, <3>2
    <3> QED
      BY <1>1, <1>4, <3>2, <3>3, <3>4 DEF Tidy
  <2> QED
    BY <2>1, <2>2
<1> HIDE DEF new
<1> QED
  BY <1>3, <1>4 DEF Tidy, new

LEMMA TouchedIs ==
  ASSUME NEW keys, NEW table \in Seq(CacheRows(keys)), NEW i \in DOMAIN table, NEW t \in Nat
  PROVE  /\ Touched(table, i, t) \in Seq(CacheRows(keys))
         /\ DOMAIN Touched(table, i, t) = DOMAIN table
         /\ Len(Touched(table, i, t)) = Len(table)
         /\ \A k \in DOMAIN table :
              /\ Touched(table, i, t)[k].key = table[k].key
              /\ Touched(table, i, t)[k].size = table[k].size
              /\ Touched(table, i, t)[k].created = table[k].created
              /\ Touched(table, i, t)[k].used = IF k = i THEN t ELSE table[k].used
<1> DEFINE new == Touched(table, i, t)
<1>1. Len(table) \in Nat /\ DOMAIN table = 1 .. Len(table)
  OBVIOUS
<1>2. new = [k \in DOMAIN table |-> IF k = i THEN [table[i] EXCEPT !.used = t] ELSE table[k]]
  BY DEF Touched
<1>3. ASSUME NEW k \in DOMAIN table
      PROVE  /\ new[k] \in CacheRows(keys)
             /\ new[k].key = table[k].key /\ new[k].size = table[k].size
             /\ new[k].created = table[k].created
             /\ new[k].used = IF k = i THEN t ELSE table[k].used
  <2>1. table[k] \in CacheRows(keys)
    OBVIOUS
  <2> QED
    BY <1>2, <2>1 DEF CacheRows
<1>4. DOMAIN new = 1 .. Len(table)
  BY <1>1, <1>2
<1>5. new \in [1 .. Len(table) -> CacheRows(keys)]
  BY <1>1, <1>2, <1>3
<1>6. new \in Seq(CacheRows(keys)) /\ Len(new) = Len(table)
  BY <1>1, <1>4, <1>5
<1> HIDE DEF new
<1> QED
  BY <1>1, <1>3, <1>4, <1>6 DEF new

\* Reading a row changes neither the keys nor the sizes.
LEMMA TouchedFits ==
  ASSUME NEW keys, NEW table \in Seq(CacheRows(keys)), NEW i \in DOMAIN table, NEW t \in Nat,
         NEW policy, Fits(table, policy, t)
  PROVE  Fits(Touched(table, i, t), policy, t)
<1> DEFINE new == Touched(table, i, t)
<1>1. /\ DOMAIN new = DOMAIN table /\ Len(new) = Len(table)
      /\ \A k \in DOMAIN table :
              /\ new[k].key = table[k].key /\ new[k].size = table[k].size
              /\ new[k].created = table[k].created
              /\ new[k].used = IF k = i THEN t ELSE table[k].used
  BY TouchedIs
<1> HIDE DEF new
<1>2. \A k \in DOMAIN table : table[k].created \in Nat /\ table[k].used \in Nat
  <2>1. \A k \in DOMAIN table : table[k] \in CacheRows(keys)
    OBVIOUS
  <2> QED
    BY <2>1 DEF CacheRows
<1>3. Tidy(new, t)
  BY <1>1, <1>2 DEF Fits, Tidy
<1>4. TotalBytes(new) = TotalBytes(table)
  <2>1. {{k} \X (1 .. new[k].size) : k \in DOMAIN new}
          = {{k} \X (1 .. table[k].size) : k \in DOMAIN table}
    BY <1>1
  <2> QED
    BY <2>1 DEF TotalBytes
<1> QED
  BY <1>1, <1>3, <1>4 DEF Fits, new

----------------------------------------------------------------------------
(* Evictions.                                                               *)

\* The rows that go before row i.
Colder(table, i) ==
  {j \in DOMAIN table : \/ table[j].used < table[i].used
                        \/ table[j].used = table[i].used /\ j < i}

\* Coldness counts up the rows in the order of use: no two have the same.
LEMMA ColdnessIs ==
  ASSUME NEW keys, NEW table \in Seq(CacheRows(keys))
  PROVE  /\ \A i \in DOMAIN table : Coldness(table, i) \in 0 .. (Len(table) - 1)
         /\ \A i, j \in DOMAIN table :
              j \in Colder(table, i) => Coldness(table, j) < Coldness(table, i)
         /\ \A i, j \in DOMAIN table : Coldness(table, i) = Coldness(table, j) => i = j
<1>1. Len(table) \in Nat /\ DOMAIN table = 1 .. Len(table)
  OBVIOUS
<1>2. \A i \in DOMAIN table : table[i].used \in Nat /\ i \in Nat
  <2>1. \A i \in DOMAIN table : table[i] \in CacheRows(keys)
    OBVIOUS
  <2> QED
    BY <1>1, <2>1 DEF CacheRows
<1>3. IsFiniteSet(DOMAIN table) /\ Cardinality(DOMAIN table) = Len(table)
  BY <1>1, UpTo
<1>4. ASSUME NEW i \in DOMAIN table
      PROVE  /\ IsFiniteSet(Colder(table, i)) /\ Cardinality(Colder(table, i)) \in Nat
             /\ Coldness(table, i) = Cardinality(Colder(table, i))
             /\ Cardinality(Colder(table, i)) < Len(table)
  <2>1. Colder(table, i) \in SUBSET (DOMAIN table) /\ i \notin Colder(table, i)
    BY <1>2 DEF Colder
  <2>2. /\ IsFiniteSet(Colder(table, i))
        /\ Cardinality(Colder(table, i)) <= Cardinality(DOMAIN table)
        /\ Cardinality(DOMAIN table) = Cardinality(Colder(table, i))
             => DOMAIN table = Colder(table, i)
    BY <1>3, <2>1, FS_Subset
  <2>3. Cardinality(Colder(table, i)) \in Nat
    BY <2>2, FS_CardinalityType
  <2>4. Coldness(table, i) = Cardinality(Colder(table, i))
    BY DEF Coldness, Colder
  <2> QED
    BY <1>1, <1>3, <2>1, <2>2, <2>3, <2>4
<1>5. ASSUME NEW i \in DOMAIN table, NEW j \in DOMAIN table, j \in Colder(table, i)
      PROVE  Coldness(table, j) < Coldness(table, i)
  <2>1. Colder(table, j) \in SUBSET Colder(table, i) /\ j \notin Colder(table, j)
    BY <1>2, <1>5 DEF Colder
  <2>2. /\ Cardinality(Colder(table, j)) <= Cardinality(Colder(table, i))
        /\ Cardinality(Colder(table, i)) = Cardinality(Colder(table, j))
             => Colder(table, i) = Colder(table, j)
    BY <1>4, <2>1, FS_Subset
  <2> QED
    BY <1>4, <1>5, <2>1, <2>2
<1>6. ASSUME NEW i \in DOMAIN table, NEW j \in DOMAIN table, i # j
      PROVE  i \in Colder(table, j) \/ j \in Colder(table, i)
  BY <1>2, <1>6 DEF Colder
<1>7. \A i \in DOMAIN table : Coldness(table, i) \in 0 .. (Len(table) - 1)
  BY <1>1, <1>4
<1>8. ASSUME NEW i \in DOMAIN table, NEW j \in DOMAIN table,
             Coldness(table, i) = Coldness(table, j), i # j
      PROVE  FALSE
  BY <1>1, <1>5, <1>6, <1>7, <1>8
<1> QED
  BY <1>5, <1>7, <1>8

\* The n coldest rows are n rows, and all of them when there are no more.
LEMMA DropColdestIs ==
  ASSUME NEW keys, NEW table \in Seq(CacheRows(keys)), NEW n \in 0 .. Len(table)
  PROVE  /\ DropColdest(table, n) \in Seq(CacheRows(keys))
         /\ Len(DropColdest(table, n)) <= Len(table) - n
         /\ \A t : Tidy(table, t) => Tidy(DropColdest(table, n), t)
         /\ TotalBytes(DropColdest(table, n)) <= TotalBytes(table)
<1> DEFINE P == {i \in DOMAIN table : Coldness(table, i) >= n}
           f == [i \in P |-> Coldness(table, i)]
<1>1. DropColdest(table, n) = Picked(table, P) /\ P \subseteq DOMAIN table
  BY DEF DropColdest
<1>2. Len(table) \in Nat /\ n \in Nat
  OBVIOUS
<1>3. \A i \in P : Coldness(table, i) \in n .. (Len(table) - 1)
  BY <1>2, ColdnessIs
<1>4. \A i, j \in P : Coldness(table, i) = Coldness(table, j) => i = j
  BY ColdnessIs
<1>5. f \in [P -> n .. (Len(table) - 1)] /\ DOMAIN f = P
      /\ \A i, j \in P : f[i] = f[j] => i = j
  BY <1>3, <1>4
<1> HIDE DEF P, f
<1>6. f \in Injection(P, n .. (Len(table) - 1))
  BY <1>5 DEF Injection, IsInjective
<1>7. /\ IsFiniteSet(n .. (Len(table) - 1))
      /\ Cardinality(n .. (Len(table) - 1)) = Len(table) - n
  <2>1. Len(table) - 1 \in Int /\ n \in Int
    BY <1>2
  <2>2. /\ IsFiniteSet(n .. (Len(table) - 1))
        /\ Cardinality(n .. (Len(table) - 1))
             = IF n > Len(table) - 1 THEN 0 ELSE (Len(table) - 1) - n + 1
    BY <2>1, FS_Interval
  <2> QED
    BY <1>2, <2>2
<1>8. Cardinality(P) <= Len(table) - n
  BY <1>6, <1>7, FS_Injection
<1>9. Picked(table, P) \in Seq(CacheRows(keys)) /\ Len(Picked(table, P)) = Cardinality(P)
  BY <1>1, PickedIs
<1>10. \A t : Tidy(table, t) => Tidy(Picked(table, P), t)
  BY <1>1, PickedTidy
<1>11. TotalBytes(Picked(table, P)) <= TotalBytes(table)
  BY <1>1, PickedBytes
<1> QED
  BY <1>1, <1>8, <1>9, <1>10, <1>11

\* A row goes only when every row that stays was used at least as recently.
LEMMA DropColdestSpares ==
  ASSUME NEW keys, NEW table \in Seq(CacheRows(keys)), NEW n \in Nat
  PROVE  LET rest == DropColdest(table, n) IN
         /\ \A k \in DOMAIN rest : \E i \in DOMAIN table : rest[k] = table[i]
         /\ \A i \in DOMAIN table :
              \/ \E k \in DOMAIN rest : rest[k] = table[i]
              \/ \A k \in DOMAIN rest : rest[k].used >= table[i].used
<1> DEFINE P == {i \in DOMAIN table : Coldness(table, i) >= n}
           rest == DropColdest(table, n)
<1>1. rest = Picked(table, P) /\ P \subseteq DOMAIN table
  BY DEF DropColdest
<1>2. /\ \A k \in DOMAIN rest : \E i \in P : rest[k] = table[i]
      /\ \A i \in P : \E k \in DOMAIN rest : rest[k] = table[i]
  <2> HIDE DEF P, rest
  <2> QED
    BY <1>1, PickedRows
<1>3. ASSUME NEW i \in DOMAIN table, i \notin P, NEW j \in P
      PROVE  table[j].used >= table[i].used
  <2>1. /\ Coldness(table, i) \in Int /\ Coldness(table, j) \in Int
        /\ j \in Colder(table, i) => Coldness(table, j) < Coldness(table, i)
    BY ColdnessIs
  <2>2. j \notin Colder(table, i)
    BY <1>3, <2>1
  <2>3. table[i] \in CacheRows(keys) /\ table[j] \in CacheRows(keys)
    OBVIOUS
  <2>4. table[i].used \in Nat /\ table[j].used \in Nat
    BY <2>3 DEF CacheRows
  <2> QED
    BY <2>2, <2>4 DEF Colder
<1> HIDE DEF P, rest
<1>4. ASSUME NEW i \in DOMAIN table, i \notin P, NEW k \in DOMAIN rest
      PROVE  rest[k].used >= table[i].used
  BY <1>2, <1>3, <1>4
<1> QED
  BY <1>1, <1>2, <1>4 DEF rest

LEMMA EvictEntriesIs ==
  ASSUME NEW keys, NEW table \in Seq(CacheRows(keys)), NEW policy \in Policies
  PROVE  \E n \in 0 .. Len(table) :
           /\ EvictEntries(table, policy) = DropColdest(table, n)
           /\ Len(DropColdest(table, n)) <= policy.entries
<1> DEFINE n == Max({0, Len(table) - policy.entries})
<1>1. Len(table) \in Nat /\ policy.entries \in Nat
  BY DEF Policies
<1>2. n = IF 0 >= Len(table) - policy.entries THEN 0 ELSE Len(table) - policy.entries
  BY <1>1, MaxOfTwo
<1>3. EvictEntries(table, policy) = DropColdest(table, n)
  BY DEF EvictEntries
<1> HIDE DEF n
<1>4. n \in 0 .. Len(table) /\ Len(table) - n <= policy.entries
  BY <1>1, <1>2
<1>5. /\ DropColdest(table, n) \in Seq(CacheRows(keys))
      /\ Len(DropColdest(table, n)) <= Len(table) - n
  BY <1>4, DropColdestIs
<1>6. Len(DropColdest(table, n)) \in Nat
  BY <1>5
<1>7. Len(DropColdest(table, n)) <= policy.entries
  <2> DEFINE l == Len(DropColdest(table, n))
  <2>1. l \in Nat /\ l <= Len(table) - n
    BY <1>5, <1>6
  <2> HIDE DEF l
  <2>2. l <= policy.entries
    BY <1>1, <1>4, <2>1
  <2> QED
    BY <2>2 DEF l
<1> QED
  BY <1>3, <1>4, <1>7

\* The loop ends: with every row deleted nothing is left to count.
LEMMA EvictBytesIs ==
  ASSUME NEW keys, NEW table \in Seq(CacheRows(keys)), NEW policy \in Policies
  PROVE  \E n \in 0 .. Len(table) :
           /\ EvictBytes(table, policy) = DropColdest(table, n)
           /\ TotalBytes(DropColdest(table, n)) <= policy.bytes
<1> DEFINE fit(n) == TotalBytes(DropColdest(table, n)) <= policy.bytes
           S == {n \in 0 .. Len(table) : fit(n)}
<1>1. Len(table) \in Nat /\ policy.bytes \in Nat
  BY DEF Policies
<1>2. fit(Len(table))
  <2> DEFINE P == {i \in DOMAIN table : Coldness(table, i) >= Len(table)}
  <2>1. \A i \in DOMAIN table : Coldness(table, i) \in 0 .. (Len(table) - 1)
    BY ColdnessIs
  <2>2. P = {}
    BY <1>1, <2>1
  <2>3. DropColdest(table, Len(table)) = Picked(table, {})
    BY <2>2 DEF DropColdest
  <2>4. Picked(table, {}) \in Seq(CacheRows(keys)) /\ Len(Picked(table, {})) = 0
    <3>1. {} \subseteq DOMAIN table
      OBVIOUS
    <3> QED
      BY <3>1, PickedIs, FS_EmptySet
  <2>5. Picked(table, {}) = <<>>
    BY <2>4
  <2>6. TotalBytes(DropColdest(table, Len(table))) = 0
    BY <2>3, <2>5, NoRowsNoBytes
  <2> QED
    BY <1>1, <2>6
<1>3. Len(table) \in S /\ S \subseteq Nat
  BY <1>1, <1>2
<1>4. EvictBytes(table, policy) = DropColdest(table, Min(S))
  BY DEF EvictBytes
<1>5. \A n \in S : n \in 0 .. Len(table) /\ fit(n)
  OBVIOUS
<1> HIDE DEF S
<1>6. \E n \in S : \A m \in S : n <= m
  BY <1>3, LeastNatural
<1>7. Min(S) \in S
  BY <1>6 DEF Min
<1>8. Min(S) \in 0 .. Len(table) /\ fit(Min(S))
  BY <1>5, <1>7
<1> QED
  BY <1>4, <1>8

\* The four stages of a put.
LEMMA PutStages ==
  ASSUME NEW keys, NEW table \in Seq(CacheRows(keys)), NEW row \in CacheRows(keys),
         NEW policy \in Policies
  PROVE  LET all == Upserted(table, row)
             young == Pruned(all, row.created - policy.ttl)
         IN  /\ all \in Seq(CacheRows(keys)) /\ young \in Seq(CacheRows(keys))
             /\ \E n \in 0 .. Len(young) :
                  LET few == DropColdest(young, n) IN
                  /\ few \in Seq(CacheRows(keys)) /\ Len(few) <= policy.entries
                  /\ \E m \in 0 .. Len(few) :
                       /\ Put(table, row, policy) = DropColdest(few, m)
                       /\ TotalBytes(DropColdest(few, m)) <= policy.bytes
<1> DEFINE all == Upserted(table, row)
           before == row.created - policy.ttl
           P == {i \in DOMAIN all : all[i].created >= before}
           young == Pruned(all, before)
<1>1. all \in Seq(CacheRows(keys))
  BY UpsertedIs
<1>2. young = Picked(all, P) /\ P \subseteq DOMAIN all
  BY DEF Pruned
<1>3. young \in Seq(CacheRows(keys))
  <2> HIDE DEF all, P, young
  <2> QED
    BY <1>1, <1>2, PickedIs
<1>4. Put(table, row, policy) = EvictBytes(EvictEntries(young, policy), policy)
  BY DEF Put
<1> HIDE DEF all, young
<1>5. PICK n \in 0 .. Len(young) :
         /\ EvictEntries(young, policy) = DropColdest(young, n)
         /\ Len(DropColdest(young, n)) <= policy.entries
  BY <1>3, EvictEntriesIs
<1> DEFINE few == DropColdest(young, n)
<1>6. few \in Seq(CacheRows(keys))
  BY <1>3, DropColdestIs
<1> HIDE DEF few
<1>7. PICK m \in 0 .. Len(few) :
         /\ EvictBytes(few, policy) = DropColdest(few, m)
         /\ TotalBytes(DropColdest(few, m)) <= policy.bytes
  BY <1>6, EvictBytesIs
<1>8. Put(table, row, policy) = DropColdest(few, m)
  BY <1>4, <1>5, <1>7 DEF few
<1>9. Len(few) <= policy.entries
  BY <1>5 DEF few
<1> QED
  BY <1>1, <1>3, <1>6, <1>7, <1>8, <1>9 DEF few, young, all

\* A put leaves the cache within its limits, whatever it held.
LEMMA PutFits ==
  ASSUME NEW keys, NEW table \in Seq(CacheRows(keys)), NEW row \in CacheRows(keys),
         NEW policy \in Policies, NEW t \in Nat, Tidy(table, t),
         row.created <= row.used, row.used <= t
  PROVE  /\ Put(table, row, policy) \in Seq(CacheRows(keys))
         /\ Fits(Put(table, row, policy), policy, t)
<1> DEFINE all == Upserted(table, row)
           before == row.created - policy.ttl
           P == {i \in DOMAIN all : all[i].created >= before}
           young == Pruned(all, before)
<1>1. all \in Seq(CacheRows(keys)) /\ young \in Seq(CacheRows(keys))
  BY PutStages
<1>2. PICK n \in 0 .. Len(young) :
        LET few == DropColdest(young, n) IN
        /\ few \in Seq(CacheRows(keys)) /\ Len(few) <= policy.entries
        /\ \E m \in 0 .. Len(few) :
             /\ Put(table, row, policy) = DropColdest(few, m)
             /\ TotalBytes(DropColdest(few, m)) <= policy.bytes
  BY PutStages
<1>3. Tidy(all, t)
  BY UpsertedTidy
<1>4. young = Picked(all, P) /\ P \subseteq DOMAIN all
  BY DEF Pruned
<1> HIDE DEF all, P, young
<1>5. Tidy(young, t)
  BY <1>1, <1>3, <1>4, PickedTidy
<1> DEFINE few == DropColdest(young, n)
<1>6. Tidy(few, t)
  BY <1>1, <1>5, DropColdestIs
<1> HIDE DEF few
<1>7. few \in Seq(CacheRows(keys)) /\ Len(few) <= policy.entries
  BY <1>2 DEF few
<1>8. PICK m \in 0 .. Len(few) :
             /\ Put(table, row, policy) = DropColdest(few, m)
             /\ TotalBytes(DropColdest(few, m)) <= policy.bytes
  BY <1>2 DEF few
<1> DEFINE new == DropColdest(few, m)
<1>9. /\ new \in Seq(CacheRows(keys)) /\ Len(new) <= Len(few) - m
      /\ Tidy(new, t)
  BY <1>6, <1>7, DropColdestIs
<1>10. Put(table, row, policy) = new /\ TotalBytes(new) <= policy.bytes
  BY <1>8
<1> HIDE DEF new
<1>11. Len(new) \in Nat /\ Len(few) \in Nat /\ policy.entries \in Nat
  BY <1>7, <1>9 DEF Policies
<1>12. Len(new) <= policy.entries
  <2> DEFINE a == Len(new)
             b == Len(few)
  <2>1. a \in Nat /\ b \in Nat /\ a <= b - m /\ b <= policy.entries /\ m \in 0 .. b
    BY <1>7, <1>8, <1>9, <1>11
  <2> HIDE DEF a, b
  <2>2. a <= policy.entries
    BY <1>11, <2>1
  <2> QED
    BY <2>2 DEF a
<1> QED
  BY <1>9, <1>10, <1>12 DEF Fits

\* A put for a new key spares what is current and warmer than what stays.
LEMMA PutIsLru ==
  ASSUME NEW keys, NEW table \in Seq(CacheRows(keys)), NEW row \in CacheRows(keys),
         NEW policy \in Policies
  PROVE  LET new == Put(table, row, policy) IN
         (\E fresh \in Rows(new) \ Rows(table) : fresh.key \notin Keys(table)) =>
           \A gone \in Rows(table) :
             \/ gone.key \in Keys(new)
             \/ gone.created < row.created - policy.ttl
             \/ \A kept \in Rows(new) : kept.used >= gone.used
<1> DEFINE new == Put(table, row, policy)
           all == Upserted(table, row)
           before == row.created - policy.ttl
           P == {i \in DOMAIN all : all[i].created >= before}
           young == Pruned(all, before)
<1>1. all \in Seq(CacheRows(keys)) /\ young \in Seq(CacheRows(keys))
  BY PutStages
<1>2. PICK n \in 0 .. Len(young) :
        LET few == DropColdest(young, n) IN
        /\ few \in Seq(CacheRows(keys)) /\ Len(few) <= policy.entries
        /\ \E m \in 0 .. Len(few) :
             /\ Put(table, row, policy) = DropColdest(few, m)
             /\ TotalBytes(DropColdest(few, m)) <= policy.bytes
  BY PutStages
<1>3. young = Picked(all, P) /\ P \subseteq DOMAIN all
  BY DEF Pruned
<1>4. /\ \A k \in DOMAIN all : all[k] = row \/ \E i \in DOMAIN table : all[k] = table[i]
      /\ row.key \notin Keys(table) =>
              \A i \in DOMAIN table : i \in DOMAIN all /\ all[i] = table[i]
  <2>1. \A k \in DOMAIN all : all[k] = row \/ \E i \in DOMAIN table : all[k] = table[i]
    BY UpsertedIs
  <2>2. ASSUME row.key \notin Keys(table), NEW i \in DOMAIN table
        PROVE  i \in DOMAIN all /\ all[i] = table[i]
    BY <2>2, UpsertedNew
  <2> QED
    BY <2>1, <2>2
<1>5. \A i \in DOMAIN all : all[i].created >= before => i \in P
  OBVIOUS
<1> HIDE DEF new, all, P, young
<1>6. /\ \A k \in DOMAIN young : \E i \in P : young[k] = all[i]
      /\ \A i \in P : \E k \in DOMAIN young : young[k] = all[i]
  BY <1>1, <1>3, PickedRows
<1> DEFINE few == DropColdest(young, n)
<1>7. n \in Nat
  BY <1>1
<1>8. /\ \A k \in DOMAIN few : \E i \in DOMAIN young : few[k] = young[i]
      /\ \A i \in DOMAIN young :
           \/ \E k \in DOMAIN few : few[k] = young[i]
           \/ \A k \in DOMAIN few : few[k].used >= young[i].used
  BY <1>1, <1>7, DropColdestSpares
<1>9. few \in Seq(CacheRows(keys))
  BY <1>2
<1> HIDE DEF few
<1>10. PICK m \in 0 .. Len(few) : new = DropColdest(few, m)
  BY <1>2 DEF few, new
<1>11. m \in Nat
  BY <1>9
<1>12. /\ \A k \in DOMAIN new : \E i \in DOMAIN few : new[k] = few[i]
       /\ \A i \in DOMAIN few :
           \/ \E k \in DOMAIN new : new[k] = few[i]
           \/ \A k \in DOMAIN new : new[k].used >= few[i].used
  BY <1>9, <1>10, <1>11, DropColdestSpares
<1>13. \A k \in DOMAIN new : new[k] = row \/ \E i \in DOMAIN table : new[k] = table[i]
  BY <1>3, <1>4, <1>6, <1>8, <1>12
<1>14. ASSUME NEW fresh \in Rows(new) \ Rows(table), fresh.key \notin Keys(table)
       PROVE  row.key \notin Keys(table)
  <2>1. PICK k \in DOMAIN new : fresh = new[k]
    BY <1>14 DEF Rows
  <2>2. new[k] = row
    BY <1>13, <1>14, <2>1 DEF Rows
  <2> QED
    BY <1>14, <2>1, <2>2
<1>15. ASSUME row.key \notin Keys(table), NEW gone \in Rows(table),
              gone.key \notin Keys(new), ~(gone.created < row.created - policy.ttl)
       PROVE  \A kept \in Rows(new) : kept.used >= gone.used
  <2>1. PICK i \in DOMAIN table : gone = table[i]
    BY <1>15 DEF Rows
  <2>2. i \in DOMAIN all /\ all[i] = gone
    BY <1>4, <1>15, <2>1
  <2>a. gone \in CacheRows(keys) /\ policy.ttl \in Nat
    BY <2>1 DEF Policies
  <2>b. gone.created \in Nat /\ row.created \in Nat
    BY <2>a DEF CacheRows
  <2>c. gone.created >= row.created - policy.ttl
    BY <1>15, <2>a, <2>b
  <2>3. gone.created >= before
    BY <2>c
  <2>4. PICK j \in DOMAIN young : young[j] = gone
    BY <1>5, <1>6, <2>2, <2>3
  <2>5. CASE \A k \in DOMAIN few : few[k].used >= young[j].used
    <3>1. ASSUME NEW k \in DOMAIN new PROVE new[k].used >= gone.used
      BY <1>12, <2>4, <2>5
    <3> QED
      BY <3>1 DEF Rows
  <2>6. CASE \E k \in DOMAIN few : few[k] = young[j]
    <3>1. PICK k \in DOMAIN few : few[k] = gone
      BY <2>4, <2>6
    <3>2. ~ \E l \in DOMAIN new : new[l] = few[k]
      BY <1>15, <3>1 DEF Keys
    <3>3. \A l \in DOMAIN new : new[l].used >= gone.used
      BY <1>12, <3>1, <3>2
    <3> QED
      BY <3>3 DEF Rows
  <2> QED
    BY <1>8, <2>5, <2>6
<1> HIDE DEF before
<1> QED
  BY <1>14, <1>15 DEF new

LEMMA PutSpares ==
  ASSUME NEW keys, NEW table \in Seq(CacheRows(keys)), NEW row \in CacheRows(keys),
         NEW policy \in Policies, row.created = now
  PROVE  SparesWarm(table, Put(table, row, policy), policy)
  BY PutIsLru DEF SparesWarm

\* A cache that gains no key spares everything.
LEMMA NoNewKeySpares ==
  ASSUME NEW old, NEW new, NEW policy,
         \A k \in DOMAIN new : new[k].key \in Keys(old)
  PROVE  SparesWarm(old, new, policy)
  BY DEF SparesWarm, Rows

----------------------------------------------------------------------------
(* Databases.                                                               *)

LEMMA Constants ==
  /\ SearchPolicy \in Policies /\ DocumentPolicy \in Policies
  /\ SearchPolicy.entries \in Nat /\ SearchPolicy.bytes \in Nat
  /\ DocumentPolicy.entries \in Nat /\ DocumentPolicy.bytes \in Nat
  /\ Interval \in Nat \ {0} /\ MaxCount \in Nat \ {0}
  /\ MaxNow \in Nat /\ MaxWork \in Nat
<1>1. SearchPolicy \in Policies /\ DocumentPolicy \in Policies
  BY TablesAssumption
<1> QED
  BY <1>1, StoreAssumption DEF Policies

LEMMA CutoffIs ==
  ASSUME NEW kind \in {"telemetry", "history", "search", "documents", "audit"}, NEW t \in Nat
  PROVE  Cutoff(kind, t) \in Int /\ Cutoff(kind, t) <= t
<1>1. Retention[kind] \in Nat /\ Day \in Nat
  BY TablesAssumption
<1> DEFINE d == Retention[kind] * Day
<1>2. d \in Nat
  BY <1>1
<1>3. Cutoff(kind, t) = t - d
  BY DEF Cutoff
<1> HIDE DEF d
<1> QED
  BY <1>2, <1>3

LEMMA DatabaseFields ==
  ASSUME NEW db \in Databases
  PROVE  /\ db.version \in 0 .. CurrentVersion
         /\ db.search \in Seq(CacheRows(Queries))
         /\ db.documents \in Seq(CacheRows(Pages \X Hashes))
         /\ db.telemetry \in Seq(LogRows) /\ db.history \in Seq(LogRows)
         /\ db.audit \in Seq(LogRows) /\ db.saved \in Seq(CacheRows(SavedKeys))
  BY DEF Databases

LEMMA EmptyFits ==
  ASSUME NEW policy \in Policies, NEW t
  PROVE  Fits(<<>>, policy, t)
<1>1. Tidy(<<>>, t)
  BY DEF Tidy
<1>2. policy.entries \in Nat /\ policy.bytes \in Nat
  BY DEF Policies
<1> QED
  BY <1>1, <1>2, NoRowsNoBytes DEF Fits

LEMMA EmptyLogged ==
  ASSUME NEW t
  PROVE  Logged(<<>>, t)
  BY DEF Logged

LEMMA JoinedLogged ==
  ASSUME NEW a, NEW b, NEW t, Logged(a, t), Logged(b, t)
  PROVE  Logged(a \o b, t)
<1>1. a \in Seq(LogRows) /\ b \in Seq(LogRows)
  BY DEF Logged
<1>2. a \o b \in Seq(LogRows)
  BY <1>1
<1>3. ASSUME NEW i \in DOMAIN (a \o b) PROVE (a \o b)[i].created <= t
  <2>1. /\ Len(a) \in Nat /\ Len(b) \in Nat /\ i \in 1 .. (Len(a) + Len(b))
        /\ DOMAIN a = 1 .. Len(a) /\ DOMAIN b = 1 .. Len(b)
    BY <1>1
  <2>2. CASE i <= Len(a)
    <3>1. (a \o b)[i] = a[i] /\ i \in DOMAIN a
      BY <1>1, <2>1, <2>2
    <3> QED
      BY <3>1 DEF Logged
  <2>3. CASE i > Len(a)
    <3>1. (a \o b)[i] = b[i - Len(a)] /\ i - Len(a) \in DOMAIN b
      BY <1>1, <2>1, <2>3
    <3> QED
      BY <3>1 DEF Logged
  <2> QED
    BY <2>1, <2>2, <2>3
<1> QED
  BY <1>2, <1>3 DEF Logged

LEMMA EmptyIsWellFormed ==
  ASSUME NEW t \in Nat
  PROVE  WellFormed(Empty, t) /\ Empty.version = 0
<1>1. Empty \in Databases
  <2>1. 0 \in 0 .. CurrentVersion
    BY DEF CurrentVersion
  <2>2. \A S : <<>> \in Seq(S)
    OBVIOUS
  <2> QED
    BY <2>1, <2>2 DEF Empty, Databases
<1>2. Fits(<<>>, SearchPolicy, t) /\ Fits(<<>>, DocumentPolicy, t) /\ Logged(<<>>, t)
  BY Constants, EmptyFits, EmptyLogged
<1>3. WellFormed(Empty, t)
  BY <1>1, <1>2 DEF WellFormed, Empty
<1> QED
  BY <1>3 DEF Empty

\* What was right stays right as the clock goes on.
LEMMA LaterFits ==
  ASSUME NEW keys, NEW table \in Seq(CacheRows(keys)), NEW policy,
         NEW t \in Nat, NEW u \in Nat, t <= u, Fits(table, policy, t)
  PROVE  Fits(table, policy, u)
<1>1. \A i \in DOMAIN table : table[i] \in CacheRows(keys)
  OBVIOUS
<1>2. \A i \in DOMAIN table : table[i].used \in Nat
  BY <1>1 DEF CacheRows
<1>3. \A i \in DOMAIN table : table[i].used <= u
  BY <1>2 DEF Fits, Tidy
<1> QED
  BY <1>3 DEF Fits, Tidy

LEMMA LaterLogged ==
  ASSUME NEW table, NEW t \in Nat, NEW u \in Nat, t <= u, Logged(table, t)
  PROVE  Logged(table, u)
<1>1. table \in Seq(LogRows) /\ \A i \in DOMAIN table : table[i].created <= t
  BY DEF Logged
<1>2. \A i \in DOMAIN table : table[i] \in LogRows
  BY <1>1
<1>3. \A i \in DOMAIN table : table[i].created \in Nat
  BY <1>2 DEF LogRows
<1>4. \A i \in DOMAIN table : table[i].created <= u
  BY <1>1, <1>3
<1> QED
  BY <1>1, <1>4 DEF Logged

LEMMA LaterWellFormed ==
  ASSUME NEW db, NEW t \in Nat, NEW u \in Nat, t <= u, WellFormed(db, t)
  PROVE  WellFormed(db, u)
<1>1. db \in Databases
  BY DEF WellFormed
<1>2. db.search \in Seq(CacheRows(Queries)) /\ db.documents \in Seq(CacheRows(Pages \X Hashes))
  BY <1>1, DatabaseFields
<1>3. Fits(db.search, SearchPolicy, u)
  BY <1>2, LaterFits DEF WellFormed
<1>4. Fits(db.documents, DocumentPolicy, u)
  BY <1>2, LaterFits DEF WellFormed
<1>5. Logged(db.telemetry, u) /\ Logged(db.history, u) /\ Logged(db.audit, u)
  BY LaterLogged DEF WellFormed
<1> QED
  BY <1>3, <1>4, <1>5 DEF WellFormed

LEMMA LaterSound ==
  ASSUME NEW file, NEW t \in Nat, NEW u \in Nat, t <= u, Sound(file, t)
  PROVE  Sound(file, u)
  BY LaterWellFormed DEF Sound

LEMMA LaterShelved ==
  ASSUME NEW set, NEW t \in Nat, NEW u \in Nat, t <= u, Shelved(set, t)
  PROVE  Shelved(set, u)
<1>1. \A f \in set : f \in Backups /\ Sound(f.file, t) /\ f.at <= t
  BY DEF Shelved
<1>2. \A f \in set : Sound(f.file, u)
  BY <1>1, LaterSound
<1>3. \A f \in set : f.at \in Nat
  BY <1>1 DEF Backups
<1>4. \A f \in set : f.at <= u
  BY <1>1, <1>3
<1> QED
  BY <1>2, <1>4 DEF Shelved

\* A database with another table.
LEMMA WithSearch ==
  ASSUME NEW db, NEW t, WellFormed(db, t),
         NEW new \in Seq(CacheRows(Queries)), Fits(new, SearchPolicy, t)
  PROVE  LET next == [db EXCEPT !.search = new] IN
         /\ WellFormed(next, t) /\ next.version = db.version
         /\ next.search = new
         /\ next.documents = db.documents
         /\ next.telemetry = db.telemetry
<1> DEFINE next == [db EXCEPT !.search = new]
<1>1. db \in Databases
  BY DEF WellFormed
<1>2. new \in Seq(CacheRows(Queries))
  OBVIOUS
<1>3. /\ next \in Databases
      /\ next.version = db.version
      /\ next.search = new
      /\ next.documents = db.documents
      /\ next.telemetry = db.telemetry
      /\ next.history = db.history
      /\ next.audit = db.audit
      /\ next.saved = db.saved
  BY <1>1, <1>2 DEF Databases
<1> HIDE DEF next
<1>4. WellFormed(next, t)
  BY <1>3 DEF WellFormed, CurrentVersion
<1> QED
  BY <1>3, <1>4 DEF next

LEMMA WithDocuments ==
  ASSUME NEW db, NEW t, WellFormed(db, t), db.version = CurrentVersion,
         NEW new \in Seq(CacheRows(Pages \X Hashes)), Fits(new, DocumentPolicy, t)
  PROVE  LET next == [db EXCEPT !.documents = new] IN
         /\ WellFormed(next, t) /\ next.version = db.version
         /\ next.search = db.search
         /\ next.documents = new
         /\ next.telemetry = db.telemetry
<1> DEFINE next == [db EXCEPT !.documents = new]
<1>1. db \in Databases
  BY DEF WellFormed
<1>2. new \in Seq(CacheRows(Pages \X Hashes))
  OBVIOUS
<1>3. /\ next \in Databases
      /\ next.version = db.version
      /\ next.search = db.search
      /\ next.documents = new
      /\ next.telemetry = db.telemetry
      /\ next.history = db.history
      /\ next.audit = db.audit
      /\ next.saved = db.saved
  BY <1>1, <1>2 DEF Databases
<1> HIDE DEF next
<1>4. WellFormed(next, t)
  BY <1>3 DEF WellFormed, CurrentVersion
<1> QED
  BY <1>3, <1>4 DEF next

LEMMA WithTelemetry ==
  ASSUME NEW db, NEW t, WellFormed(db, t),
         NEW new, Logged(new, t)
  PROVE  LET next == [db EXCEPT !.telemetry = new] IN
         /\ WellFormed(next, t) /\ next.version = db.version
         /\ next.search = db.search
         /\ next.documents = db.documents
         /\ next.telemetry = new
<1> DEFINE next == [db EXCEPT !.telemetry = new]
<1>1. db \in Databases
  BY DEF WellFormed
<1>2. new \in Seq(LogRows)
  BY DEF Logged
<1>3. /\ next \in Databases
      /\ next.version = db.version
      /\ next.search = db.search
      /\ next.documents = db.documents
      /\ next.telemetry = new
      /\ next.history = db.history
      /\ next.audit = db.audit
      /\ next.saved = db.saved
  BY <1>1, <1>2 DEF Databases
<1> HIDE DEF next
<1>4. WellFormed(next, t)
  BY <1>3 DEF WellFormed, CurrentVersion
<1> QED
  BY <1>3, <1>4 DEF next

LEMMA WithHistory ==
  ASSUME NEW db, NEW t, WellFormed(db, t), db.version = CurrentVersion,
         NEW new, Logged(new, t)
  PROVE  LET next == [db EXCEPT !.history = new] IN
         /\ WellFormed(next, t) /\ next.version = db.version
         /\ next.search = db.search
         /\ next.documents = db.documents
         /\ next.telemetry = db.telemetry
<1> DEFINE next == [db EXCEPT !.history = new]
<1>1. db \in Databases
  BY DEF WellFormed
<1>2. new \in Seq(LogRows)
  BY DEF Logged
<1>3. /\ next \in Databases
      /\ next.version = db.version
      /\ next.search = db.search
      /\ next.documents = db.documents
      /\ next.telemetry = db.telemetry
      /\ next.history = new
      /\ next.audit = db.audit
      /\ next.saved = db.saved
  BY <1>1, <1>2 DEF Databases
<1> HIDE DEF next
<1>4. WellFormed(next, t)
  BY <1>3 DEF WellFormed, CurrentVersion
<1> QED
  BY <1>3, <1>4 DEF next

LEMMA WithAudit ==
  ASSUME NEW db, NEW t, WellFormed(db, t), db.version = CurrentVersion,
         NEW new, Logged(new, t)
  PROVE  LET next == [db EXCEPT !.audit = new] IN
         /\ WellFormed(next, t) /\ next.version = db.version
         /\ next.search = db.search
         /\ next.documents = db.documents
         /\ next.telemetry = db.telemetry
<1> DEFINE next == [db EXCEPT !.audit = new]
<1>1. db \in Databases
  BY DEF WellFormed
<1>2. new \in Seq(LogRows)
  BY DEF Logged
<1>3. /\ next \in Databases
      /\ next.version = db.version
      /\ next.search = db.search
      /\ next.documents = db.documents
      /\ next.telemetry = db.telemetry
      /\ next.history = db.history
      /\ next.audit = new
      /\ next.saved = db.saved
  BY <1>1, <1>2 DEF Databases
<1> HIDE DEF next
<1>4. WellFormed(next, t)
  BY <1>3 DEF WellFormed, CurrentVersion
<1> QED
  BY <1>3, <1>4 DEF next

LEMMA WithSaved ==
  ASSUME NEW db, NEW t, WellFormed(db, t), db.version = CurrentVersion,
         NEW new \in Seq(CacheRows(SavedKeys))
  PROVE  LET next == [db EXCEPT !.saved = new] IN
         /\ WellFormed(next, t) /\ next.version = db.version
         /\ next.search = db.search
         /\ next.documents = db.documents
         /\ next.telemetry = db.telemetry
<1> DEFINE next == [db EXCEPT !.saved = new]
<1>1. db \in Databases
  BY DEF WellFormed
<1>2. new \in Seq(CacheRows(SavedKeys))
  OBVIOUS
<1>3. /\ next \in Databases
      /\ next.version = db.version
      /\ next.search = db.search
      /\ next.documents = db.documents
      /\ next.telemetry = db.telemetry
      /\ next.history = db.history
      /\ next.audit = db.audit
      /\ next.saved = new
  BY <1>1, <1>2 DEF Databases
<1> HIDE DEF next
<1>4. WellFormed(next, t)
  BY <1>3 DEF WellFormed, CurrentVersion
<1> QED
  BY <1>3, <1>4 DEF next

LEMMA WithVersion ==
  ASSUME NEW db \in Databases, NEW n \in 0 .. CurrentVersion
  PROVE  LET next == [db EXCEPT !.version = n] IN
         /\ next \in Databases /\ next.version = n
         /\ next.search = db.search
         /\ next.documents = db.documents
         /\ next.telemetry = db.telemetry
         /\ next.history = db.history
         /\ next.audit = db.audit
         /\ next.saved = db.saved
  BY DEF Databases

LEMMA MigratedIs ==
  ASSUME NEW db, NEW t, WellFormed(db, t)
  PROVE  /\ WellFormed(Migrated(db), t) /\ Migrated(db).version = CurrentVersion
         /\ Migrated(db).telemetry = db.telemetry
<1> DEFINE next == Migrated(db)
<1>1. db \in Databases
  BY DEF WellFormed
<1>2. /\ next \in Databases /\ next.version = CurrentVersion
      /\ next.search = db.search
      /\ next.documents = db.documents
      /\ next.telemetry = db.telemetry
      /\ next.history = db.history
      /\ next.audit = db.audit
  <2>1. CurrentVersion \in 0 .. CurrentVersion
    BY DEF CurrentVersion
  <2> QED
    BY <1>1, <2>1, WithVersion DEF Migrated
<1> HIDE DEF next
<1>3. WellFormed(next, t)
  BY <1>2 DEF WellFormed, CurrentVersion
<1> QED
  BY <1>2, <1>3 DEF next

LEMMA DowngradedIs ==
  ASSUME NEW db, NEW t, WellFormed(db, t), db.version > 1
  PROVE  WellFormed(Downgraded(db, db.version), t)
<1> DEFINE v == db.version
           down == [db EXCEPT !.version = v - 1]
<1>a. db \in Databases
  BY DEF WellFormed
<1>b. v \in 0 .. CurrentVersion /\ v > 1
  BY <1>a, DatabaseFields
<1> HIDE DEF v
<1>1. db \in Databases /\ v \in 2 .. 7 /\ v - 1 \in 0 .. CurrentVersion
  BY <1>a, <1>b DEF CurrentVersion
<1>2. /\ down \in Databases /\ down.version = v - 1
      /\ down.search = db.search
      /\ down.documents = db.documents
      /\ down.telemetry = db.telemetry
      /\ down.history = db.history
      /\ down.audit = db.audit
      /\ down.saved = db.saved
  BY <1>1, WithVersion
<1> HIDE DEF down
<1>c. down \in Databases /\ \A S : <<>> \in Seq(S)
  BY <1>2
<1>3. Fits(<<>>, DocumentPolicy, t) /\ Logged(<<>>, t)
  BY Constants, EmptyFits, EmptyLogged
<1>4. CASE v = 7
  <2> DEFINE next == Downgraded(db, v)
  <2>1. next = [down EXCEPT !.audit = <<>>]
    BY <1>4 DEF Downgraded, down
  <2> HIDE DEF next
  <2>2. next \in Databases
    BY <1>c, <2>1 DEF Databases
  <2>3. /\ next.version = v - 1
        /\ next.search = db.search
        /\ next.documents = db.documents
        /\ next.telemetry = db.telemetry
        /\ next.history = db.history
        /\ next.audit = <<>>
        /\ next.saved = db.saved
    BY <1>2, <2>1 DEF Databases
  <2>4. WellFormed(next, t)
    BY <1>1, <1>3, <1>4, <2>2, <2>3 DEF WellFormed, v
  <2> QED
    BY <2>4 DEF next, v
<1>5. CASE v = 3
  <2> DEFINE next == Downgraded(db, v)
  <2>1. next = [down EXCEPT !.history = <<>>, !.saved = <<>>]
    BY <1>5 DEF Downgraded, down
  <2> HIDE DEF next
  <2>2. next \in Databases
    BY <1>c, <2>1 DEF Databases
  <2>3. /\ next.version = v - 1
        /\ next.search = db.search
        /\ next.documents = db.documents
        /\ next.telemetry = db.telemetry
        /\ next.history = <<>>
        /\ next.audit = db.audit
        /\ next.saved = <<>>
    BY <1>2, <2>1 DEF Databases
  <2>4. WellFormed(next, t)
    BY <1>1, <1>3, <1>5, <2>2, <2>3 DEF WellFormed, v
  <2> QED
    BY <2>4 DEF next, v
<1>6. CASE v = 2
  <2> DEFINE next == Downgraded(db, v)
  <2>1. next = [down EXCEPT !.documents = <<>>]
    BY <1>6 DEF Downgraded, down
  <2> HIDE DEF next
  <2>2. next \in Databases
    BY <1>c, <2>1 DEF Databases
  <2>3. /\ next.version = v - 1
        /\ next.search = db.search
        /\ next.documents = <<>>
        /\ next.telemetry = db.telemetry
        /\ next.history = db.history
        /\ next.audit = db.audit
        /\ next.saved = db.saved
    BY <1>2, <2>1 DEF Databases
  <2>4. WellFormed(next, t)
    BY <1>1, <1>3, <1>6, <2>2, <2>3 DEF WellFormed, v
  <2> QED
    BY <2>4 DEF next, v
<1>7. CASE v \notin {7, 3, 2}
  <2> DEFINE next == Downgraded(db, v)
  <2>1. next = down
    BY <1>7 DEF Downgraded, down
  <2> HIDE DEF next
  <2>2. next \in Databases
    BY <1>c, <2>1 DEF Databases
  <2>3. /\ next.version = v - 1
        /\ next.search = db.search
        /\ next.documents = db.documents
        /\ next.telemetry = db.telemetry
        /\ next.history = db.history
        /\ next.audit = db.audit
        /\ next.saved = db.saved
    BY <1>2, <2>1 DEF Databases
  <2>4. WellFormed(next, t)
    BY <1>1, <1>3, <1>7, <2>2, <2>3 DEF WellFormed, v
  <2> QED
    BY <2>4 DEF next, v
<1> QED
  BY <1>1, <1>4, <1>5, <1>6, <1>7 DEF v

----------------------------------------------------------------------------
(* Logs.                                                                    *)

LEMMA PrunedIs ==
  ASSUME NEW table, NEW t, Logged(table, t), NEW before
  PROVE  Logged(Pruned(table, before), t)
<1> DEFINE P == {i \in DOMAIN table : table[i].created >= before}
<1>1. P \subseteq DOMAIN table
  OBVIOUS
<1>2. Pruned(table, before) = Picked(table, P)
  BY DEF Pruned
<1> HIDE DEF P
<1> QED
  BY <1>1, <1>2, PickedLogged

LEMMA PrunedFits ==
  ASSUME NEW keys, NEW table \in Seq(CacheRows(keys)), NEW policy \in Policies, NEW t,
         Fits(table, policy, t), NEW before
  PROVE  /\ Pruned(table, before) \in Seq(CacheRows(keys))
         /\ Fits(Pruned(table, before), policy, t)
         /\ \A k \in DOMAIN Pruned(table, before) : Pruned(table, before)[k].key \in Keys(table)
<1> DEFINE P == {i \in DOMAIN table : table[i].created >= before}
           rest == Pruned(table, before)
<1>1. P \subseteq DOMAIN table
  OBVIOUS
<1>2. rest = Picked(table, P)
  BY DEF Pruned
<1> HIDE DEF P, rest
<1>3. /\ rest \in Seq(CacheRows(keys)) /\ Len(rest) \in Nat /\ Len(rest) <= Len(table)
      /\ \A k \in DOMAIN rest : \E i \in P : rest[k] = table[i]
  BY <1>1, <1>2, PickedRows
<1>4. Tidy(rest, t)
  BY <1>1, <1>2, PickedTidy DEF Fits
<1>5. TotalBytes(rest) <= TotalBytes(table)
  BY <1>1, <1>2, PickedBytes
<1>6. TotalBytes(rest) \in Nat /\ TotalBytes(table) \in Nat
  BY <1>3, CellsFinite
<1>7. Len(table) \in Nat /\ policy.entries \in Nat /\ policy.bytes \in Nat
  BY DEF Policies
<1>8. Fits(rest, policy, t)
  BY <1>3, <1>4, <1>5, <1>6, <1>7 DEF Fits
<1>9. \A k \in DOMAIN rest : rest[k].key \in Keys(table)
  BY <1>1, <1>3 DEF Keys
<1> QED
  BY <1>3, <1>8, <1>9 DEF rest

LEMMA AppendIs ==
  ASSUME NEW table, NEW t \in Nat, Logged(table, t), NEW row \in LogRows, row.created <= t
  PROVE  /\ Append(table, row) \in Seq(LogRows) /\ Logged(Append(table, row), t)
         /\ Len(table) \in Nat /\ DOMAIN table = 1 .. Len(table)
         /\ DOMAIN Append(table, row) = 1 .. (Len(table) + 1)
         /\ Append(table, row)[Len(table) + 1] = row
         /\ \A i \in DOMAIN table : Append(table, row)[i] = table[i]
<1>1. table \in Seq(LogRows)
  BY DEF Logged
<1>2. /\ Append(table, row) \in Seq(LogRows)
      /\ Len(table) \in Nat /\ DOMAIN table = 1 .. Len(table)
      /\ DOMAIN Append(table, row) = 1 .. (Len(table) + 1)
      /\ Append(table, row)[Len(table) + 1] = row
      /\ \A i \in DOMAIN table : Append(table, row)[i] = table[i]
  BY <1>1
<1> DEFINE new == Append(table, row)
<1>3. ASSUME NEW i \in DOMAIN new PROVE new[i].created <= t
  <2>1. i \in DOMAIN table \/ i = Len(table) + 1
    BY <1>2
  <2> QED
    BY <1>2, <2>1 DEF Logged
<1> QED
  BY <1>2, <1>3 DEF Logged

LEMMA LogRowIs ==
  ASSUME NEW t \in Nat
  PROVE  LogRow(t) \in LogRows /\ LogRow(t).created = t
  BY DEF LogRow, LogRows

LEMMA CacheRowIs ==
  ASSUME NEW keys, NEW key \in keys, NEW size \in Sizes, NEW t \in Nat
  PROVE  /\ CacheRow(key, size, t) \in CacheRows(keys)
         /\ CacheRow(key, size, t).key = key
         /\ CacheRow(key, size, t).created = t /\ CacheRow(key, size, t).used = t
  BY DEF CacheRow, CacheRows

\* One purge cycle.
LEMMA PurgedIs ==
  ASSUME NEW db, NEW t \in Nat, WellFormed(db, t), db.version = CurrentVersion
  PROVE  /\ WellFormed(Purged(db, t), t) /\ Purged(db, t).version = db.version
         /\ \A k \in DOMAIN Purged(db, t).search : Purged(db, t).search[k].key \in Keys(db.search)
         /\ \A k \in DOMAIN Purged(db, t).documents :
              Purged(db, t).documents[k].key \in Keys(db.documents)
         /\ Purged(db, t).telemetry \in {db.telemetry, Pruned(db.telemetry, Cutoff("telemetry", t))}
<1> DEFINE kept(kind, table) == IF Retention[kind] = 0 THEN table
                                ELSE Pruned(table, Cutoff(kind, t))
           tel == kept("telemetry", db.telemetry)
           his == kept("history", db.history)
           sea == kept("search", db.search)
           doc == kept("documents", db.documents)
           aud == kept("audit", db.audit)
           next == [db EXCEPT !.telemetry = tel, !.history = his, !.search = sea,
                              !.documents = doc, !.audit = aud]
<1>1. db \in Databases
  BY DEF WellFormed
<1>2. db.search \in Seq(CacheRows(Queries)) /\ db.documents \in Seq(CacheRows(Pages \X Hashes))
  BY <1>1, DatabaseFields
<1>3. Logged(tel, t) /\ Logged(his, t) /\ Logged(aud, t)
  BY PrunedIs DEF WellFormed
<1>4. /\ sea \in Seq(CacheRows(Queries)) /\ Fits(sea, SearchPolicy, t)
      /\ \A k \in DOMAIN sea : sea[k].key \in Keys(db.search)
  <2>1. CASE Retention["search"] = 0
    BY <1>2, <2>1 DEF WellFormed, Keys
  <2>2. CASE Retention["search"] # 0
    BY <1>2, <2>2, PrunedFits, Constants DEF WellFormed
  <2> QED
    BY <2>1, <2>2
<1>5. /\ doc \in Seq(CacheRows(Pages \X Hashes)) /\ Fits(doc, DocumentPolicy, t)
      /\ \A k \in DOMAIN doc : doc[k].key \in Keys(db.documents)
  <2>1. CASE Retention["documents"] = 0
    BY <1>2, <2>1 DEF WellFormed, Keys
  <2>2. CASE Retention["documents"] # 0
    BY <1>2, <2>2, PrunedFits, Constants DEF WellFormed
  <2> QED
    BY <2>1, <2>2
<1>6. Purged(db, t) = next
  BY DEF Purged
<1>7. tel \in {db.telemetry, Pruned(db.telemetry, Cutoff("telemetry", t))}
  OBVIOUS
<1>8. tel \in Seq(LogRows) /\ his \in Seq(LogRows) /\ aud \in Seq(LogRows)
  BY <1>3 DEF Logged
<1> HIDE DEF tel, his, sea, doc, aud
<1>9. /\ next \in Databases /\ next.version = db.version /\ next.search = sea
      /\ next.documents = doc /\ next.telemetry = tel /\ next.history = his
      /\ next.audit = aud
  BY <1>1, <1>4, <1>5, <1>8 DEF Databases
<1> HIDE DEF next
<1>10. WellFormed(next, t)
  BY <1>3, <1>4, <1>5, <1>9 DEF WellFormed, CurrentVersion
<1> QED
  BY <1>4, <1>5, <1>6, <1>7, <1>9, <1>10

----------------------------------------------------------------------------
(* Files.                                                                   *)

LEMMA WholeIs ==
  ASSUME NEW db, NEW t, WellFormed(db, t)
  PROVE  Sound(Whole(db), t) /\ Whole(db).db = db /\ Whole(db).whole
<1>1. db \in Databases
  BY DEF WellFormed
<1> QED
  BY <1>1 DEF Sound, Whole, Files

LEMMA BrokenIs ==
  ASSUME NEW t \in Nat
  PROVE  Sound(Broken, t) /\ Sound(Missing, t) /\ Broken.whole = FALSE /\ Missing.whole = TRUE
<1>1. WellFormed(Empty, t)
  BY EmptyIsWellFormed
<1>2. Empty \in Databases
  BY <1>1 DEF WellFormed
<1> QED
  BY <1>1, <1>2 DEF Sound, Broken, Missing, Whole, Files

LEMMA BackupIs ==
  ASSUME NEW kind \in Kinds, NEW at \in Nat, NEW attempt \in Nat, NEW file, NEW t, Sound(file, t)
  PROVE  /\ Backup(kind, at, attempt, file) \in Backups
         /\ Backup(kind, at, attempt, file).kind = kind
         /\ Backup(kind, at, attempt, file).at = at
         /\ Backup(kind, at, attempt, file).attempt = attempt
         /\ Backup(kind, at, attempt, file).file = file
<1>1. file \in Files
  BY DEF Sound
<1> QED
  BY <1>1 DEF Backup, Backups

\* A name that is still free, the first one unless it is taken.
LEMMA FreeAttemptIs ==
  ASSUME NEW kind, IsFiniteSet(files)
  PROVE  /\ FreeAttempt(kind) \in Nat
         /\ \A f \in files :
              ~(f.kind = kind /\ f.at = now /\ f.attempt = FreeAttempt(kind))
         /\ \/ FreeAttempt(kind) = 0
            \/ \E f \in files : f.kind = kind /\ f.at = now /\ f.attempt = 0
<1> DEFINE N == Cardinality(files)
           called(f, n) == f.kind = kind /\ f.at = now /\ f.attempt = n
           S == {n \in 0 .. N : \A f \in files : ~called(f, n)}
           g == [n \in 0 .. N |-> CHOOSE f \in files : called(f, n)]
<1>1. N \in Nat
  BY FS_CardinalityType
<1>2. FreeAttempt(kind) = Min(S)
  BY DEF FreeAttempt, SameName, Backup
<1>3. ASSUME S = {} PROVE FALSE
  <2>1. \A n \in 0 .. N : \E f \in files : called(f, n)
    BY <1>3
  <2>2. \A n \in 0 .. N : g[n] \in files /\ called(g[n], n)
    BY <2>1
  <2>3. g \in [0 .. N -> files] /\ DOMAIN g = 0 .. N
    BY <2>2
  <2>4. \A n, m \in 0 .. N : g[n] = g[m] => n = m
    BY <2>2
  <2> HIDE DEF g
  <2>5. g \in Injection(0 .. N, files)
    BY <2>3, <2>4 DEF Injection, IsInjective
  <2>6. Cardinality(0 .. N) <= N
    BY <2>5, FS_Injection
  <2>7. Cardinality(0 .. N) = N + 1
    <3>1. Cardinality(0 .. N) = IF 0 > N THEN 0 ELSE N - 0 + 1
      BY <1>1, FS_Interval
    <3> HIDE DEF N
    <3> QED
      BY <1>1, <3>1
  <2> HIDE DEF N
  <2> QED
    BY <1>1, <2>6, <2>7
<1>4. S \subseteq Nat
  BY <1>1
<1>5. \A n \in S : \A f \in files : ~called(f, n)
  OBVIOUS
<1>6. 0 \in S \/ \E f \in files : called(f, 0)
  BY <1>1
<1> HIDE DEF S
<1>7. PICK n \in S : \A m \in S : n <= m
  BY <1>3, <1>4, LeastNatural
<1>8. Min(S) \in S /\ \A m \in S : Min(S) <= m
  BY <1>7 DEF Min
<1> DEFINE least == Min(S)
<1>a. least \in Nat /\ (0 \in S => least <= 0)
  BY <1>4, <1>8
<1>9. 0 \in S => Min(S) = 0
  <2> HIDE DEF least
  <2>1. 0 \in S => least = 0
    BY <1>a
  <2> QED
    BY <2>1 DEF least
<1> QED
  BY <1>2, <1>4, <1>5, <1>6, <1>8, <1>9

LEMMA SubsetShelved ==
  ASSUME NEW set, NEW t, Shelved(set, t), NEW rest, rest \subseteq set
  PROVE  Shelved(rest, t)
<1>1. IsFiniteSet(rest)
  BY FS_Subset DEF Shelved
<1> QED
  BY <1>1 DEF Shelved

LEMMA WrittenShelved ==
  ASSUME NEW t, Shelved(files, t), NEW f \in Backups, Sound(f.file, t), f.at <= t
  PROVE  Shelved(Written(f), t)
<1> DEFINE rest == {g \in files : ~SameName(f, g)}
<1>1. Shelved(rest, t)
  BY SubsetShelved
<1>2. \A g \in rest : ~SameName(f, g) /\ ~SameName(g, f)
  BY DEF SameName
<1>3. Written(f) = rest \cup {f}
  BY DEF Written
<1> HIDE DEF rest
<1>4. IsFiniteSet(rest \cup {f})
  BY <1>1, FS_AddElement DEF Shelved
<1> QED
  BY <1>1, <1>2, <1>3, <1>4 DEF Shelved

LEMMA FileIs ==
  ASSUME NEW set, NEW t, Shelved(set, t), NEW f \in set
  PROVE  /\ f \in Backups /\ f.kind \in Kinds /\ f.at \in Nat /\ f.attempt \in Nat
         /\ f.at <= t /\ Sound(f.file, t)
<1>1. f \in Backups /\ f.at <= t /\ Sound(f.file, t)
  BY DEF Shelved
<1> QED
  BY <1>1 DEF Backups

LEMMA SoundIs ==
  ASSUME NEW file, NEW t, Sound(file, t)
  PROVE  /\ file \in Files /\ file.whole \in BOOLEAN /\ WellFormed(file.db, t)
         /\ file.whole => file = Whole(file.db)
<1>1. file \in Files /\ WellFormed(file.db, t)
  BY DEF Sound
<1> QED
  BY <1>1 DEF Files, Whole

LEMMA LatestAutoIs ==
  ASSUME NEW t \in Nat, Shelved(files, t)
  PROVE  /\ LatestAuto \in Never .. t
         /\ \A f \in files : f.kind = "auto" /\ f.attempt = 0 => LatestAuto >= f.at
<1> DEFINE A == {f \in files : f.kind = "auto" /\ f.attempt = 0}
           ats == {f.at : f \in A}
           gaps == {t - a : a \in ats}
<1>1. LatestAuto = IF A = {} THEN Never ELSE Max(ats)
  <2>1. Autos(Scanned) = A
    BY DEF Autos, Scanned
  <2> QED
    BY <2>1 DEF LatestAuto
<1>2. CASE A = {}
  BY <1>1, <1>2 DEF Never
<1>3. CASE A # {}
  <2>1. \A a \in ats : a \in 0 .. t
    BY FileIs
  <2>2. gaps \subseteq Nat /\ gaps # {}
    <3>1. PICK f \in A : TRUE
      BY <1>3
    <3>2. f.at \in ats
      OBVIOUS
    <3> HIDE DEF ats
    <3>3. \A a \in ats : t - a \in Nat
      BY <2>1
    <3> QED
      BY <3>2, <3>3
  <2>3. PICK n \in gaps : \A m \in gaps : n <= m
    <3> HIDE DEF gaps
    <3> QED
      BY <2>2, LeastNatural
  <2>4. PICK a \in ats : n = t - a
    BY <2>3
  <2>5. ASSUME NEW b \in ats PROVE a >= b
    <3>1. t - b \in gaps
      OBVIOUS
    <3>2. t - a <= t - b
      BY <2>3, <2>4, <3>1
    <3>3. a \in Int /\ b \in Int
      BY <2>1, <2>4
    <3> QED
      BY <3>2, <3>3
  <2>6. \A f \in A : f.at \in ats
    OBVIOUS
  <2> HIDE DEF ats, gaps
  <2>7. Max(ats) \in ats /\ \A b \in ats : Max(ats) >= b
    BY <2>4, <2>5 DEF Max
  <2>8. LatestAuto = Max(ats)
    BY <1>1, <1>3
  <2> HIDE DEF A
  <2>9. LatestAuto \in Never .. t
    BY <2>1, <2>7, <2>8 DEF Never
  <2> QED
    BY <2>6, <2>7, <2>8, <2>9 DEF A
<1> QED
  BY <1>2, <1>3

LEMMA RotatedIs ==
  ASSUME NEW set
  PROVE  /\ Rotated(set) \subseteq set
         /\ \A f \in set : f.kind # "auto" \/ f.attempt # 0 => f \in Rotated(set)
  BY DEF Rotated

\* Rotation keeps MaxCount listed backups newer than each one it removes.
LEMMA RotationKeepsNewest ==
  ASSUME NEW t \in Nat, NEW set, Shelved(set, t), NEW f \in set, f \notin Rotated(set)
  PROVE  /\ f.kind = "auto" /\ f.attempt = 0
         /\ Cardinality({g \in Rotated(set) : g.kind = "auto" /\ g.attempt = 0 /\ g.at > f.at})
              >= MaxCount
<1> DEFINE A == {g \in set : g.attempt = 0 /\ g.kind = "auto"}
           newer(x) == {g \in set : g.attempt = 0 /\ g.kind = "auto" /\ g.at > x.at}
           kept == {g \in A : Cardinality(newer(g)) < MaxCount}
           gone == A \ kept
           rest == {g \in Rotated(set) : g.kind = "auto" /\ g.attempt = 0 /\ g.at > f.at}
<1>1. IsFiniteSet(set) /\ \A g \in set : g.at \in Nat /\ g.at <= t
  BY FileIs DEF Shelved
<1>2. \A x : newer(x) \in SUBSET set
  OBVIOUS
<1>3. \A x : IsFiniteSet(newer(x)) /\ Cardinality(newer(x)) \in Nat
  <2> TAKE x
  <2>1. newer(x) \in SUBSET set
    BY <1>2
  <2> HIDE DEF newer
  <2> QED
    BY <1>1, <2>1, FS_Subset, FS_CardinalityType
<1>4. f \in A /\ ~(Cardinality(newer(f)) < MaxCount)
  BY DEF Rotated
<1>5. kept \subseteq Rotated(set) /\ kept \subseteq A
  BY DEF Rotated
<1>6. ASSUME NEW x \in A, NEW y \in A, x.at <= y.at
      PROVE  Cardinality(newer(y)) <= Cardinality(newer(x))
  <2>1. newer(y) \in SUBSET newer(x)
    BY <1>1, <1>6
  <2>2. IsFiniteSet(newer(x))
    BY <1>3
  <2> HIDE DEF newer
  <2> QED
    BY <2>1, <2>2, FS_Subset
<1>7. ASSUME NEW g \in kept PROVE g.at > f.at
  <2>1. g \in A /\ Cardinality(newer(g)) < MaxCount
    OBVIOUS
  <2>2. g.at <= f.at => Cardinality(newer(f)) <= Cardinality(newer(g))
    BY <1>4, <1>6, <2>1
  <2>3. g.at \in Nat /\ f.at \in Nat
    BY <1>1, <1>4, <2>1
  <2>4. Cardinality(newer(f)) \in Nat /\ Cardinality(newer(g)) \in Nat
    BY <1>3
  <2> HIDE DEF newer, kept
  <2>5. ~(g.at <= f.at)
    BY <1>4, <2>1, <2>2, <2>4, Constants
  <2> QED
    BY <2>3, <2>5
<1>8. kept \in SUBSET rest
  BY <1>5, <1>7
<1>9. IsFiniteSet(rest) /\ IsFiniteSet(kept) /\ Cardinality(kept) \in Nat
  <2>1. rest \in SUBSET set /\ kept \in SUBSET set
    BY RotatedIs
  <2> HIDE DEF rest, kept
  <2> QED
    BY <1>1, <2>1, FS_Subset, FS_CardinalityType
<1>10. ASSUME Cardinality(kept) < MaxCount PROVE FALSE
  <2> DEFINE gaps == {t - g.at : g \in gone}
  <2>1. f \in gone
    BY <1>4
  <2>2. gaps \subseteq Nat /\ gaps # {}
    <3>1. \A g \in gone : g.at \in Nat /\ g.at <= t
      BY <1>1
    <3> HIDE DEF gone
    <3>2. \A g \in gone : t - g.at \in Nat
      BY <3>1
    <3> QED
      BY <2>1, <3>2
  <2>3. PICK n \in gaps : \A m \in gaps : n <= m
    <3> HIDE DEF gaps
    <3> QED
      BY <2>2, LeastNatural
  <2>4. PICK g \in gone : n = t - g.at
    BY <2>3
  <2>5. ASSUME NEW x \in newer(g) PROVE x \in kept
    <3>1. x \in A /\ x.at > g.at
      OBVIOUS
    <3>2. x \notin gone
      <4>1. SUFFICES ASSUME x \in gone PROVE FALSE
        OBVIOUS
      <4>2. t - x.at \in gaps
        BY <4>1
      <4>3. t - g.at <= t - x.at
        BY <2>3, <2>4, <4>2
      <4>4. g.at \in Nat /\ x.at \in Nat
        BY <1>1, <2>4, <3>1
      <4> QED
        BY <3>1, <4>3, <4>4
    <3> QED
      BY <3>1, <3>2
  <2>6. newer(g) \in SUBSET kept
    BY <2>5
  <2>7. g \in A /\ ~(Cardinality(newer(g)) < MaxCount)
    BY <2>4
  <2>8. Cardinality(newer(g)) <= Cardinality(kept)
    <3> HIDE DEF newer, kept
    <3> QED
      BY <1>9, <2>6, FS_Subset
  <2>9. Cardinality(newer(g)) \in Nat
    BY <1>3
  <2> HIDE DEF newer, kept
  <2> QED
    BY <1>9, <1>10, <2>7, <2>8, <2>9, Constants
<1>11. Cardinality(kept) <= Cardinality(rest) /\ Cardinality(rest) \in Nat
  <2> HIDE DEF kept, rest
  <2> QED
    BY <1>8, <1>9, FS_Subset, FS_CardinalityType
<1>12. Cardinality(rest) >= MaxCount
  <2> HIDE DEF kept, rest
  <2> QED
    BY <1>9, <1>10, <1>11, Constants
<1> QED
  BY <1>4, <1>12

----------------------------------------------------------------------------
(* Every copy is well formed.                                               *)

LEMMA PlanIs ==
  /\ Serve \in Plans
  /\ \A f \in Backups : Restoring(f) \in Plans
  /\ \A to \in Targets :
       [what |-> "downgrade", backup |-> <<"", 0, 0>>, to |-> to] \in Plans
<1>1. CurrentVersion \in 0 .. CurrentVersion /\ \A to \in Targets : to \in 0 .. CurrentVersion
  BY StoreAssumption DEF CurrentVersion
<1>2. <<"", 0, 0>> \in (Kinds \cup {""}) \X Nat \X Nat
  OBVIOUS
<1>3. \A f \in Backups : <<f.kind, f.at, f.attempt>> \in (Kinds \cup {""}) \X Nat \X Nat
  BY DEF Backups
<1> HIDE DEF CurrentVersion
<1>4. Serve \in Plans
  BY <1>1, <1>2 DEF Serve, Plans
<1>5. \A f \in Backups : Restoring(f) \in Plans
  BY <1>1, <1>3 DEF Restoring, Name, Plans
<1>6. \A to \in Targets :
       [what |-> "downgrade", backup |-> <<"", 0, 0>>, to |-> to] \in Plans
  BY <1>1, <1>2 DEF Plans
<1> QED
  BY <1>4, <1>5, <1>6

LEMMA NoJobIs == NoJob \in JobStates /\ NoJob.at = 0 /\ NoJob.started = 0
  BY DEF NoJob, JobStates

LEMMA FoundIs ==
  ASSUME TypeOK, NEW found \in Found
  PROVE  Sound(found, now)
<1>1. now \in Nat /\ WellFormed(live, now) /\ Sound(main, now)
  BY Constants DEF TypeOK
<1>2. Sound(Broken, now) /\ Sound(Missing, now)
  BY <1>1, BrokenIs
<1>3. Sound(Whole(live), now)
  BY <1>1, WholeIs
<1>4. found \in {Broken, Missing, main, Whole(live)}
  <2>1. CASE ~main.whole
    BY <2>1 DEF Found
  <2>2. CASE main.whole /\ wal = "stale"
    BY <2>2 DEF Found
  <2>3. CASE main.whole /\ wal # "stale"
    BY <2>3 DEF Found
  <2> QED
    BY <2>1, <2>2, <2>3
<1> QED
  BY <1>1, <1>2, <1>3, <1>4

LEMMA SpendIs ==
  ASSUME work \in 0 .. MaxWork,
         NEW kind \in {"cache", "telemetry", "log", "copy", "restore", "downgrade"}, Spend(kind)
  PROVE  work' \in 0 .. MaxWork
<1>1. Cost[kind] \in Nat
  BY StoreAssumption
<1> QED
  BY <1>1, Constants DEF Spend

LEMMA InitType == Init => TypeOK
<1> SUFFICES ASSUME Init PROVE TypeOK
  OBVIOUS
<1>1. 0 \in Nat
  OBVIOUS
<1>2. WellFormed(Empty, 0)
  BY <1>1, EmptyIsWellFormed
<1>3. WellFormed(Migrated(Empty), 0) /\ Migrated(Empty).version = CurrentVersion
  BY <1>2, MigratedIs
<1>4. Sound(Whole(Migrated(Empty)), 0)
  BY <1>3, WholeIs
<1>5. Sound(Missing, 0)
  BY <1>1, BrokenIs
<1>6. Shelved({}, 0)
  BY FS_EmptySet DEF Shelved
<1>7. Logged(<<>>, 0)
  BY EmptyLogged
<1>8. job \in [Jobs -> JobStates] /\ \A w \in Jobs : job[w].at <= 0 /\ job[w].started <= 0
  BY NoJobIs DEF Init
<1>9. now \in 0 .. MaxNow /\ work \in 0 .. MaxWork
  BY Constants DEF Init
<1>10. /\ seed \in [Tasks -> Never .. now] /\ known \in [Tasks -> Never .. now]
       /\ periodic \in Never .. now
  BY DEF Init, Never
<1> QED
  BY <1>3, <1>4, <1>5, <1>6, <1>7, <1>8, <1>9, <1>10, PlanIs DEF Init, TypeOK, InUse, Phases

LEMMA TickType ==
  ASSUME TypeOK, Tick
  PROVE  TypeOK'
<1>1. now \in Nat /\ now' \in Nat /\ now <= now' /\ now' \in 0 .. MaxNow
  BY Constants DEF TypeOK, Tick
<1>2. WellFormed(live, now') /\ Sound(main, now')
  BY <1>1, LaterWellFormed, LaterSound DEF TypeOK
<1>3. Shelved(files, now')
  BY <1>1, LaterShelved DEF TypeOK
<1>4. /\ Logged(memory, now') /\ Logged(unsaved, now')
      /\ Logged(late, now') /\ Logged(abandoned, now')
  BY <1>1, LaterLogged DEF TypeOK
<1>5. \A w \in Jobs : job[w].at <= now' /\ job[w].started <= now'
  <2>1. \A w \in Jobs : job[w].at \in Nat /\ job[w].started \in Nat
    BY DEF TypeOK, JobStates
  <2> QED
    BY <1>1, <2>1 DEF TypeOK
<1>6. /\ seed \in [Tasks -> Never .. now'] /\ known \in [Tasks -> Never .. now']
      /\ periodic \in Never .. now'
  <2>1. Never .. now \subseteq Never .. now'
    BY <1>1 DEF Never
  <2> QED
    BY <2>1 DEF TypeOK
<1> QED
  BY <1>1, <1>2, <1>3, <1>4, <1>5, <1>6 DEF TypeOK, InUse, Tick, disk, task, tele, past

\* A server that starts on a database reads a table and looks at its backups.
LEMMA ServingIs ==
  ASSUME TypeOK, NEW db, WellFormed(db, now), Serving(db)
  PROVE  /\ Logged(memory', now) /\ tasks' \subseteq Tasks /\ current' \in tasks'
         /\ seed' \in [Tasks -> Never .. now] /\ known' \in [Tasks -> Never .. now]
<1>1. now \in Nat /\ Shelved(files, now)
  BY Constants DEF TypeOK
<1>2. LatestAuto \in Never .. now
  BY <1>1, LatestAutoIs
<1>3. Logged(db.telemetry, now)
  BY DEF WellFormed
<1>4. Logged(Pruned(db.telemetry, Cutoff("telemetry", now)), now)
  BY <1>3, PrunedIs
<1>5. Spawned(LatestAuto) /\ Logged(memory', now)
  BY <1>4 DEF Serving
<1>6. PICK t \in Tasks \ tasks :
        /\ tasks' = tasks \cup {t} /\ current' = t
        /\ seed' = [seed EXCEPT ![t] = LatestAuto] /\ known' = [known EXCEPT ![t] = periodic]
  BY <1>5 DEF Spawned
<1> QED
  BY <1>2, <1>5, <1>6 DEF TypeOK

LEMMA SetAsideIs ==
  ASSUME TypeOK, NEW held \in Databases, NEW file \in Databases, SetAside(held, file)
  PROVE  replaced' \subseteq [held : Databases, file : Databases] /\ lost' \subseteq Databases
  BY DEF TypeOK, SetAside

LEMMA ConnectedIs ==
  ASSUME TypeOK, NEW found \in Found, Connected(found)
  PROVE  /\ WellFormed(found.db, now) /\ WellFormed(live', now) /\ Sound(main', now)
         /\ wal' \in {"none", "own", "stale"} /\ found.whole /\ Sound(found, now)
         /\ live' = found.db
<1>1. Sound(found, now) /\ Sound(main, now)
  BY FoundIs DEF TypeOK
<1>2. WellFormed(found.db, now)
  BY <1>1 DEF Sound
<1> QED
  BY <1>1, <1>2 DEF Connected

LEMMA OpeningType ==
  ASSUME TypeOK, Opening
  PROVE  TypeOK'
<1>n. now \in Nat
  BY Constants DEF TypeOK
<1>1. CASE Start
  BY <1>1, PlanIs DEF Start, TypeOK, InUse, Phases, disk, task, tele, past
<1>2. CASE OpenQuarantines
  <2>1. WellFormed(Empty, now) /\ Sound(Missing, now)
    BY <1>n, EmptyIsWellFormed, BrokenIs
  <2>2. phase' \in {"degraded", "closed"}
    BY <1>2 DEF OpenQuarantines, Without
  <2> QED
    BY <1>2, <2>1, <2>2 DEF OpenQuarantines, TypeOK, InUse, Phases, task, tele, past
<1>3. CASE OpenOld
  <2>1. PICK found \in Found, copied \in BOOLEAN :
          /\ Connected(found)
          /\ files' = Written(Backup("migration", now, FreeAttempt("migration"),
                                  IF copied THEN found ELSE Broken))
          /\ IF copied THEN phase' = "migrating" /\ SetAside(found.db, found.db) /\ UNCHANGED work
             ELSE phase' = Without /\ UNCHANGED past /\ Spend("copy")
    BY <1>3 DEF OpenOld
  <2>2. WellFormed(live', now) /\ Sound(main', now) /\ wal' \in {"none", "own", "stale"}
        /\ Sound(found, now)
    BY <2>1, ConnectedIs
  <2> DEFINE copy == IF copied THEN found ELSE Broken
             f == Backup("migration", now, FreeAttempt("migration"), copy)
  <2>3. Sound(copy, now)
    BY <1>n, <2>2, BrokenIs
  <2>4. FreeAttempt("migration") \in Nat
    BY FreeAttemptIs DEF TypeOK, Shelved
  <2>5. f \in Backups /\ f.at = now /\ f.file = copy
    <3> HIDE DEF copy
    <3> QED
      BY <1>n, <2>3, <2>4, BackupIs DEF Kinds
  <2>6. files' = Written(f)
    BY <2>1
  <2> HIDE DEF f, copy
  <2>7. Shelved(files', now)
    BY <1>n, <2>3, <2>5, <2>6, WrittenShelved DEF TypeOK
  <2>8. work' \in 0 .. MaxWork /\ phase' \in {"migrating", "degraded", "closed"}
    BY <2>1, SpendIs DEF TypeOK, Without
  <2>9. found.db \in Databases
    BY <2>2 DEF Sound, WellFormed
  <2>10. replaced' \subseteq [held : Databases, file : Databases] /\ lost' \subseteq Databases
    BY <2>1, <2>9, SetAsideIs DEF TypeOK, past
  <2>11. tasks = {}
    BY <2>1 DEF Connected, TypeOK
  <2> QED
    BY <1>3, <2>2, <2>7, <2>8, <2>10, <2>11 DEF OpenOld, TypeOK, InUse, Phases, task, tele
<1>4. CASE OpenCurrent
  <2>1. PICK found \in Found :
          /\ Connected(found) /\ found.db.version = CurrentVersion
          /\ IF plan = Serve THEN Serving(found.db)
             ELSE UNCHANGED <<tasks, current, seed, known, memory>>
    BY <1>4 DEF OpenCurrent
  <2>2. /\ WellFormed(live', now) /\ Sound(main', now) /\ wal' \in {"none", "own", "stale"}
        /\ WellFormed(found.db, now) /\ live' = found.db
    BY <2>1, ConnectedIs
  <2>3. /\ Logged(memory', now) /\ tasks' \subseteq Tasks /\ current' \in tasks' \cup {NoTask}
        /\ seed' \in [Tasks -> Never .. now] /\ known' \in [Tasks -> Never .. now]
    BY <2>1, <2>2, ServingIs DEF TypeOK
  <2>4. tasks' # {} => plan = Serve
    BY <2>1 DEF TypeOK
  <2> QED
    BY <1>4, <2>1, <2>2, <2>3, <2>4 DEF OpenCurrent, TypeOK, InUse, Phases, past
<1>5. CASE Migrate
  <2>1. WellFormed(Migrated(live), now) /\ Migrated(live).version = CurrentVersion
    BY MigratedIs DEF TypeOK
  <2>2. /\ Logged(memory', now) /\ tasks' \subseteq Tasks /\ current' \in tasks' \cup {NoTask}
        /\ seed' \in [Tasks -> Never .. now] /\ known' \in [Tasks -> Never .. now]
    BY <1>5, <2>1, ServingIs DEF TypeOK, Migrate
  <2>3. tasks' # {} => plan = Serve
    BY <1>5 DEF TypeOK, Migrate
  <2> QED
    BY <1>5, <2>1, <2>2, <2>3 DEF Migrate, TypeOK, InUse, Phases, past
<1> QED
  BY <1>1, <1>2, <1>3, <1>4, <1>5 DEF Opening

LEMMA ForgetIs ==
  ASSUME TypeOK, Forget
  PROVE  /\ job' \in [Jobs -> JobStates]
         /\ \A w \in Jobs : job'[w].at <= now /\ job'[w].started <= now
         /\ tasks' = {} /\ current' = NoTask
         /\ seed' \in [Tasks -> Never .. now] /\ known' \in [Tasks -> Never .. now]
         /\ Logged(memory', now) /\ Logged(unsaved', now)
         /\ Logged(late', now) /\ Logged(abandoned', now)
         /\ failures' \in BOOLEAN /\ asking' \subseteq Queries
<1>1. now \in Nat
  BY Constants DEF TypeOK
<1>2. \A w \in Jobs : job'[w].at <= now /\ job'[w].started <= now
  BY <1>1, NoJobIs DEF Forget
<1>3. Never \in Never .. now
  BY <1>1 DEF Never
<1>4. job' \in [Jobs -> JobStates]
  BY NoJobIs DEF Forget
<1> QED
  BY <1>2, <1>3, <1>4, EmptyLogged DEF Forget

LEMMA ReloadType ==
  ASSUME TypeOK, Reload
  PROVE  TypeOK'
<1>1. plan = Serve /\ live.version = CurrentVersion
  BY DEF Reload, Open, TypeOK
<1>2. Logged(late', now) /\ Logged(unsaved', now) /\ Logged(abandoned', now)
  BY EmptyLogged, JoinedLogged DEF Reload, TypeOK
<1>3. CASE phase' = "open" /\ Serving(live)
  <2>1. /\ Logged(memory', now) /\ tasks' \subseteq Tasks /\ current' \in tasks'
        /\ seed' \in [Tasks -> Never .. now] /\ known' \in [Tasks -> Never .. now]
    BY <1>3, ServingIs DEF TypeOK
  <2> QED
    BY <1>1, <1>2, <1>3, <2>1 DEF Reload, TypeOK, InUse, Phases, disk, past
<1>4. CASE /\ phase' = "degraded" /\ memory' = <<>> /\ current' = NoTask
           /\ UNCHANGED <<tasks, seed, known>>
  <2>1. Logged(memory', now)
    BY <1>4, EmptyLogged
  <2> QED
    BY <1>1, <1>2, <1>4, <2>1 DEF Reload, TypeOK, InUse, Phases, disk, past
<1> QED
  BY <1>3, <1>4 DEF Reload

LEMMA RetireType ==
  ASSUME TypeOK, NEW t \in Tasks, Retire(t)
  PROVE  TypeOK'
<1>1. Never \in Never .. now
  <2>1. now \in Nat
    BY Constants DEF TypeOK
  <2> QED
    BY <2>1 DEF Never
<1>2. /\ tasks' \subseteq Tasks /\ current' \in tasks' \cup {NoTask}
      /\ seed' \in [Tasks -> Never .. now] /\ known' \in [Tasks -> Never .. now]
  BY <1>1 DEF Retire, TypeOK
<1>3. InUse' => InUse
  BY DEF Retire, InUse
<1>4. tasks' # {} => tasks # {}
  BY DEF Retire
<1> QED
  BY <1>2, <1>3, <1>4 DEF Retire, TypeOK, disk, tele, past

LEMMA ProcessType ==
  ASSUME TypeOK, Process
  PROVE  TypeOK'
<1>w. Sound(Whole(live), now)
  BY WholeIs DEF TypeOK
<1>1. CASE Exit
  <2>1. Forget
    BY <1>1 DEF Exit
  <2>2. Sound(main', now) /\ wal' \in {"none", "own", "stale"}
    BY <1>1, <1>w DEF Exit, TypeOK
  <2> QED
    BY <1>1, <2>1, <2>2, ForgetIs, PlanIs DEF Exit, TypeOK, InUse, Phases, past
<1>2. CASE Checkpoint
  BY <1>2, <1>w DEF Checkpoint, TypeOK, InUse, task, tele, past
<1> QED
  BY <1>1, <1>2, ReloadType, RetireType DEF Process

LEMMA CommitType ==
  ASSUME TypeOK, NEW kind \in {"cache", "log"}, NEW db, Commit(kind, db),
         WellFormed(db, now), db.version = CurrentVersion,
         asking' \subseteq Queries, UNCHANGED tele
  PROVE  TypeOK'
<1>1. work' \in 0 .. MaxWork
  BY SpendIs DEF TypeOK, Commit
<1> QED
  BY <1>1 DEF Commit, TypeOK, InUse, task, tele, past

LEMMA LiveIs ==
  ASSUME TypeOK, NEW kind, NEW db, Commit(kind, db)
  PROVE  /\ now \in Nat /\ WellFormed(live, now) /\ live.version = CurrentVersion
         /\ live.search \in Seq(CacheRows(Queries)) /\ Fits(live.search, SearchPolicy, now)
         /\ live.documents \in Seq(CacheRows(Pages \X Hashes))
         /\ Fits(live.documents, DocumentPolicy, now)
         /\ Logged(live.history, now) /\ Logged(live.audit, now)
         /\ live.saved \in Seq(CacheRows(SavedKeys))
<1>1. now \in Nat /\ WellFormed(live, now) /\ live.version = CurrentVersion
  BY Constants DEF TypeOK, Commit, Open
<1>2. live \in Databases
  BY <1>1 DEF WellFormed
<1> QED
  BY <1>1, <1>2, DatabaseFields DEF WellFormed

LEMMA LookUpType ==
  ASSUME TypeOK, NEW q \in Queries, LookUp(q)
  PROVE  TypeOK'
<1> DEFINE hits == Hits(live.search, q, now, SearchPolicy)
<1>1. CASE asking' = asking \cup {q} /\ UNCHANGED <<now, phase, plan, disk, task, past, work>>
  BY <1>1 DEF LookUp, TypeOK, InUse, disk, task, tele, past
<1>2. ASSUME NEW i \in hits, UNCHANGED asking,
             Commit("cache", [live EXCEPT !.search = Touched(@, i, now)])
      PROVE  TypeOK'
  <2> DEFINE new == Touched(live.search, i, now)
             db == [live EXCEPT !.search = new]
  <2>1. Commit("cache", db)
    BY <1>2
  <2>2. i \in DOMAIN live.search
    BY DEF Hits, Current
  <2>3. /\ now \in Nat /\ WellFormed(live, now) /\ live.version = CurrentVersion
        /\ live.search \in Seq(CacheRows(Queries)) /\ Fits(live.search, SearchPolicy, now)
    BY <1>2, LiveIs
  <2>4. new \in Seq(CacheRows(Queries)) /\ Fits(new, SearchPolicy, now)
    BY <2>2, <2>3, TouchedIs, TouchedFits
  <2> HIDE DEF new
  <2>5. WellFormed(db, now) /\ db.version = CurrentVersion
    BY <2>3, <2>4, WithSearch
  <2> HIDE DEF db
  <2>6. asking' \subseteq Queries /\ UNCHANGED tele
    BY <1>2 DEF TypeOK, LookUp
  <2> QED
    BY <2>1, <2>5, <2>6, CommitType
<1> QED
  BY <1>1, <1>2 DEF LookUp

LEMMA AnswerType ==
  ASSUME TypeOK, NEW q \in Queries, NEW size \in Sizes, Answer(q, size)
  PROVE  TypeOK'
<1>a. asking' \subseteq Queries /\ UNCHANGED tele
  BY DEF Answer, TypeOK
<1>1. CASE UNCHANGED <<now, phase, plan, disk, task, past, work>>
  BY <1>1, <1>a DEF TypeOK, InUse, disk, task, tele, past
<1>2. CASE Commit("cache", [live EXCEPT !.search = Put(@, CacheRow(q, size, now), SearchPolicy)])
  <2> DEFINE row == CacheRow(q, size, now)
             new == Put(live.search, row, SearchPolicy)
             db == [live EXCEPT !.search = new]
  <2>1. Commit("cache", db)
    BY <1>2
  <2>2. /\ now \in Nat /\ WellFormed(live, now) /\ live.version = CurrentVersion
        /\ live.search \in Seq(CacheRows(Queries)) /\ Fits(live.search, SearchPolicy, now)
    BY <1>2, LiveIs
  <2>3. row \in CacheRows(Queries) /\ row.created = now /\ row.used = now
    BY <2>2, CacheRowIs
  <2> HIDE DEF row
  <2>4. Tidy(live.search, now) /\ row.created <= row.used /\ row.used <= now
    BY <2>2, <2>3 DEF Fits
  <2>5. new \in Seq(CacheRows(Queries)) /\ Fits(new, SearchPolicy, now)
    BY <2>2, <2>3, <2>4, PutFits, Constants
  <2> HIDE DEF new
  <2>6. WellFormed(db, now) /\ db.version = CurrentVersion
    BY <2>2, <2>5, WithSearch
  <2> HIDE DEF db
  <2> QED
    BY <1>a, <2>1, <2>6, CommitType
<1> QED
  BY <1>1, <1>2 DEF Answer

LEMMA ReadDocumentType ==
  ASSUME TypeOK, NEW page \in Pages, NEW hash \in Hashes, ReadDocument(page, hash)
  PROVE  TypeOK'
<1>1. PICK i \in Hits(live.documents, <<page, hash>>, now, DocumentPolicy)
                 \cup LatestHit(live.documents, page, now, DocumentPolicy) :
         Commit("cache", [live EXCEPT !.documents = Touched(@, i, now)])
  BY DEF ReadDocument
<1> DEFINE new == Touched(live.documents, i, now)
           db == [live EXCEPT !.documents = new]
<1>2. Commit("cache", db)
  BY <1>1
<1>3. i \in DOMAIN live.documents
  BY <1>1 DEF Hits, LatestHit, Current
<1>4. /\ now \in Nat /\ WellFormed(live, now) /\ live.version = CurrentVersion
      /\ live.documents \in Seq(CacheRows(Pages \X Hashes))
      /\ Fits(live.documents, DocumentPolicy, now)
  BY <1>1, LiveIs
<1>5. new \in Seq(CacheRows(Pages \X Hashes)) /\ Fits(new, DocumentPolicy, now)
  BY <1>3, <1>4, TouchedIs, TouchedFits
<1> HIDE DEF new
<1>6. WellFormed(db, now) /\ db.version = CurrentVersion
  BY <1>4, <1>5, WithDocuments
<1> HIDE DEF db
<1>7. asking' \subseteq Queries /\ UNCHANGED tele
  BY DEF TypeOK, ReadDocument
<1> QED
  BY <1>2, <1>6, <1>7, CommitType

LEMMA KeepDocumentType ==
  ASSUME TypeOK, NEW page \in Pages, NEW hash \in Hashes, NEW size \in Sizes,
         KeepDocument(page, hash, size)
  PROVE  TypeOK'
<1> DEFINE key == <<page, hash>>
           row == CacheRow(key, size, now)
           new == Put(live.documents, row, DocumentPolicy)
           db == [live EXCEPT !.documents = new]
<1>1. Commit("cache", db)
  BY DEF KeepDocument
<1>2. /\ now \in Nat /\ WellFormed(live, now) /\ live.version = CurrentVersion
      /\ live.documents \in Seq(CacheRows(Pages \X Hashes))
      /\ Fits(live.documents, DocumentPolicy, now)
  BY <1>1, LiveIs
<1>3. row \in CacheRows(Pages \X Hashes) /\ row.created = now /\ row.used = now
  <2>1. key \in Pages \X Hashes
    OBVIOUS
  <2>2. \A keys, k, n, t : k \in keys /\ n \in Sizes /\ t \in Nat
          => /\ CacheRow(k, n, t) \in CacheRows(keys)
             /\ CacheRow(k, n, t).created = t /\ CacheRow(k, n, t).used = t
    BY CacheRowIs
  <2> HIDE DEF key
  <2> QED
    BY <1>2, <2>1, <2>2
<1> HIDE DEF row
<1>4. Tidy(live.documents, now) /\ row.created <= row.used /\ row.used <= now
  BY <1>2, <1>3 DEF Fits
<1>5. new \in Seq(CacheRows(Pages \X Hashes)) /\ Fits(new, DocumentPolicy, now)
  BY <1>2, <1>3, <1>4, PutFits, Constants
<1> HIDE DEF new
<1>6. WellFormed(db, now) /\ db.version = CurrentVersion
  BY <1>2, <1>5, WithDocuments
<1> HIDE DEF db
<1>7. asking' \subseteq Queries /\ UNCHANGED tele
  BY DEF TypeOK, KeepDocument
<1> QED
  BY <1>1, <1>6, <1>7, CommitType

LEMMA PurgeCachesType ==
  ASSUME TypeOK, PurgeCaches
  PROVE  TypeOK'
<1> DEFINE none == <<>>
           half == [live EXCEPT !.search = none]
           db == [half EXCEPT !.documents = none]
           both == [live EXCEPT !.search = none, !.documents = none]
<1>1. Commit("cache", both)
  BY DEF PurgeCaches
<1>2. WellFormed(live, now) /\ live.version = CurrentVersion
  BY <1>1, LiveIs
<1>3. Fits(none, SearchPolicy, now) /\ Fits(none, DocumentPolicy, now)
  BY EmptyFits, Constants
<1>s. none \in Seq(CacheRows(Queries)) /\ none \in Seq(CacheRows(Pages \X Hashes))
  OBVIOUS
<1> HIDE DEF none
<1>4. WellFormed(half, now) /\ half.version = CurrentVersion
  BY <1>2, <1>3, <1>s, WithSearch
<1>5. both = db
  BY <1>2 DEF WellFormed, Databases
<1> HIDE DEF half, both
<1>6. WellFormed(db, now) /\ db.version = CurrentVersion
  BY <1>3, <1>4, <1>s, WithDocuments
<1> HIDE DEF db
<1>7. asking' \subseteq Queries /\ UNCHANGED tele
  BY DEF TypeOK, PurgeCaches
<1> QED
  BY <1>1, <1>5, <1>6, <1>7, CommitType

LEMMA HistoryType ==
  ASSUME TypeOK, RecordHistory \/ DeleteHistory
  PROVE  TypeOK'
<1>a. asking' \subseteq Queries /\ UNCHANGED tele
  BY DEF TypeOK, RecordHistory, DeleteHistory
<1>b. ASSUME NEW new, Commit("log", [live EXCEPT !.history = new]), Logged(new, now)
      PROVE  TypeOK'
  <2> DEFINE db == [live EXCEPT !.history = new]
  <2>1. WellFormed(live, now) /\ live.version = CurrentVersion
    BY <1>b, LiveIs
  <2>2. WellFormed(db, now) /\ db.version = CurrentVersion
    BY <1>b, <2>1, WithHistory
  <2>3. Commit("log", db)
    BY <1>b
  <2> HIDE DEF db
  <2> QED
    BY <1>a, <2>2, <2>3, CommitType
<1>c. now \in Nat /\ Logged(live.history, now)
  BY Constants DEF TypeOK, WellFormed
<1>1. CASE RecordHistory
  <2>1. Logged(Append(live.history, LogRow(now)), now)
    BY <1>c, LogRowIs, AppendIs
  <2>2. Commit("log", [live EXCEPT !.history = Append(live.history, LogRow(now))])
    BY <1>1 DEF RecordHistory
  <2> QED
    BY <1>b, <2>1, <2>2
<1>2. ASSUME NEW i \in DOMAIN live.history,
             Commit("log", [live EXCEPT !.history = Removed(live.history, i)])
      PROVE  TypeOK'
  <2>1. DOMAIN live.history \ {i} \subseteq DOMAIN live.history
    OBVIOUS
  <2>2. Logged(Removed(live.history, i), now)
    BY <1>c, <2>1, PickedLogged DEF Removed
  <2> QED
    BY <1>2, <1>b, <2>2
<1>3. ASSUME Commit("log", [live EXCEPT !.history = <<>>]) PROVE TypeOK'
  BY <1>3, <1>b, EmptyLogged
<1> QED
  BY <1>1, <1>2, <1>3 DEF DeleteHistory

LEMMA LibraryType ==
  ASSUME TypeOK, NEW key \in SavedKeys,
         DeleteSaved(key) \/ \E size \in Sizes : SaveDocument(key, size)
  PROVE  TypeOK'
<1>a. asking' \subseteq Queries /\ UNCHANGED tele
  BY DEF TypeOK, DeleteSaved, SaveDocument
<1>b. ASSUME NEW new \in Seq(CacheRows(SavedKeys)), Commit("log", [live EXCEPT !.saved = new])
      PROVE  TypeOK'
  <2> DEFINE db == [live EXCEPT !.saved = new]
  <2>1. WellFormed(live, now) /\ live.version = CurrentVersion
    BY <1>b, LiveIs
  <2>2. WellFormed(db, now) /\ db.version = CurrentVersion
    BY <2>1, WithSaved
  <2>3. Commit("log", db)
    BY <1>b
  <2> HIDE DEF db
  <2> QED
    BY <1>a, <2>2, <2>3, CommitType
<1>c. now \in Nat /\ live.saved \in Seq(CacheRows(SavedKeys))
  <2>1. live \in Databases
    BY DEF TypeOK, WellFormed
  <2> QED
    BY <2>1, DatabaseFields, Constants DEF TypeOK
<1>1. CASE DeleteSaved(key)
  <2> DEFINE P == {i \in DOMAIN live.saved : live.saved[i].key # key}
  <2>1. Erased(live.saved, key) = Picked(live.saved, P) /\ P \subseteq DOMAIN live.saved
    BY DEF Erased
  <2> HIDE DEF P
  <2>2. Erased(live.saved, key) \in Seq(CacheRows(SavedKeys))
    BY <1>c, <2>1, PickedIs
  <2>3. Commit("log", [live EXCEPT !.saved = Erased(live.saved, key)])
    BY <1>1 DEF DeleteSaved
  <2> QED
    BY <1>b, <2>2, <2>3
<1>2. ASSUME NEW size \in Sizes, SaveDocument(key, size) PROVE TypeOK'
  <2> DEFINE row == CacheRow(key, size, now)
  <2>1. row \in CacheRows(SavedKeys)
    BY <1>c, CacheRowIs
  <2>2. Commit("log", [live EXCEPT !.saved = Upserted(live.saved, row)])
    BY <1>2 DEF SaveDocument
  <2> HIDE DEF row
  <2>3. Upserted(live.saved, row) \in Seq(CacheRows(SavedKeys))
    BY <1>c, <2>1, UpsertedIs
  <2> QED
    BY <1>b, <2>2, <2>3
<1> QED
  BY <1>1, <1>2

LEMMA RecordEventType ==
  ASSUME TypeOK, RecordEvent
  PROVE  TypeOK'
<1> DEFINE new == Audited(live.audit, now)
           db == [live EXCEPT !.audit = new]
<1>1. Commit("log", db)
  BY DEF RecordEvent
<1>2. now \in Nat /\ WellFormed(live, now) /\ live.version = CurrentVersion
      /\ Logged(live.audit, now)
  BY <1>1, LiveIs
<1>3. Logged(Append(live.audit, LogRow(now)), now)
  BY <1>2, LogRowIs, AppendIs
<1>4. Logged(new, now)
  BY <1>3, PrunedIs DEF Audited
<1> HIDE DEF new
<1>5. WellFormed(db, now) /\ db.version = CurrentVersion
  BY <1>2, <1>4, WithAudit
<1> HIDE DEF db
<1>6. asking' \subseteq Queries /\ UNCHANGED tele
  BY DEF TypeOK, RecordEvent
<1> QED
  BY <1>1, <1>5, <1>6, CommitType

\* What one observation does to the table.
LEMMA StoredType ==
  ASSUME TypeOK, NEW row \in LogRows, row.created <= now,
         NEW inserted \in BOOLEAN, NEW pruned \in BOOLEAN, Stored(row, inserted, pruned)
  PROVE  /\ WellFormed(live', now) /\ live'.version = CurrentVersion
         /\ wal' \in {"none", "own", "stale"}
<1> DEFINE rows == IF inserted THEN Append(live.telemetry, row) ELSE live.telemetry
           new == IF pruned THEN Pruned(rows, Cutoff("telemetry", row.created)) ELSE rows
<1>1. WellFormed(live, now) /\ Logged(live.telemetry, now) /\ live.version = CurrentVersion
  BY DEF TypeOK, WellFormed, Stored, Open
<1>2. Logged(Append(live.telemetry, row), now)
  <2>1. now \in Nat
    BY Constants DEF TypeOK
  <2> QED
    BY <1>1, <2>1, AppendIs
<1>3. Logged(rows, now)
  BY <1>1, <1>2
<1>4. live' = [live EXCEPT !.telemetry = new]
  BY DEF Stored
<1> HIDE DEF rows
<1>5. Logged(new, now)
  BY <1>3, PrunedIs
<1> HIDE DEF new
<1>6. WellFormed(live', now) /\ live'.version = live.version
  BY <1>1, <1>4, <1>5, WithTelemetry
<1> QED
  BY <1>1, <1>6 DEF Stored, TypeOK

LEMMA RemovedLogged ==
  ASSUME NEW table, NEW t \in Nat, Logged(table, t), NEW i \in DOMAIN table
  PROVE  /\ Logged(Removed(table, i), t)
         /\ table[i] \in LogRows /\ table[i].created <= t
<1>1. DOMAIN table \ {i} \subseteq DOMAIN table
  OBVIOUS
<1>2. Logged(Removed(table, i), t)
  BY <1>1, PickedLogged DEF Removed
<1>3. table[i] \in LogRows /\ table[i].created <= t
  BY DEF Logged
<1> QED
  BY <1>2, <1>3

LEMMA TelemetryType ==
  ASSUME TypeOK, Observe \/ Persist \/ PersistLate \/ PersistDropped
  PROVE  TypeOK'
<1>n. /\ now \in Nat /\ Logged(memory, now) /\ Logged(unsaved, now) /\ Logged(late, now)
      /\ Logged(abandoned, now) /\ failures \in BOOLEAN
  BY Constants DEF TypeOK
<1>1. CASE Observe
  <2>0. LogRow(now) \in LogRows /\ LogRow(now).created <= now
    BY <1>n, LogRowIs
  <2>1. /\ Logged(Append(memory, LogRow(now)), now) /\ Logged(Append(unsaved, LogRow(now)), now)
        /\ Logged(Append(late, LogRow(now)), now)
    BY <1>n, <2>0, AppendIs
  <2>2. Logged(Pruned(Append(memory, LogRow(now)), Cutoff("telemetry", now)), now)
    BY <2>1, PrunedIs
  <2>3. Logged(memory', now) /\ Logged(unsaved', now) /\ Logged(late', now)
    BY <1>1, <1>n, <2>1, <2>2 DEF Observe
  <2>4. work' \in 0 .. MaxWork
    BY <1>1, SpendIs DEF TypeOK, Observe
  <2> QED
    BY <1>1, <2>3, <2>4 DEF Observe, TypeOK, InUse, disk, task, past
<1>2. ASSUME NEW row \in LogRows, row.created <= now,
             NEW inserted \in BOOLEAN, NEW pruned \in BOOLEAN, Stored(row, inserted, pruned),
             Logged(unsaved', now), Logged(late', now), Logged(abandoned', now),
             failures' \in BOOLEAN
      PROVE  TypeOK'
  <2>1. /\ WellFormed(live', now) /\ live'.version = CurrentVersion
        /\ wal' \in {"none", "own", "stale"}
    BY <1>2, StoredType
  <2> QED
    BY <1>2, <2>1 DEF Stored, TypeOK, InUse, task, past
<1>3. CASE Persist
  <2>1. PICK inserted \in BOOLEAN, pruned \in BOOLEAN, i \in DOMAIN unsaved :
          /\ Stored(unsaved[i], inserted, pruned) /\ unsaved' = Removed(unsaved, i)
          /\ failures' = (failures \/ ~(inserted /\ pruned)) /\ UNCHANGED <<late, abandoned>>
    BY <1>3 DEF Persist
  <2>2. /\ Logged(Removed(unsaved, i), now) /\ unsaved[i] \in LogRows
        /\ unsaved[i].created <= now
    BY <1>n, RemovedLogged
  <2>3. failures' \in BOOLEAN
    BY <2>1
  <2> QED
    BY <1>n, <1>2, <2>1, <2>2, <2>3
<1>4. CASE PersistLate
  <2>1. PICK inserted \in BOOLEAN, pruned \in BOOLEAN, i \in DOMAIN late :
          /\ Stored(late[i], inserted, pruned) /\ late' = Removed(late, i)
          /\ UNCHANGED <<unsaved, abandoned, failures>>
    BY <1>4 DEF PersistLate
  <2>2. Logged(Removed(late, i), now) /\ late[i] \in LogRows /\ late[i].created <= now
    BY <1>n, RemovedLogged
  <2> QED
    BY <1>n, <1>2, <2>1, <2>2
<1>5. CASE PersistDropped
  <2>1. PICK inserted \in BOOLEAN, i \in DOMAIN unsaved :
          /\ Stored(unsaved[i], inserted, FALSE) /\ unsaved' = Removed(unsaved, i)
          /\ abandoned' = IF inserted THEN abandoned ELSE Append(abandoned, unsaved[i])
          /\ UNCHANGED <<late, failures>>
    BY <1>5 DEF PersistDropped
  <2>2. /\ Logged(Removed(unsaved, i), now) /\ unsaved[i] \in LogRows
        /\ unsaved[i].created <= now
    BY <1>n, RemovedLogged
  <2>3. Logged(abandoned', now)
    BY <1>n, <2>1, <2>2, AppendIs
  <2> QED
    BY <1>n, <1>2, <2>1, <2>2, <2>3
<1> QED
  BY <1>1, <1>3, <1>4, <1>5

LEMMA RequestsType ==
  ASSUME TypeOK, Requests
  PROVE  TypeOK'
<1>1. ASSUME NEW q \in Queries, LookUp(q) PROVE TypeOK'
  BY <1>1, LookUpType
<1>2. ASSUME NEW q \in Queries, NEW size \in Sizes, Answer(q, size) PROVE TypeOK'
  BY <1>2, AnswerType
<1>3. ASSUME NEW page \in Pages, NEW hash \in Hashes, ReadDocument(page, hash) PROVE TypeOK'
  BY <1>3, ReadDocumentType
<1>4. ASSUME NEW page \in Pages, NEW hash \in Hashes, NEW size \in Sizes,
             KeepDocument(page, hash, size)
      PROVE  TypeOK'
  BY <1>4, KeepDocumentType
<1>5. ASSUME NEW key \in SavedKeys, DeleteSaved(key) \/ \E size \in Sizes : SaveDocument(key, size)
      PROVE  TypeOK'
  BY <1>5, LibraryType
<1>6. CASE PurgeCaches \/ RecordHistory \/ DeleteHistory \/ RecordEvent
  BY <1>6, PurgeCachesType, HistoryType, RecordEventType
<1>7. CASE Observe \/ Persist \/ PersistLate \/ PersistDropped
  BY <1>7, TelemetryType
<1> QED
  BY <1>1, <1>2, <1>3, <1>4, <1>5, <1>6, <1>7 DEF Requests

LEMMA PurgeTickType ==
  ASSUME TypeOK, PurgeTick
  PROVE  TypeOK'
<1> DEFINE db == Purged(live, now)
<1>1. Commit("log", db)
  BY DEF PurgeTick
<1>2. now \in Nat /\ WellFormed(live, now) /\ live.version = CurrentVersion
  BY <1>1, LiveIs
<1>3. WellFormed(db, now) /\ db.version = CurrentVersion
  BY <1>2, PurgedIs
<1> HIDE DEF db
<1>4. asking' \subseteq Queries /\ UNCHANGED tele
  BY DEF TypeOK, PurgeTick
<1> QED
  BY <1>1, <1>3, <1>4, CommitType

LEMMA JobIs ==
  ASSUME TypeOK, NEW w \in Jobs
  PROVE  /\ job[w] \in JobStates /\ job[w].at \in Nat /\ job[w].attempt \in Nat
         /\ job[w].started \in Nat /\ job[w].at <= now /\ job[w].started <= now
<1>1. job[w] \in JobStates
  BY DEF TypeOK
<1> QED
  BY <1>1 DEF TypeOK, JobStates

\* A job that goes on or is given up.
LEMMA JobStep ==
  ASSUME TypeOK, NEW w \in Jobs, NEW state \in JobStates, state.at <= now, state.started <= now,
         job' = [job EXCEPT ![w] = state]
  PROVE  job' \in [Jobs -> JobStates] /\ \A v \in Jobs : job'[v].at <= now /\ job'[v].started <= now
<1>1. job' \in [Jobs -> JobStates]
  BY DEF TypeOK
<1>2. \A v \in Jobs : job'[v] = IF v = w THEN state ELSE job[v]
  BY DEF TypeOK
<1> QED
  BY <1>1, <1>2 DEF TypeOK

LEMMA JobEnds ==
  ASSUME TypeOK, NEW w \in Jobs, job' = [job EXCEPT ![w] = NoJob]
  PROVE  job' \in [Jobs -> JobStates] /\ \A v \in Jobs : job'[v].at <= now /\ job'[v].started <= now
<1>1. now \in Nat
  BY Constants DEF TypeOK
<1>2. NoJob \in JobStates /\ NoJob.at <= now /\ NoJob.started <= now
  BY <1>1, NoJobIs
<1> QED
  BY <1>2, JobStep

LEMMA TargetIs ==
  ASSUME TypeOK, NEW w \in Jobs, NEW file, Sound(file, now)
  PROVE  LET f == [Target(w) EXCEPT !.file = file] IN
         /\ f \in Backups /\ Sound(f.file, now) /\ f.at <= now
         /\ f.kind = "auto" /\ f.at = job[w].at /\ f.attempt = job[w].attempt /\ f.file = file
         /\ Target(w).kind = "auto" /\ Target(w).at = job[w].at
         /\ Target(w).attempt = job[w].attempt
<1> DEFINE f == [Target(w) EXCEPT !.file = file]
           g == Backup("auto", job[w].at, job[w].attempt, file)
<1>1. f = g
  BY DEF Target, Backup
<1>2. job[w].at \in Nat /\ job[w].attempt \in Nat /\ job[w].at <= now
  BY JobIs
<1>3. /\ g \in Backups /\ g.kind = "auto" /\ g.at = job[w].at
      /\ g.attempt = job[w].attempt /\ g.file = file
  BY <1>2, BackupIs DEF Kinds
<1>4. /\ Target(w).kind = "auto" /\ Target(w).at = job[w].at
      /\ Target(w).attempt = job[w].attempt
  BY DEF Target, Backup
<1> HIDE DEF f, g
<1> QED
  BY <1>1, <1>2, <1>3, <1>4 DEF f

LEMMA BackupType ==
  ASSUME TypeOK, NEW w \in Jobs,
         BackupBegin(w) \/ BackupCopied(w) \/ BackupAborted(w) \/ BackupVerified(w)
         \/ BackupDiscarded(w)
  PROVE  TypeOK'
<1>n. now \in Nat /\ Shelved(files, now) /\ work \in 0 .. MaxWork
  BY Constants DEF TypeOK
<1>1. CASE BackupBegin(w)
  <2> DEFINE n == FreeAttempt("auto")
             state == [step |-> "copying", at |-> now, attempt |-> n, started |-> now]
             f == Backup("auto", now, n, Broken)
  <2>1. n \in Nat
    BY <1>n, FreeAttemptIs DEF Shelved
  <2>2. job' = [job EXCEPT ![w] = state] /\ files' = Written(f)
    BY <1>1 DEF BackupBegin
  <2> HIDE DEF n
  <2>3. state \in JobStates /\ state.at <= now /\ state.started <= now
    BY <1>n, <2>1 DEF JobStates
  <2> HIDE DEF state
  <2>4. job' \in [Jobs -> JobStates] /\ \A v \in Jobs : job'[v].at <= now /\ job'[v].started <= now
    BY <2>2, <2>3, JobStep
  <2>5. Sound(Broken, now)
    BY <1>n, BrokenIs
  <2>6. f \in Backups /\ f.at = now /\ f.file = Broken
    BY <1>n, <2>1, <2>5, BackupIs DEF Kinds
  <2> HIDE DEF f
  <2>7. Shelved(files', now)
    BY <1>n, <2>2, <2>5, <2>6, WrittenShelved
  <2>8. work' \in 0 .. MaxWork
    BY <1>1, <1>n, SpendIs DEF BackupBegin
  <2> QED
    BY <1>1, <2>4, <2>7, <2>8 DEF BackupBegin, TypeOK, InUse, tele, past
<1>2. CASE BackupCopied(w)
  <2> DEFINE f == [Target(w) EXCEPT !.file = Whole(live)]
             state == [job[w] EXCEPT !.step = "verifying"]
  <2>1. Sound(Whole(live), now)
    BY WholeIs DEF TypeOK
  <2>2. f \in Backups /\ Sound(f.file, now) /\ f.at <= now
    BY <2>1, TargetIs
  <2>3. files' = Written(f) /\ job' = [job EXCEPT ![w] = state]
    BY <1>2 DEF BackupCopied
  <2> HIDE DEF f
  <2>4. Shelved(files', now)
    BY <1>n, <2>2, <2>3, WrittenShelved
  <2>5. state \in JobStates /\ state.at <= now /\ state.started <= now
    BY JobIs DEF JobStates
  <2> HIDE DEF state
  <2>6. job' \in [Jobs -> JobStates] /\ \A v \in Jobs : job'[v].at <= now /\ job'[v].started <= now
    BY <2>3, <2>5, JobStep
  <2> QED
    BY <1>2, <2>4, <2>6 DEF BackupCopied, TypeOK, InUse, tele, past
<1>3. CASE BackupAborted(w)
  <2>1. files' \subseteq files /\ spoiled' \in BOOLEAN
    BY <1>3 DEF BackupAborted, TypeOK
  <2>2. Shelved(files', now)
    BY <1>n, <2>1, SubsetShelved
  <2>3. job' \in [Jobs -> JobStates] /\ \A v \in Jobs : job'[v].at <= now /\ job'[v].started <= now
    BY <1>3, JobEnds DEF BackupAborted
  <2> QED
    BY <1>3, <2>1, <2>2, <2>3 DEF BackupAborted, TypeOK, InUse, tele, past
<1>4. CASE BackupVerified(w)
  <2>1. files' \subseteq files
    BY <1>4, RotatedIs DEF BackupVerified
  <2>2. Shelved(files', now)
    BY <1>n, <2>1, SubsetShelved
  <2>3. job' \in [Jobs -> JobStates] /\ \A v \in Jobs : job'[v].at <= now /\ job'[v].started <= now
    BY <1>4, JobEnds DEF BackupVerified
  <2>4. job[w].started \in Never .. now
    BY <1>n, JobIs DEF Never
  <2>5. seed' \in [Tasks -> Never .. now] /\ known' \in [Tasks -> Never .. now]
    BY <1>4, <2>4 DEF BackupVerified, TypeOK
  <2>6. periodic' \in Never .. now
    <3>1. periodic \in Int /\ job[w].started \in Int
      BY <1>n, <2>4 DEF TypeOK, Never
    <3>2. Max({periodic, job[w].started}) \in {periodic, job[w].started}
      BY <3>1, MaxOfTwo
    <3> QED
      BY <1>4, <2>4, <3>2 DEF BackupVerified, TypeOK
  <2> QED
    BY <1>4, <2>2, <2>3, <2>5, <2>6 DEF BackupVerified, TypeOK, InUse, tele, past
<1>5. CASE BackupDiscarded(w)
  <2>1. files' \subseteq files /\ spoiled' \in BOOLEAN
    BY <1>5 DEF BackupDiscarded, Taken, TypeOK
  <2>2. Shelved(files', now)
    BY <1>n, <2>1, SubsetShelved
  <2>3. job' \in [Jobs -> JobStates] /\ \A v \in Jobs : job'[v].at <= now /\ job'[v].started <= now
    BY <1>5, JobEnds DEF BackupDiscarded
  <2> QED
    BY <1>5, <2>1, <2>2, <2>3 DEF BackupDiscarded, TypeOK, InUse, tele, past
<1> QED
  BY <1>1, <1>2, <1>3, <1>4, <1>5

LEMMA CommandsType ==
  ASSUME TypeOK, Commands
  PROVE  TypeOK'
<1>n. now \in Nat /\ Shelved(files, now) /\ Sound(main, now)
  BY Constants DEF TypeOK
<1>b. Sound(Broken, now) /\ Sound(Missing, now)
  BY <1>n, BrokenIs
<1>s. Serve.what = "serve"
  BY DEF Serve
<1>1. ASSUME NEW f \in files, RestoreBegin(f) PROVE TypeOK'
  <2>a. f \in Backups /\ plan' = Restoring(f)
    BY <1>1, <1>n, FileIs DEF RestoreBegin, Command
  <2>1. plan' \in Plans
    BY <2>a, PlanIs
  <2>2. files' \subseteq files /\ spoiled' \in BOOLEAN /\ phase' \in {"closed", "replace", "save"}
    BY <1>1 DEF RestoreBegin, Taken, TypeOK
  <2>3. Shelved(files', now)
    BY <1>n, <2>2, SubsetShelved
  <2>4. work' \in 0 .. MaxWork
    <3>1. Spend("restore")
      BY <1>1 DEF RestoreBegin, Command, Restoring
    <3> QED
      BY <3>1, SpendIs DEF TypeOK
  <2> QED
    BY <1>1, <2>1, <2>2, <2>3, <2>4 DEF RestoreBegin, Command, TypeOK, InUse, Phases, tele, past
<1>2. CASE RestoreSave
  <2>1. CASE /\ phase = "save" /\ phase' = "saving" /\ files' = Written(SafetyCopy(Broken))
             /\ lost' = lost \cup {f.file.db : f \in
                          {g \in files : g.file.whole /\ SameName(SafetyCopy(Broken), g)}}
    <3> DEFINE c == SafetyCopy(Broken)
    <3>1. c \in Backups /\ c.at = now /\ c.file = Broken
      BY <1>n, <1>b, BackupIs DEF SafetyCopy, Kinds
    <3>2. files' = Written(c)
      BY <2>1
    <3>4. lost' \subseteq Databases
      <4>1. \A f \in files : f.file.db \in Databases
        BY <1>n, FileIs DEF Sound, WellFormed
      <4> QED
        BY <2>1, <4>1 DEF TypeOK
    <3> HIDE DEF c
    <3>3. Shelved(files', now)
      BY <1>n, <1>b, <3>1, <3>2, WrittenShelved
    <3> QED
      BY <1>2, <2>1, <3>3, <3>4 DEF RestoreSave, TypeOK, InUse, Phases, task, tele
  <2>2. ASSUME phase = "saving", phase' = "replace", NEW f \in files,
               files' = Written([f EXCEPT !.file = main]), UNCHANGED lost
        PROVE  TypeOK'
    <3> DEFINE c == [f EXCEPT !.file = main]
    <3>1. f \in Backups /\ f.at <= now /\ main \in Files
      BY <1>n, FileIs DEF Sound
    <3>2. c \in Backups /\ c.at = f.at /\ c.file = main
      BY <3>1 DEF Backups
    <3>3. files' = Written(c)
      BY <2>2
    <3> HIDE DEF c
    <3>4. Shelved(files', now)
      BY <1>n, <3>1, <3>2, <3>3, WrittenShelved
    <3> QED
      BY <1>2, <2>2, <3>4 DEF RestoreSave, TypeOK, InUse, Phases, task, tele
  <2> QED
    BY <1>2, <2>1, <2>2 DEF RestoreSave
<1>3. CASE RestoreReplace
  <2>1. CASE /\ phase = "replace" /\ phase' = "replacing" /\ main' = Broken
             /\ IF ~main.whole \/ (main = Missing /\ wal = "none") THEN UNCHANGED past
                ELSE SetAside(IF wal = "own" THEN live ELSE main.db, main.db)
             /\ UNCHANGED <<live, wal>>
    <3>1. Sound(main', now)
      BY <1>b, <2>1
    <3>2. live \in Databases /\ main.db \in Databases
      BY <1>n DEF TypeOK, Sound, WellFormed
    <3>3. replaced' \subseteq [held : Databases, file : Databases] /\ lost' \subseteq Databases
      BY <2>1, <3>2, SetAsideIs DEF TypeOK, past
    <3> QED
      BY <1>3, <2>1, <3>1, <3>3 DEF RestoreReplace, TypeOK, InUse, Phases, task, tele
  <2>2. ASSUME phase = "replacing", phase' = "opening", NEW f \in files, main' = f.file,
               UNCHANGED past,
               IF wal = "none" THEN live' = f.file.db /\ UNCHANGED wal
               ELSE wal' = "stale" /\ UNCHANGED live
        PROVE  TypeOK'
    <3>1. Sound(f.file, now)
      BY <1>n, FileIs
    <3>2. WellFormed(f.file.db, now)
      BY <3>1 DEF Sound
    <3>3. WellFormed(live', now) /\ wal' \in {"none", "own", "stale"}
      BY <2>2, <3>2 DEF TypeOK
    <3> QED
      BY <1>3, <2>2, <3>1, <3>3 DEF RestoreReplace, TypeOK, InUse, Phases, task, tele, past
  <2> QED
    BY <1>3, <2>1, <2>2 DEF RestoreReplace
<1>4. ASSUME NEW to \in Targets, DowngradeStart(to) PROVE TypeOK'
  <2>1. plan' \in Plans
    BY <1>4, PlanIs DEF DowngradeStart, Command
  <2>2. work' \in 0 .. MaxWork
    <3>1. Spend("downgrade")
      BY <1>4 DEF DowngradeStart, Command
    <3> QED
      BY <3>1, SpendIs DEF TypeOK
  <2> QED
    BY <1>4, <2>1, <2>2 DEF DowngradeStart, Command, TypeOK, InUse, Phases, tele, past
<1>5. CASE DowngradeCopy
  <2>1. PICK copied \in BOOLEAN :
          /\ files' = Written(Backup("migration", now, FreeAttempt("migration"),
                                  IF copied THEN Whole(live) ELSE Broken))
          /\ IF copied THEN phase' = "downgrading" /\ SetAside(live, live) /\ UNCHANGED work
             ELSE phase' = "closed" /\ UNCHANGED past /\ Spend("copy")
    BY <1>5 DEF DowngradeCopy
  <2> DEFINE copy == IF copied THEN Whole(live) ELSE Broken
             f == Backup("migration", now, FreeAttempt("migration"), copy)
  <2>2. Sound(Whole(live), now)
    BY WholeIs DEF TypeOK
  <2>3. Sound(copy, now)
    BY <1>b, <2>2
  <2>4. FreeAttempt("migration") \in Nat
    BY <1>n, FreeAttemptIs DEF Shelved
  <2>5. files' = Written(f)
    BY <2>1
  <2>6. f \in Backups /\ f.at = now /\ f.file = copy
    <3> HIDE DEF copy
    <3> QED
      BY <1>n, <2>3, <2>4, BackupIs DEF Kinds
  <2> HIDE DEF f, copy
  <2>7. Shelved(files', now)
    BY <1>n, <2>3, <2>5, <2>6, WrittenShelved
  <2>8. work' \in 0 .. MaxWork /\ phase' \in {"downgrading", "closed"}
    BY <2>1, SpendIs DEF TypeOK
  <2>9. live \in Databases
    BY DEF TypeOK, WellFormed
  <2>10. replaced' \subseteq [held : Databases, file : Databases] /\ lost' \subseteq Databases
    BY <2>1, <2>9, SetAsideIs DEF TypeOK, past
  <2>11. tasks = {}
    BY <1>5, <1>s DEF DowngradeCopy, TypeOK
  <2> QED
    BY <1>5, <2>7, <2>8, <2>10, <2>11 DEF DowngradeCopy, TypeOK, InUse, Phases, task, tele
<1>6. CASE DowngradeStep
  <2>a. plan \in Plans
    BY DEF TypeOK
  <2>b. plan.to \in 0 .. CurrentVersion
    BY <2>a DEF Plans
  <2>1. plan.to \in Nat
    BY <2>b DEF CurrentVersion
  <2>2. Max({plan.to, 1}) \in Nat /\ Max({plan.to, 1}) >= 1
    <3>1. Max({plan.to, 1}) = IF plan.to >= 1 THEN plan.to ELSE 1
      BY <2>1, MaxOfTwo
    <3> QED
      BY <2>1, <3>1
  <2>3. live \in Databases /\ WellFormed(live, now)
    BY DEF TypeOK, WellFormed
  <2>4. live.version \in Nat
    BY <2>3, DatabaseFields DEF CurrentVersion
  <2> DEFINE m == Max({plan.to, 1})
  <2>5. live.version > m /\ m \in Nat /\ m >= 1
    BY <1>6, <2>2 DEF DowngradeStep
  <2> HIDE DEF m
  <2>6. live.version > 1
    BY <2>4, <2>5
  <2>7. WellFormed(Downgraded(live, live.version), now)
    BY <2>3, <2>6, DowngradedIs
  <2> QED
    BY <1>6, <2>7 DEF DowngradeStep, TypeOK, InUse, task, tele, past
<1> QED
  BY <1>1, <1>2, <1>3, <1>4, <1>5, <1>6 DEF Commands

LEMMA NextType ==
  ASSUME TypeOK, [Next]_vars
  PROVE  TypeOK'
<1>1. CASE UNCHANGED vars
  BY <1>1 DEF vars, TypeOK, InUse, disk, task, tele, past
<1>2. ASSUME NEW w \in Jobs,
         BackupBegin(w) \/ BackupCopied(w) \/ BackupAborted(w) \/ BackupVerified(w)
         \/ BackupDiscarded(w)
      PROVE  TypeOK'
  BY <1>2, BackupType
<1>3. CASE Maintenance
  BY <1>2, <1>3, PurgeTickType DEF Maintenance
<1> QED
  BY <1>1, <1>3, TickType, OpeningType, ProcessType, RequestsType, CommandsType DEF Next

\* However requests, jobs, commands, reloads and crashes interleave: every copy
\* of the database, the running one, the file and each backup, holds only the
\* tables of its version and caches within their limits, and no two backups
\* share a name.
THEOREM StoreTypes == Spec => []TypeOK
<1>1. Init => TypeOK
  BY InitType
<1>2. TypeOK /\ [Next]_vars => TypeOK'
  BY NextType
<1> QED
  BY <1>1, <1>2, PTL DEF Spec

----------------------------------------------------------------------------
(* What an eviction spares.                                                 *)

LEMMA OtherTables ==
  ASSUME NEW db \in Databases, NEW new
  PROVE  /\ [db EXCEPT !.search = new].search = new
         /\ [db EXCEPT !.search = new].documents = db.documents
         /\ [db EXCEPT !.search = new].telemetry = db.telemetry
         /\ [db EXCEPT !.documents = new].search = db.search
         /\ [db EXCEPT !.documents = new].documents = new
         /\ [db EXCEPT !.documents = new].telemetry = db.telemetry
         /\ [db EXCEPT !.telemetry = new].search = db.search
         /\ [db EXCEPT !.telemetry = new].documents = db.documents
         /\ [db EXCEPT !.telemetry = new].telemetry = new
         /\ [db EXCEPT !.history = new].search = db.search
         /\ [db EXCEPT !.history = new].documents = db.documents
         /\ [db EXCEPT !.history = new].telemetry = db.telemetry
         /\ [db EXCEPT !.audit = new].search = db.search
         /\ [db EXCEPT !.audit = new].documents = db.documents
         /\ [db EXCEPT !.audit = new].telemetry = db.telemetry
         /\ [db EXCEPT !.saved = new].search = db.search
         /\ [db EXCEPT !.saved = new].documents = db.documents
         /\ [db EXCEPT !.saved = new].telemetry = db.telemetry
  BY DEF Databases

Spared ==
  /\ SparesWarm(live.search, live'.search, SearchPolicy)
  /\ SparesWarm(live.documents, live'.documents, DocumentPolicy)

LEMMA SameSpares ==
  ASSUME NEW table, NEW policy
  PROVE  SparesWarm(table, table, policy)
  BY DEF SparesWarm

LEMMA TouchedSpares ==
  ASSUME NEW keys, NEW table \in Seq(CacheRows(keys)), NEW i \in DOMAIN table, NEW t \in Nat,
         NEW policy
  PROVE  SparesWarm(table, Touched(table, i, t), policy)
<1> DEFINE new == Touched(table, i, t)
<1>1. DOMAIN new = DOMAIN table /\ \A k \in DOMAIN table : new[k].key = table[k].key
  BY TouchedIs
<1> HIDE DEF new
<1>2. \A k \in DOMAIN new : new[k].key \in Keys(table)
  BY <1>1 DEF Keys
<1> QED
  BY <1>2, NoNewKeySpares DEF new

LEMMA RequestSpares ==
  ASSUME TypeOK, Requests
  PROVE  Spared
<1>d. /\ now \in Nat /\ live \in Databases
      /\ live.search \in Seq(CacheRows(Queries))
      /\ live.documents \in Seq(CacheRows(Pages \X Hashes))
  <2>1. live \in Databases
    BY DEF TypeOK, WellFormed
  <2>2. now \in Nat
    BY Constants DEF TypeOK
  <2>3. /\ live.search \in Seq(CacheRows(Queries))
        /\ live.documents \in Seq(CacheRows(Pages \X Hashes))
    BY <2>1 DEF Databases
  <2> QED
    BY <2>1, <2>2, <2>3
<1>s. ASSUME live'.search = live.search, live'.documents = live.documents PROVE Spared
  BY <1>s, SameSpares DEF Spared
<1>1. ASSUME NEW q \in Queries, LookUp(q) PROVE Spared
  <2>1. CASE UNCHANGED disk
    BY <1>s, <2>1 DEF disk
  <2>2. ASSUME NEW i \in Hits(live.search, q, now, SearchPolicy),
               live' = [live EXCEPT !.search = Touched(live.search, i, now)]
        PROVE  Spared
    <3>1. i \in DOMAIN live.search
      BY DEF Hits, Current
    <3>2. live'.search = Touched(live.search, i, now) /\ live'.documents = live.documents
      BY <1>d, <2>2, OtherTables
    <3>3. SparesWarm(live.search, Touched(live.search, i, now), SearchPolicy)
      BY <1>d, <3>1, TouchedSpares
    <3> QED
      BY <3>2, <3>3, SameSpares DEF Spared
  <2> QED
    BY <1>1, <2>1, <2>2 DEF LookUp, Commit
<1>2. ASSUME NEW q \in Queries, NEW size \in Sizes, Answer(q, size) PROVE Spared
  <2> DEFINE row == CacheRow(q, size, now)
  <2>1. CASE UNCHANGED disk
    BY <1>s, <2>1 DEF disk
  <2>2. CASE live' = [live EXCEPT !.search = Put(live.search, row, SearchPolicy)]
    <3>1. live'.search = Put(live.search, row, SearchPolicy) /\ live'.documents = live.documents
      BY <1>d, <2>2, OtherTables
    <3>2. row \in CacheRows(Queries) /\ row.created = now
      BY <1>d, CacheRowIs
    <3> HIDE DEF row
    <3>3. SparesWarm(live.search, Put(live.search, row, SearchPolicy), SearchPolicy)
      BY <1>d, <3>2, PutSpares, Constants
    <3> QED
      BY <3>1, <3>3, SameSpares DEF Spared
  <2> QED
    BY <1>2, <2>1, <2>2 DEF Answer, Commit
<1>3. ASSUME NEW page \in Pages, NEW hash \in Hashes, ReadDocument(page, hash) PROVE Spared
  <2>1. PICK i \in Hits(live.documents, <<page, hash>>, now, DocumentPolicy)
                   \cup LatestHit(live.documents, page, now, DocumentPolicy) :
          live' = [live EXCEPT !.documents = Touched(live.documents, i, now)]
    BY <1>3 DEF ReadDocument, Commit
  <2>2. i \in DOMAIN live.documents
    BY <2>1 DEF Hits, LatestHit, Current
  <2>3. live'.documents = Touched(live.documents, i, now) /\ live'.search = live.search
    BY <1>d, <2>1, OtherTables
  <2>4. SparesWarm(live.documents, Touched(live.documents, i, now), DocumentPolicy)
    BY <1>d, <2>2, TouchedSpares
  <2> QED
    BY <2>3, <2>4, SameSpares DEF Spared
<1>4. ASSUME NEW page \in Pages, NEW hash \in Hashes, NEW size \in Sizes,
             KeepDocument(page, hash, size)
      PROVE  Spared
  <2> DEFINE key == <<page, hash>>
             row == CacheRow(key, size, now)
  <2>1. live' = [live EXCEPT !.documents = Put(live.documents, row, DocumentPolicy)]
    BY <1>4 DEF KeepDocument, Commit
  <2>2. key \in Pages \X Hashes
    OBVIOUS
  <2>3. \A keys, k, n, t : k \in keys /\ n \in Sizes /\ t \in Nat
          => CacheRow(k, n, t) \in CacheRows(keys) /\ CacheRow(k, n, t).created = t
    BY CacheRowIs
  <2> HIDE DEF key
  <2>4. row \in CacheRows(Pages \X Hashes) /\ row.created = now
    BY <1>d, <2>2, <2>3
  <2> HIDE DEF row
  <2>5. live'.documents = Put(live.documents, row, DocumentPolicy) /\ live'.search = live.search
    BY <1>d, <2>1, OtherTables
  <2>6. SparesWarm(live.documents, Put(live.documents, row, DocumentPolicy), DocumentPolicy)
    BY <1>d, <2>4, PutSpares, Constants
  <2> QED
    BY <2>5, <2>6, SameSpares DEF Spared
<1>5. CASE PurgeCaches
  <2>1. live'.search = <<>> /\ live'.documents = <<>>
    BY <1>5, <1>d DEF PurgeCaches, Commit, Databases
  <2>2. \A k \in DOMAIN <<>> : FALSE
    OBVIOUS
  <2> QED
    BY <2>1, <2>2, NoNewKeySpares DEF Spared
<1>6. CASE RecordHistory \/ DeleteHistory
  <2>1. \E new : live' = [live EXCEPT !.history = new]
    BY <1>6 DEF RecordHistory, DeleteHistory, Commit
  <2> QED
    BY <1>d, <1>s, <2>1, OtherTables
<1>7. CASE RecordEvent
  <2>1. \E new : live' = [live EXCEPT !.audit = new]
    BY <1>7 DEF RecordEvent, Commit
  <2> QED
    BY <1>d, <1>s, <2>1, OtherTables
<1>8. ASSUME NEW key \in SavedKeys, DeleteSaved(key) \/ \E size \in Sizes : SaveDocument(key, size)
      PROVE  Spared
  <2>1. \E new : live' = [live EXCEPT !.saved = new]
    BY <1>8 DEF DeleteSaved, SaveDocument, Commit
  <2> QED
    BY <1>d, <1>s, <2>1, OtherTables
<1>9. CASE Observe
  BY <1>9, <1>s DEF Observe, disk
<1>10. CASE Persist \/ PersistLate \/ PersistDropped
  <2>1. \E new : live' = [live EXCEPT !.telemetry = new]
    BY <1>10 DEF Persist, PersistLate, PersistDropped, Stored
  <2> QED
    BY <1>d, <1>s, <2>1, OtherTables
<1> QED
  BY <1>1, <1>2, <1>3, <1>4, <1>5, <1>6, <1>7, <1>8, <1>9, <1>10 DEF Requests

LEMMA StepSpares ==
  ASSUME TypeOK, [Next]_vars, phase = "open", phase' = "open"
  PROVE  Spared
<1>s. ASSUME live' = live PROVE Spared
  BY <1>s, SameSpares DEF Spared
<1>1. CASE Requests
  BY <1>1, RequestSpares
<1>2. CASE PurgeTick
  <2>1. now \in Nat /\ WellFormed(live, now) /\ live.version = CurrentVersion
    BY Constants DEF TypeOK, InUse
  <2>2. live' = Purged(live, now)
    BY <1>2 DEF PurgeTick, Commit
  <2>3. /\ \A k \in DOMAIN live'.search : live'.search[k].key \in Keys(live.search)
        /\ \A k \in DOMAIN live'.documents : live'.documents[k].key \in Keys(live.documents)
    BY <2>1, <2>2, PurgedIs
  <2> QED
    BY <2>3, NoNewKeySpares DEF Spared
<1>3. ASSUME NEW w \in Jobs,
         BackupBegin(w) \/ BackupCopied(w) \/ BackupAborted(w) \/ BackupVerified(w)
         \/ BackupDiscarded(w)
      PROVE  Spared
  BY <1>s, <1>3 DEF BackupBegin, BackupCopied, BackupAborted, BackupVerified, BackupDiscarded
<1>4. CASE Tick \/ Process \/ UNCHANGED vars
  BY <1>s, <1>4 DEF Tick, Process, Exit, Checkpoint, Reload, Retire, disk, vars
<1>5. ASSUME Opening PROVE FALSE
  BY <1>5 DEF Opening, Start, OpenQuarantines, OpenOld, OpenCurrent, Connected, Migrate
<1>6. ASSUME Commands PROVE Spared
  <2>1. CASE DowngradeCopy
    BY <1>s, <2>1 DEF DowngradeCopy
  <2>2. CASE ~DowngradeCopy
    BY <1>6, <2>2 DEF Commands, RestoreBegin, RestoreSave, RestoreReplace, Command, DowngradeStart,
         DowngradeStep
  <2> QED
    BY <2>1, <2>2
<1> QED
  BY <1>1, <1>2, <1>3, <1>4, <1>5, <1>6 DEF Next, Maintenance

\* cache_put and document_cache_put evict in the order of use, whatever rows,
\* policies and sizes there are: a put for a new key drops a current row only
\* when every row that stays was used at least as recently.
THEOREM EvictionFollowsUse == Spec => EvictionIsLru
<1>1. TypeOK /\ [Next]_vars =>
        [phase = "open" /\ phase' = "open" =>
           /\ SparesWarm(live.search, live'.search, SearchPolicy)
           /\ SparesWarm(live.documents, live'.documents, DocumentPolicy)]_vars
  BY StepSpares DEF Spared
<1> QED
  BY <1>1, StoreTypes, PTL DEF Spec, EvictionIsLru

----------------------------------------------------------------------------
(* What a rotation spares.                                                  *)

\* A backup that is whole, unless a job is still making it, leaves the disk
\* only when MaxCount newer names stay listed.
LEMMA StepRotates ==
  ASSUME TypeOK, [Next]_vars, NEW f \in files, f.file.whole,
         \A g \in files' : ~SameName(f, g),
         \A w \in Jobs : job[w] # NoJob => ~SameName(f, Target(w))
  PROVE  f.kind = "auto" /\ Outnumbered(f.at, files')
<1>n. now \in Nat /\ Shelved(files, now)
  BY Constants DEF TypeOK
<1>1. files' # files
  BY DEF SameName
<1>2. ASSUME NEW g, files' = Written(g) PROVE FALSE
  BY <1>2 DEF Written, SameName
<1>3. CASE Opening
  BY <1>1, <1>2, <1>3 DEF Opening, Start, OpenQuarantines, OpenOld, OpenCurrent, Migrate, disk
<1>4. CASE Tick \/ Process \/ UNCHANGED vars
  BY <1>1, <1>4 DEF Tick, Process, Exit, Checkpoint, Reload, Retire, disk, vars
<1>5. ASSUME Requests PROVE files' = files
  BY <1>5 DEF Requests, LookUp, Answer, ReadDocument, KeepDocument, PurgeCaches, RecordHistory,
       DeleteHistory, SaveDocument, DeleteSaved, RecordEvent, Observe, Persist, PersistLate,
       PersistDropped, Stored, Commit, disk
<1>6. ASSUME PurgeTick PROVE files' = files
  BY <1>6 DEF PurgeTick, Commit
<1>7. ASSUME Commands PROVE FALSE
  <2>1. ASSUME NEW g \in files, RestoreBegin(g) PROVE FALSE
    BY <1>1, <2>1 DEF RestoreBegin, Taken, SameName, Shelved, TypeOK
  <2> QED
    BY <1>1, <1>2, <1>7, <2>1 DEF Commands, RestoreSave, RestoreReplace, DowngradeStart,
         DowngradeCopy, DowngradeStep
<1>8. ASSUME NEW w \in Jobs, BackupBegin(w) \/ BackupCopied(w) PROVE FALSE
  BY <1>2, <1>8 DEF BackupBegin, BackupCopied
<1>9. ASSUME NEW w \in Jobs, BackupAborted(w) \/ BackupDiscarded(w) PROVE FALSE
  <2>1. job[w] # NoJob
    BY <1>9 DEF BackupAborted, BackupDiscarded, NoJob
  <2>2. ~SameName(Target(w), f)
    BY <2>1 DEF SameName
  <2> QED
    BY <1>1, <1>9, <2>2 DEF BackupAborted, BackupDiscarded, Taken, SameName
<1>10. ASSUME NEW w \in Jobs, BackupVerified(w)
       PROVE  f.kind = "auto" /\ Outnumbered(f.at, files')
  <2>1. files' = Rotated(files)
    BY <1>10 DEF BackupVerified
  <2>2. f \notin Rotated(files)
    BY <2>1 DEF SameName
  <2>3. Cardinality({g \in Rotated(files) : g.kind = "auto" /\ g.attempt = 0 /\ g.at > f.at})
              >= MaxCount
    BY <1>n, <2>2, RotationKeepsNewest
  <2> QED
    BY <1>n, <2>1, <2>2, <2>3, RotationKeepsNewest DEF Outnumbered
<1> QED
  BY <1>1, <1>3, <1>4, <1>5, <1>6, <1>7, <1>8, <1>9, <1>10 DEF Next, Maintenance

\* rotate_backups and the discarding of a bad copy, with any number of backups
\* and any limit, take no whole backup that nobody is making except an automatic
\* one that MaxCount newer automatic names, finished or not, outnumber; the copies
\* taken before a restore or a migration stay.
THEOREM RotationKeepsBackups == Spec => RotationSpares
<1>1. TypeOK /\ [Next]_vars =>
        [\A f \in files :
           /\ f.file.whole /\ \A g \in files' : ~SameName(f, g)
           /\ \A w \in Jobs : job[w] # NoJob => ~SameName(f, Target(w))
           => f.kind = "auto" /\ Outnumbered(f.at, files')]_vars
  BY StepRotates
<1> QED
  BY <1>1, StoreTypes, PTL DEF Spec, RotationSpares

----------------------------------------------------------------------------
(* What a restore or a downgrade replaces can be had back.                  *)

\* Safety copies carry the first name of their second.
FirstNames == \A f \in files : f.kind = "pre_restore" => f.attempt = 0

\* While it is being written the newest safety copy is the broken one; once it
\* is there it is the main file.
Saved ==
  /\ phase = "saving" =>
       \E f \in files :
         /\ f.kind = "pre_restore" /\ f.file = Broken
         /\ \A g \in files : g.kind = "pre_restore" => g.at <= f.at
  /\ phase = "replace" =>
       \/ main = Missing /\ wal = "none"
       \/ \E f \in files : f.kind = "pre_restore" /\ f.file = main

KeptInv == Recoverable /\ FirstNames /\ Saved

LEMMA RequestLeaves ==
  ASSUME TypeOK, Requests \/ PurgeTick
  PROVE  /\ UNCHANGED <<now, phase, plan, main, files, task, past>>
         /\ phase \in {"open", "degraded"} \/ UNCHANGED wal
<1>o. Open => phase \in {"open", "degraded"}
  BY DEF Open, InUse, TypeOK
<1>1. ASSUME NEW kind, NEW db, Commit(kind, db)
      PROVE  /\ UNCHANGED <<now, phase, plan, main, files, task, past>>
             /\ phase \in {"open", "degraded"} \/ UNCHANGED wal
  BY <1>1, <1>o DEF Commit
<1>2. CASE Observe \/ Persist \/ PersistLate \/ PersistDropped
  BY <1>2, <1>o DEF Observe, Persist, PersistLate, PersistDropped, Stored, disk
<1>3. ASSUME NEW q \in Queries, LookUp(q) \/ \E size \in Sizes : Answer(q, size)
      PROVE  /\ UNCHANGED <<now, phase, plan, main, files, task, past>>
             /\ phase \in {"open", "degraded"} \/ UNCHANGED wal
  BY <1>1, <1>3 DEF LookUp, Answer, disk
<1>4. ASSUME NEW page \in Pages, NEW hash \in Hashes,
             ReadDocument(page, hash) \/ \E size \in Sizes : KeepDocument(page, hash, size)
      PROVE  /\ UNCHANGED <<now, phase, plan, main, files, task, past>>
             /\ phase \in {"open", "degraded"} \/ UNCHANGED wal
  BY <1>1, <1>4 DEF ReadDocument, KeepDocument
<1>5. ASSUME NEW key \in SavedKeys, DeleteSaved(key) \/ \E size \in Sizes : SaveDocument(key, size)
      PROVE  /\ UNCHANGED <<now, phase, plan, main, files, task, past>>
             /\ phase \in {"open", "degraded"} \/ UNCHANGED wal
  BY <1>1, <1>5 DEF DeleteSaved, SaveDocument
<1>6. CASE PurgeCaches \/ RecordHistory \/ DeleteHistory \/ RecordEvent \/ PurgeTick
  BY <1>1, <1>6 DEF PurgeCaches, RecordHistory, DeleteHistory, RecordEvent, PurgeTick
<1> QED
  BY <1>2, <1>3, <1>4, <1>5, <1>6 DEF Requests

\* A step that leaves what was replaced, and drops no whole file but automatic
\* ones.
LEMMA KeptFrame ==
  ASSUME KeptInv, past' = past,
         \A f \in files : f.kind # "auto" /\ f.file.whole => f \in files',
         \A f \in files' : f.kind = "pre_restore" => f \in files,
         \/ phase' \notin {"saving", "replace"}
         \/ /\ phase' = phase /\ main' = main /\ wal' = wal
            /\ \A f \in files : f.kind = "pre_restore" => f \in files'
  PROVE  KeptInv'
<1>1. Recoverable'
  BY DEF KeptInv, Recoverable, Kept, Whole, past
<1>2. FirstNames'
  BY DEF KeptInv, FirstNames
<1>3. Saved'
  BY DEF KeptInv, Saved
<1> QED
  BY <1>1, <1>2, <1>3 DEF KeptInv

LEMMA KeptSameFiles ==
  ASSUME KeptInv, past' = past, files' = files,
         phase' \notin {"saving", "replace"} \/ (phase' = phase /\ main' = main /\ wal' = wal)
  PROVE  KeptInv'
  BY KeptFrame

\* A file of another kind is written: nothing else goes, or only what has its
\* name and kind.
LEMMA WrittenKeeps ==
  ASSUME NEW f, f.kind # "pre_restore", files' = Written(f),
         f.kind = "auto" \/ \A g \in files : ~SameName(f, g)
  PROVE  /\ \A g \in files : g.kind # "auto" => g \in files'
         /\ \A g \in files' : g.kind = "pre_restore" => g \in files
  BY DEF Written, SameName

LEMMA MigrationKeeps ==
  ASSUME TypeOK, NEW file,
         files' = Written(Backup("migration", now, FreeAttempt("migration"), file))
  PROVE  /\ \A g \in files : g.kind # "auto" => g \in files'
         /\ \A g \in files' : g.kind = "pre_restore" => g \in files
         /\ \E g \in files' : g.kind = "migration" /\ g.file = file
<1> DEFINE f == Backup("migration", now, FreeAttempt("migration"), file)
<1>1. \A g \in files : ~(g.kind = "migration" /\ g.at = now /\ g.attempt = FreeAttempt("migration"))
  BY FreeAttemptIs DEF TypeOK, Shelved
<1>2. /\ f.kind = "migration" /\ f.at = now /\ f.attempt = FreeAttempt("migration")
      /\ f.file = file
  BY DEF Backup
<1>3. files' = Written(f)
  OBVIOUS
<1> HIDE DEF f
<1>4. \A g \in files : ~SameName(f, g)
  BY <1>1, <1>2 DEF SameName
<1>5. f \in files'
  BY <1>3 DEF Written
<1> QED
  BY <1>2, <1>3, <1>4, <1>5, WrittenKeeps

LEMMA KeptJobs ==
  ASSUME TypeOK, KeptInv, NEW w \in Jobs,
         BackupBegin(w) \/ BackupCopied(w) \/ BackupAborted(w) \/ BackupVerified(w)
         \/ BackupDiscarded(w)
  PROVE  KeptInv'
<1>p. phase' = phase /\ main' = main /\ wal' = wal /\ past' = past
  BY DEF BackupBegin, BackupCopied, BackupAborted, BackupVerified, BackupDiscarded
<1>f. ASSUME \A g \in files : g.kind # "auto" => g \in files',
             \A g \in files' : g.kind = "pre_restore" => g \in files
      PROVE  KeptInv'
  BY <1>f, <1>p, KeptFrame
<1>1. CASE BackupBegin(w)
  <2> DEFINE f == Backup("auto", now, FreeAttempt("auto"), Broken)
  <2>1. files' = Written(f) /\ f.kind = "auto"
    BY <1>1 DEF BackupBegin, Backup
  <2> HIDE DEF f
  <2> QED
    BY <1>f, <2>1, WrittenKeeps
<1>2. CASE BackupCopied(w)
  <2> DEFINE f == [Target(w) EXCEPT !.file = Whole(live)]
  <2>1. files' = Written(f) /\ f.kind = "auto"
    BY <1>2 DEF BackupCopied, Target, Backup
  <2> HIDE DEF f
  <2> QED
    BY <1>f, <2>1, WrittenKeeps
<1>3. CASE BackupAborted(w) \/ BackupDiscarded(w)
  <2>1. Target(w).kind = "auto"
    BY DEF Target, Backup
  <2> QED
    BY <1>3, <1>f, <2>1 DEF BackupAborted, BackupDiscarded, Taken, SameName
<1>4. CASE BackupVerified(w)
  BY <1>4, <1>f, RotatedIs DEF BackupVerified
<1> QED
  BY <1>1, <1>2, <1>3, <1>4

LEMMA KeptSave ==
  ASSUME TypeOK, KeptInv, RestoreSave
  PROVE  KeptInv'
<1>n. now \in Nat /\ Shelved(files, now) /\ Broken.whole = FALSE /\ Missing.whole = TRUE
  <2>1. now \in Nat /\ Shelved(files, now)
    BY Constants DEF TypeOK
  <2> QED
    BY <2>1, BrokenIs
<1>1. CASE /\ phase' = "saving" /\ files' = Written(SafetyCopy(Broken))
           /\ lost' = lost \cup {f.file.db : f \in
                        {g \in files : g.file.whole /\ SameName(SafetyCopy(Broken), g)}}
           /\ UNCHANGED replaced
  <2> DEFINE c == SafetyCopy(Broken)
  <2>1. c.kind = "pre_restore" /\ c.at = now /\ c.attempt = 0 /\ c.file = Broken
    BY DEF SafetyCopy, Backup
  <2>2. /\ files' = Written(c)
        /\ \A g \in files : g.file.whole /\ SameName(c, g) => g.file.db \in lost'
        /\ lost \subseteq lost'
    BY <1>1
  <2> HIDE DEF c
  <2>3. c \in files' /\ \A f \in files' : f = c \/ f \in files
    BY <2>2 DEF Written
  <2>4. Recoverable'
    <3> SUFFICES ASSUME NEW r \in replaced PROVE Kept(r.file)' \/ r.file \in lost'
      BY <1>1 DEF Recoverable
    <3>1. CASE r.file \in lost
      BY <2>2, <3>1
    <3>2. CASE Kept(r.file)
      <4>1. PICK f \in files : f.kind # "auto" /\ f.file = Whole(r.file)
        BY <3>2 DEF Kept
      <4>2. f.file.whole /\ f.file.db = r.file
        BY <4>1 DEF Whole
      <4>3. CASE SameName(c, f)
        BY <2>2, <4>2, <4>3
      <4>4. CASE ~SameName(c, f)
        <5>1. f \in files'
          BY <2>2, <4>4 DEF Written
        <5> QED
          BY <4>1, <5>1 DEF Kept, Whole
      <4> QED
        BY <4>3, <4>4
    <3> QED
      BY <3>1, <3>2 DEF KeptInv, Recoverable
  <2>5. FirstNames'
    BY <2>1, <2>3 DEF KeptInv, FirstNames
  <2>6. \A g \in files' : g.at <= c.at
    <3>1. \A g \in files : g.at <= now
      BY <1>n, FileIs
    <3> QED
      BY <1>n, <2>1, <2>3, <3>1
  <2>7. Saved'
    BY <1>1, <2>1, <2>3, <2>6 DEF Saved
  <2> QED
    BY <2>4, <2>5, <2>7 DEF KeptInv
<1>2. ASSUME phase = "saving", phase' = "replace", NEW f \in files, f.kind = "pre_restore",
             \A g \in files : g.kind = f.kind => g.at <= f.at,
             files' = Written([f EXCEPT !.file = main]), past' = past, main' = main
      PROVE  KeptInv'
  <2>1. PICK b \in files :
          /\ b.kind = "pre_restore" /\ b.file = Broken
          /\ \A g \in files : g.kind = "pre_restore" => g.at <= b.at
    BY <1>2 DEF KeptInv, Saved
  <2>2. f \in Backups /\ b \in Backups /\ f.at \in Nat /\ b.at \in Nat
    BY <1>n, FileIs
  <2>3. f.at <= b.at /\ b.at <= f.at /\ f.attempt = 0 /\ b.attempt = 0
    BY <1>2, <2>1 DEF KeptInv, FirstNames
  <2>4. SameName(f, b)
    BY <1>2, <2>1, <2>2, <2>3 DEF SameName
  <2>5. f.file = Broken
    BY <1>n, <2>1, <2>4 DEF Shelved
  <2> DEFINE c == [f EXCEPT !.file = main]
  <2>6. c.kind = "pre_restore" /\ c.at = f.at /\ c.attempt = 0 /\ c.file = main
    BY <1>2, <2>2, <2>3 DEF Backups
  <2>7. files' = Written(c)
    BY <1>2
  <2> HIDE DEF c
  <2>8. c \in files' /\ \A g \in files' : g = c \/ g \in files
    BY <2>7 DEF Written
  <2>9. \A g \in files : g \in files' \/ g = f
    <3>1. ASSUME NEW g \in files, g \notin files' PROVE g = f
      <4>1. SameName(c, g)
        BY <2>7, <3>1 DEF Written
      <4>2. SameName(g, f)
        BY <1>2, <2>3, <2>6, <4>1 DEF SameName
      <4> QED
        BY <1>n, <4>2 DEF Shelved
    <3> QED
      BY <3>1
  <2>10. Recoverable'
    <3>1. \A db : Whole(db).whole
      BY DEF Whole
    <3>2. \A db : f.file # Whole(db)
      BY <1>n, <2>5, <3>1
    <3>3. \A db : Kept(db) => Kept(db)'
      BY <2>9, <3>2 DEF Kept, Whole
    <3> QED
      BY <1>2, <3>3 DEF KeptInv, Recoverable, past
  <2>11. FirstNames'
    BY <2>6, <2>8 DEF KeptInv, FirstNames
  <2>12. Saved'
    BY <1>2, <2>6, <2>8 DEF Saved
  <2> QED
    BY <2>10, <2>11, <2>12 DEF KeptInv
<1> QED
  BY <1>1, <1>2 DEF RestoreSave, past

LEMMA WholeAgain ==
  ASSUME NEW file \in Files, file.whole
  PROVE  file = Whole(file.db)
  BY DEF Files, Whole

\* A copy was taken of what is set aside.
LEMMA KeptSetAside ==
  ASSUME Recoverable, NEW held, NEW file, SetAside(held, file), Kept(file)',
         \A f \in files : f.kind # "auto" /\ f.file.whole => f \in files'
  PROVE  Recoverable'
<1>1. ASSUME NEW db, Kept(db) PROVE Kept(db)'
  BY <1>1 DEF Kept, Whole
<1>2. /\ replaced' = replaced \cup {[held |-> held, file |-> file]} /\ lost' = lost
  BY DEF SetAside
<1>3. [held |-> held, file |-> file].file = file
  OBVIOUS
<1> QED
  BY <1>1, <1>2, <1>3 DEF Recoverable

LEMMA KeptCommands ==
  ASSUME TypeOK, KeptInv, Commands
  PROVE  KeptInv'
<1>n. main \in Files
  BY DEF TypeOK, Sound
<1>1. ASSUME NEW f \in files, RestoreBegin(f) PROVE KeptInv'
  <2>1. past' = past /\ main' = main /\ wal' = wal
    BY <1>1 DEF RestoreBegin, Command
  <2>2. CASE ~f.file.whole /\ Taken(f) /\ phase' = "closed"
    <3>1. \A g \in files : g \in files' \/ g = f
      BY <2>2 DEF Taken, TypeOK, Shelved
    <3>2. files' \subseteq files
      BY <2>2 DEF Taken
    <3> QED
      BY <2>1, <2>2, <3>1, <3>2, KeptFrame
  <2>3. CASE phase' = (IF main = Missing /\ wal = "none" THEN "replace" ELSE "save")
             /\ UNCHANGED <<files, spoiled>>
    <3>1. Recoverable' /\ FirstNames'
      BY <2>1, <2>3 DEF KeptInv, Recoverable, Kept, Whole, FirstNames, past
    <3>2. Saved'
      BY <2>1, <2>3 DEF Saved
    <3> QED
      BY <3>1, <3>2 DEF KeptInv
  <2> QED
    BY <1>1, <2>2, <2>3 DEF RestoreBegin
<1>2. CASE RestoreReplace
  <2>1. CASE /\ phase = "replace" /\ phase' = "replacing"
             /\ IF ~main.whole \/ (main = Missing /\ wal = "none") THEN UNCHANGED past
                ELSE SetAside(IF wal = "own" THEN live ELSE main.db, main.db)
    <3>1. files' = files
      BY <1>2 DEF RestoreReplace
    <3>2. CASE UNCHANGED past
      BY <2>1, <3>1, <3>2, KeptSameFiles
    <3>3. CASE ~(~main.whole \/ (main = Missing /\ wal = "none"))
      <4>1. PICK f \in files : f.kind = "pre_restore" /\ f.file = main
        BY <2>1, <3>3 DEF KeptInv, Saved
      <4>2. main = Whole(main.db)
        BY <1>n, <3>3, WholeAgain
      <4>4. PICK held, db : SetAside(held, db) /\ db = main.db
        BY <2>1, <3>3
      <4>3. Kept(db)'
        BY <3>1, <4>1, <4>2, <4>4 DEF Kept
      <4>5. FirstNames' /\ Saved'
        BY <2>1, <3>1 DEF KeptInv, FirstNames, Saved
      <4> QED
        BY <3>1, <4>3, <4>4, <4>5, KeptSetAside DEF KeptInv
    <3> QED
      BY <2>1, <3>2, <3>3
  <2>2. CASE phase' = "opening" /\ UNCHANGED past
    BY <1>2, <2>2, KeptSameFiles DEF RestoreReplace
  <2> QED
    BY <1>2, <2>1, <2>2 DEF RestoreReplace
<1>3. CASE DowngradeCopy
  <2>1. PICK copied \in BOOLEAN :
          /\ files' = Written(Backup("migration", now, FreeAttempt("migration"),
                                  IF copied THEN Whole(live) ELSE Broken))
          /\ phase' \in {"downgrading", "closed"}
          /\ IF copied THEN SetAside(live, live) ELSE UNCHANGED past
    BY <1>3 DEF DowngradeCopy
  <2> DEFINE copy == IF copied THEN Whole(live) ELSE Broken
  <2>2. /\ \A g \in files : g.kind # "auto" => g \in files'
        /\ \A g \in files' : g.kind = "pre_restore" => g \in files
        /\ \E g \in files' : g.kind = "migration" /\ g.file = copy
    BY <2>1, MigrationKeeps
  <2>3. CASE copied
    <3>1. SetAside(live, live) /\ copy = Whole(live)
      BY <2>1, <2>3
    <3> HIDE DEF copy
    <3>4. \E g \in files' : g.kind # "auto" /\ g.file = Whole(live)
      BY <2>2, <3>1
    <3>5. live' = live
      BY <1>3 DEF DowngradeCopy
    <3>6. Kept(live)'
      BY <3>4, <3>5 DEF Kept, Whole
    <3>2. Recoverable'
      BY <2>2, <3>1, <3>5, <3>6, KeptSetAside DEF KeptInv
    <3>3. FirstNames' /\ Saved'
      BY <2>1, <2>2 DEF KeptInv, FirstNames, Saved
    <3> QED
      BY <3>2, <3>3 DEF KeptInv
  <2>4. CASE ~copied
    BY <2>1, <2>2, <2>4, KeptFrame
  <2> QED
    BY <2>3, <2>4
<1>4. CASE DowngradeStep
  BY <1>4, KeptSameFiles DEF DowngradeStep
<1>5. ASSUME NEW to \in Targets, DowngradeStart(to) PROVE KeptInv'
  BY <1>5, KeptSameFiles DEF DowngradeStart
<1> QED
  BY <1>1, <1>2, <1>3, <1>4, <1>5, KeptSave DEF Commands

LEMMA KeptStep ==
  ASSUME TypeOK, KeptInv, [Next]_vars
  PROVE  KeptInv'
<1>1. CASE Requests \/ PurgeTick
  BY <1>1, RequestLeaves, KeptSameFiles
<1>2. CASE Tick \/ UNCHANGED vars
  BY <1>2, KeptSameFiles DEF Tick, vars, disk
<1>3. CASE Exit \/ Reload \/ \E t \in Tasks : Retire(t)
  BY <1>3, KeptSameFiles DEF Exit, Reload, Retire, disk
<1>8. CASE Checkpoint
  <2>1. phase' = phase /\ phase \in {"open", "degraded"}
    BY <1>8 DEF Checkpoint, InUse, TypeOK
  <2> QED
    BY <1>8, <2>1, KeptSameFiles DEF Checkpoint
<1>4. CASE Start \/ OpenQuarantines \/ OpenCurrent \/ Migrate
  BY <1>4, KeptSameFiles DEF Start, OpenQuarantines, Without, OpenCurrent, Migrate, disk
<1>5. CASE OpenOld
  <2>1. PICK found \in Found, copied \in BOOLEAN :
          /\ files' = Written(Backup("migration", now, FreeAttempt("migration"),
                                  IF copied THEN found ELSE Broken))
          /\ phase' \in {"migrating", "degraded", "closed"}
          /\ IF copied THEN SetAside(found.db, found.db) ELSE UNCHANGED past
          /\ found.whole
    BY <1>5 DEF OpenOld, Connected, Without
  <2> DEFINE copy == IF copied THEN found ELSE Broken
  <2>2. /\ \A g \in files : g.kind # "auto" => g \in files'
        /\ \A g \in files' : g.kind = "pre_restore" => g \in files
        /\ \E g \in files' : g.kind = "migration" /\ g.file = copy
    BY <2>1, MigrationKeeps
  <2>3. CASE copied
    <3>1. SetAside(found.db, found.db) /\ copy = found
      BY <2>1, <2>3
    <3> HIDE DEF copy
    <3>2. found = Whole(found.db)
      BY <2>1, FoundIs, WholeAgain DEF Sound, TypeOK
    <3>3. \E g \in files' : g.kind # "auto" /\ g.file = Whole(found.db)
      BY <2>2, <3>1, <3>2
    <3>4. Kept(found.db)'
      BY <3>3 DEF Kept, Whole
    <3>5. Recoverable'
      BY <2>2, <3>1, <3>4, KeptSetAside DEF KeptInv
    <3>6. FirstNames' /\ Saved'
      BY <2>1, <2>2 DEF KeptInv, FirstNames, Saved
    <3> QED
      BY <3>5, <3>6 DEF KeptInv
  <2>4. CASE ~copied
    BY <2>1, <2>2, <2>4, KeptFrame
  <2> QED
    BY <2>3, <2>4
<1>6. ASSUME NEW w \in Jobs,
         BackupBegin(w) \/ BackupCopied(w) \/ BackupAborted(w) \/ BackupVerified(w)
         \/ BackupDiscarded(w)
      PROVE  KeptInv'
  BY <1>6, KeptJobs
<1>7. CASE Commands
  BY <1>7, KeptCommands
<1> QED
  BY <1>1, <1>2, <1>3, <1>4, <1>5, <1>6, <1>7, <1>8 DEF Next, Opening, Process, Maintenance

\* Whatever step `amatl db restore`, a migration or `amatl db downgrade` is killed
\* at, and whatever runs afterwards, the file it set out to replace (of a restore:
\* without the commits still in its log) is there, whole, in a copy that no
\* rotation takes, unless a later restore in that copy's second truncated it.
THEOREM ReplacedIsKept == Spec => []Recoverable
<1>1. Init => KeptInv
  BY DEF Init, KeptInv, Recoverable, FirstNames, Saved
<1>2. TypeOK /\ KeptInv /\ [Next]_vars => KeptInv'
  BY KeptStep
<1>3. KeptInv => Recoverable
  BY DEF KeptInv
<1> QED
  BY <1>1, <1>2, <1>3, StoreTypes, PTL DEF Spec

----------------------------------------------------------------------------
(* The timer's backups are an interval apart.                               *)

\* scan_backups finds an automatic backup made at t or later.
Listed(set, t) == \E f \in set : f.kind = "auto" /\ f.attempt = 0 /\ f.at >= t

\* A task that does not run has no backup to know of and makes none.
Resting == \A t \in Tasks : t \notin tasks => known[t] = Never /\ job[t] = NoJob

\* The disk remembers the latest backup that a task finished, and every task the
\* one it has to know of; the one it is making began an interval after that and
\* is on disk too.
Remembered ==
  /\ periodic # Never => Listed(files, periodic)
  /\ \A t \in Tasks : t \in tasks => seed[t] >= known[t]
  /\ \A t \in Tasks : job[t] # NoJob =>
       /\ Listed(files, job[t].started)
       /\ known[t] = Never \/ job[t].started - known[t] >= Interval

SpacingInv == Resting /\ (~spoiled => Remembered)

LEMMA WrittenLists ==
  ASSUME NEW t, Listed(files, t), NEW f
  PROVE  Listed(Written(f), t)
<1>1. PICK g \in files : g.kind = "auto" /\ g.attempt = 0 /\ g.at >= t
  BY DEF Listed
<1>2. CASE SameName(f, g)
  <2>1. f.kind = "auto" /\ f.attempt = 0 /\ f.at >= t /\ f \in Written(f)
    BY <1>1, <1>2 DEF SameName, Written
  <2> QED
    BY <2>1 DEF Listed
<1>3. CASE ~SameName(f, g)
  BY <1>1, <1>3 DEF Written, Listed
<1> QED
  BY <1>2, <1>3

LEMMA TakenLists ==
  ASSUME NEW t, Listed(files, t), NEW f, Taken(f), ~spoiled'
  PROVE  Listed(files', t) /\ ~spoiled
  BY DEF Listed, Taken, SameName

LEMMA RotatedLists ==
  ASSUME NEW t \in Int, NEW n \in Nat, Shelved(files, n), Listed(files, t)
  PROVE  Listed(Rotated(files), t)
<1>1. PICK g \in files : g.kind = "auto" /\ g.attempt = 0 /\ g.at >= t
  BY DEF Listed
<1>2. CASE g \in Rotated(files)
  BY <1>1, <1>2 DEF Listed
<1>3. CASE g \notin Rotated(files)
  <2> DEFINE newer == {h \in Rotated(files) : h.kind = "auto" /\ h.attempt = 0 /\ h.at > g.at}
  <2>1. Cardinality(newer) >= MaxCount
    BY <1>3, RotationKeepsNewest
  <2>2. newer # {}
    <3>1. Cardinality({}) = 0
      BY FS_EmptySet
    <3> HIDE DEF newer
    <3> QED
      BY <2>1, <3>1, Constants
  <2>3. PICK h \in Rotated(files) : h.kind = "auto" /\ h.attempt = 0 /\ h.at > g.at
    BY <2>2
  <2>4. h.at \in Nat /\ g.at \in Nat
    BY RotatedIs, FileIs
  <2>5. h.at >= t
    BY <1>1, <2>3, <2>4
  <2> QED
    BY <2>3, <2>5 DEF Listed
<1> QED
  BY <1>2, <1>3

LEMMA SpacingTypes ==
  ASSUME TypeOK
  PROVE  /\ now \in Nat /\ Shelved(files, now) /\ Interval \in Nat
         /\ periodic \in Int /\ periodic >= Never
         /\ \A t \in Tasks : /\ seed[t] \in Int /\ seed[t] >= Never
                             /\ known[t] \in Int /\ known[t] >= Never
                             /\ t \in Jobs /\ t # "admin" /\ job[t].started \in Nat
<1>1. now \in Nat /\ Shelved(files, now) /\ Interval \in Nat
  BY Constants DEF TypeOK
<1>2. periodic \in Int /\ periodic >= Never
  BY <1>1 DEF TypeOK, Never
<1>3. ASSUME NEW t \in Tasks
      PROVE  /\ seed[t] \in Int /\ seed[t] >= Never
             /\ known[t] \in Int /\ known[t] >= Never
             /\ t \in Jobs /\ t # "admin" /\ job[t].started \in Nat
  <2>1. seed[t] \in Never .. now /\ known[t] \in Never .. now
    BY DEF TypeOK
  <2>2. t \in Jobs /\ t # "admin"
    BY StoreAssumption DEF Jobs
  <2>3. job[t].started \in Nat
    BY <2>2, JobIs
  <2> QED
    BY <1>1, <2>1, <2>2, <2>3 DEF Never
<1> QED
  BY <1>1, <1>2, <1>3

LEMMA LatestCovers ==
  ASSUME TypeOK, periodic # Never => Listed(files, periodic)
  PROVE  LatestAuto >= periodic
<1>1. now \in Nat /\ Shelved(files, now) /\ periodic \in Int
  BY SpacingTypes
<1> DEFINE last == LatestAuto
<1>2. last \in Never .. now /\ \A f \in files : f.kind = "auto" /\ f.attempt = 0 => last >= f.at
  BY <1>1, LatestAutoIs
<1> HIDE DEF last
<1>4. ASSUME periodic = Never PROVE last >= periodic
  BY <1>1, <1>2, <1>4 DEF Never
<1>5. ASSUME periodic # Never PROVE last >= periodic
  <2>1. PICK f \in files : f.kind = "auto" /\ f.attempt = 0 /\ f.at >= periodic
    BY <1>5 DEF Listed
  <2>2. last >= f.at /\ f.at \in Nat
    BY <1>1, <1>2, <2>1, FileIs
  <2>3. last \in Int
    BY <1>1, <1>2 DEF Never
  <2> QED
    BY <1>1, <2>1, <2>2, <2>3
<1>6. last >= periodic
  BY <1>4, <1>5
<1> QED
  BY <1>6 DEF last

\* A step that finishes no backup of a task and loses none that is listed: each
\* task rests or goes on as it was.
LEMMA SpacingFrame ==
  ASSUME TypeOK, SpacingInv, UNCHANGED periodic,
         ~spoiled' => ~spoiled,
         ~spoiled' => \A t \in Int : Listed(files, t) => Listed(files', t),
         \A t \in Tasks :
           \/ t \notin tasks' /\ known'[t] = Never /\ job'[t] = NoJob
           \/ /\ t \in tasks' /\ (~spoiled' => seed'[t] >= known'[t])
              /\ job'[t] # NoJob => /\ job[t] # NoJob /\ job'[t].started = job[t].started
                                    /\ known'[t] = known[t]
  PROVE  SpacingInv'
<1>1. Resting'
  BY DEF Resting
<1>2. ASSUME ~spoiled' PROVE Remembered'
  <2>1. Remembered
    BY <1>2 DEF SpacingInv
  <2>2. periodic \in Int /\ \A t \in Tasks : job[t].started \in Int
    BY SpacingTypes
  <2>3. periodic' # Never => Listed(files', periodic')
    BY <1>2, <2>1, <2>2 DEF Remembered
  <2>4. \A t \in Tasks : t \in tasks' => seed'[t] >= known'[t]
    BY <1>2
  <2>5. \A t \in Tasks : job'[t] # NoJob =>
          /\ Listed(files', job'[t].started)
          /\ known'[t] = Never \/ job'[t].started - known'[t] >= Interval
    BY <1>2, <2>1, <2>2 DEF Remembered
  <2> QED
    BY <2>3, <2>4, <2>5 DEF Remembered
<1> QED
  BY <1>1, <1>2 DEF SpacingInv

\* The tasks stay as they are, or their jobs end.
LEMMA SpacingGoesOn ==
  ASSUME TypeOK, SpacingInv, UNCHANGED <<periodic, tasks, seed, known>>,
         ~spoiled' => ~spoiled,
         ~spoiled' => \A t \in Int : Listed(files, t) => Listed(files', t),
         \A t \in Tasks : job'[t] # NoJob => job[t] # NoJob /\ job'[t].started = job[t].started
  PROVE  SpacingInv'
<1>1. ASSUME ~spoiled' PROVE \A t \in Tasks : t \in tasks => seed[t] >= known[t]
  BY <1>1 DEF SpacingInv, Remembered
<1>2. \A t \in Tasks : t \notin tasks => known[t] = Never /\ job[t] = NoJob
  BY DEF SpacingInv, Resting
<1> QED
  BY <1>1, <1>2, SpacingFrame

LEMMA SpacingQuiet ==
  ASSUME TypeOK, SpacingInv, UNCHANGED <<periodic, spoiled, job, files, tasks, seed, known>>
  PROVE  SpacingInv'
  BY SpacingGoesOn

\* The server opens the database or opens it again.
LEMMA SpacingServes ==
  ASSUME TypeOK, SpacingInv, UNCHANGED <<periodic, spoiled, job, files>>, Spawned(LatestAuto)
  PROVE  SpacingInv'
<1> DEFINE last == LatestAuto
<1>1. PICK t \in Tasks \ tasks :
        /\ tasks' = tasks \cup {t} /\ current' = t
        /\ seed' = [seed EXCEPT ![t] = last] /\ known' = [known EXCEPT ![t] = periodic]
  BY DEF Spawned
<1>2. job[t] = NoJob
  BY <1>1 DEF SpacingInv, Resting
<1>3. ~spoiled => last >= periodic
  BY LatestCovers DEF SpacingInv, Remembered
<1> HIDE DEF last
<1>4. seed'[t] = last /\ known'[t] = periodic
  BY <1>1 DEF TypeOK
<1>5. \A u \in Tasks : u # t => seed'[u] = seed[u] /\ known'[u] = known[u]
  BY <1>1 DEF TypeOK
<1>6. \A u \in Tasks : u \notin tasks => known[u] = Never /\ job[u] = NoJob
  BY DEF SpacingInv, Resting
<1>7. ~spoiled => \A u \in Tasks : u \in tasks => seed[u] >= known[u]
  BY DEF SpacingInv, Remembered
<1>8. ASSUME NEW u \in Tasks
      PROVE  \/ u \notin tasks' /\ known'[u] = Never /\ job'[u] = NoJob
             \/ /\ u \in tasks' /\ (~spoiled' => seed'[u] >= known'[u])
                /\ job'[u] # NoJob => /\ job[u] # NoJob /\ job'[u].started = job[u].started
                                      /\ known'[u] = known[u]
  <2>1. CASE u = t
    BY <1>1, <1>2, <1>3, <1>4, <2>1
  <2>2. CASE u # t
    BY <1>1, <1>5, <1>6, <1>7, <2>2
  <2> QED
    BY <2>1, <2>2
<1> QED
  BY <1>8, SpacingFrame

LEMMA SpacingRetires ==
  ASSUME TypeOK, SpacingInv, NEW t \in Tasks, Retire(t)
  PROVE  SpacingInv'
<1>1. UNCHANGED <<periodic, spoiled, job, files>> /\ job[t] = NoJob /\ tasks' = tasks \ {t}
  BY DEF Retire, disk
<1>2. known'[t] = Never /\ \A u \in Tasks : u # t => seed'[u] = seed[u] /\ known'[u] = known[u]
  BY DEF Retire, TypeOK
<1>3. \A u \in Tasks : u \notin tasks => known[u] = Never /\ job[u] = NoJob
  BY DEF SpacingInv, Resting
<1>4. ~spoiled => \A u \in Tasks : u \in tasks => seed[u] >= known[u]
  BY DEF SpacingInv, Remembered
<1> QED
  BY <1>1, <1>2, <1>3, <1>4, SpacingFrame

LEMMA SpacingForgets ==
  ASSUME TypeOK, SpacingInv, UNCHANGED <<periodic, spoiled, files>>, Forget
  PROVE  SpacingInv'
<1>1. \A t \in Tasks : t \notin tasks' /\ known'[t] = Never /\ job'[t] = NoJob
  BY DEF Forget, Jobs
<1> QED
  BY <1>1, SpacingFrame

LEMMA SpacingProcess ==
  ASSUME TypeOK, SpacingInv, Tick \/ Opening \/ Process \/ UNCHANGED vars
  PROVE  SpacingInv'
<1>1. CASE Tick \/ Checkpoint \/ UNCHANGED vars
  BY <1>1, SpacingQuiet DEF Tick, Checkpoint, vars, disk, task
<1>2. CASE Start \/ OpenQuarantines
  BY <1>2, SpacingQuiet DEF Start, OpenQuarantines, disk, task
<1>3. CASE OpenOld
  <2>1. PICK f : files' = Written(f)
    BY <1>3 DEF OpenOld
  <2>2. UNCHANGED <<periodic, spoiled, job, tasks, seed, known>>
    BY <1>3 DEF OpenOld, task
  <2> QED
    BY <2>1, <2>2, WrittenLists, SpacingGoesOn
<1>4. CASE OpenCurrent \/ Migrate
  <2>1. UNCHANGED <<periodic, spoiled, job, files>>
    BY <1>4 DEF OpenCurrent, Migrate
  <2>2. Spawned(LatestAuto) \/ UNCHANGED <<tasks, seed, known>>
    BY <1>4 DEF OpenCurrent, Migrate, Serving
  <2> QED
    BY <2>1, <2>2, SpacingServes, SpacingQuiet
<1>6. CASE Exit
  BY <1>6, SpacingForgets DEF Exit
<1>7. CASE Reload
  <2>1. UNCHANGED <<periodic, spoiled, job, files>>
    BY <1>7 DEF Reload, disk
  <2>2. Spawned(LatestAuto) \/ UNCHANGED <<tasks, seed, known>>
    BY <1>7 DEF Reload, Serving
  <2> QED
    BY <2>1, <2>2, SpacingServes, SpacingQuiet
<1> QED
  BY <1>1, <1>2, <1>3, <1>4, <1>6, <1>7, SpacingRetires DEF Opening, Process

LEMMA SpacingCommands ==
  ASSUME TypeOK, SpacingInv, Commands
  PROVE  SpacingInv'
<1>j. UNCHANGED <<job, tasks, seed, known, periodic>>
  BY DEF Commands, RestoreBegin, RestoreSave, RestoreReplace, DowngradeStart, DowngradeCopy,
         DowngradeStep, Command, task
<1>f. ASSUME ~spoiled' => ~spoiled,
             ~spoiled' => \A t \in Int : Listed(files, t) => Listed(files', t)
      PROVE  SpacingInv'
  BY <1>f, <1>j, SpacingGoesOn
<1>1. ASSUME NEW f \in files, RestoreBegin(f) PROVE SpacingInv'
  <2>1. CASE Taken(f)
    <3>1. ~spoiled' => ~spoiled
      BY <2>1 DEF Taken
    <3> QED
      BY <1>f, <2>1, <3>1, TakenLists
  <2>2. CASE UNCHANGED <<files, spoiled>>
    BY <1>f, <2>2
  <2> QED
    BY <1>1, <2>1, <2>2 DEF RestoreBegin
<1>2. ASSUME NEW f, files' = Written(f), UNCHANGED spoiled PROVE SpacingInv'
  BY <1>2, <1>f, WrittenLists
<1>3. CASE RestoreSave
  BY <1>2, <1>3 DEF RestoreSave, task
<1>4. CASE DowngradeCopy
  BY <1>2, <1>4 DEF DowngradeCopy, task
<1>5. CASE RestoreReplace \/ DowngradeStep \/ \E to \in Targets : DowngradeStart(to)
  BY <1>f, <1>5 DEF RestoreReplace, DowngradeStep, DowngradeStart, task
<1> QED
  BY <1>1, <1>3, <1>4, <1>5 DEF Commands

\* A task begins a backup only an interval after the last one it has to know of.
LEMMA SpacingBegin ==
  ASSUME TypeOK, SpacingInv, NEW w \in Jobs, BackupBegin(w)
  PROVE  SpacingInv'
<1>n. now \in Nat /\ Shelved(files, now) /\ Interval \in Nat /\ periodic \in Int
  BY SpacingTypes
<1> DEFINE n == FreeAttempt("auto")
           f == Backup("auto", now, n, Broken)
           state == [step |-> "copying", at |-> now, attempt |-> n, started |-> now]
<1>1. /\ files' = Written(f) /\ job' = [job EXCEPT ![w] = state]
      /\ UNCHANGED <<tasks, seed, known, periodic, spoiled>>
  BY DEF BackupBegin
<1>2. n = 0 \/ \E g \in files : g.kind = "auto" /\ g.at = now /\ g.attempt = 0
  BY <1>n, FreeAttemptIs DEF Shelved
<1> HIDE DEF n
<1>3. f.kind = "auto" /\ f.at = now /\ f.attempt = n /\ state.started = now
  BY DEF Backup
<1> HIDE DEF f, state
<1>4. Listed(files', now)
  <2>1. CASE n = 0
    <3>1. f \in files'
      BY <1>1 DEF Written
    <3>2. f.at >= now
      BY <1>n, <1>3
    <3> QED
      BY <1>3, <2>1, <3>1, <3>2 DEF Listed
  <2>2. CASE \E g \in files : g.kind = "auto" /\ g.at = now /\ g.attempt = 0
    <3>1. Listed(files, now)
      <4>1. PICK g \in files : g.kind = "auto" /\ g.at = now /\ g.attempt = 0
        BY <2>2
      <4>2. g.at >= now
        BY <1>n, <4>1
      <4> QED
        BY <4>1, <4>2 DEF Listed
    <3> QED
      BY <1>1, <3>1, WrittenLists
  <2> QED
    BY <1>2, <2>1, <2>2
<1>o. \A t \in Tasks : t # w => job'[t] = job[t]
  BY <1>1, SpacingTypes DEF TypeOK
<1>5. CASE w \notin Tasks
  BY <1>1, <1>5, <1>o, WrittenLists, SpacingGoesOn
<1>6. CASE w \in Tasks
  <2>1. w \in tasks /\ (seed[w] = Never \/ now - seed[w] >= Interval)
    BY <1>6, SpacingTypes DEF BackupBegin, Due
  <2>2. job'[w] = state
    BY <1>1 DEF TypeOK
  <2>3. Resting'
    BY <1>1, <1>o, <2>1 DEF SpacingInv, Resting
  <2>4. ASSUME ~spoiled' PROVE Remembered'
    <3>1. Remembered
      BY <1>1, <2>4 DEF SpacingInv
    <3>2. known[w] = Never \/ now - known[w] >= Interval
      <4>1. seed[w] >= known[w]
        BY <1>6, <2>1, <3>1 DEF Remembered
      <4>2. seed[w] \in Int /\ known[w] \in Int /\ known[w] >= Never
        BY <1>6, SpacingTypes
      <4> QED
        BY <1>n, <2>1, <4>1, <4>2 DEF Never
    <3>3. \A t : Listed(files, t) => Listed(files', t)
      BY <1>1, WrittenLists
    <3>4. periodic' # Never => Listed(files', periodic')
      BY <1>1, <3>1, <3>3 DEF Remembered
    <3>5. \A t \in Tasks : t \in tasks' => seed'[t] >= known'[t]
      BY <1>1, <3>1 DEF Remembered
    <3>6. ASSUME NEW t \in Tasks, job'[t] # NoJob
          PROVE  /\ Listed(files', job'[t].started)
                 /\ known'[t] = Never \/ job'[t].started - known'[t] >= Interval
      <4>1. CASE t = w
        BY <1>1, <1>3, <1>4, <2>2, <3>2, <4>1
      <4>2. CASE t # w
        BY <1>1, <1>o, <3>1, <3>3, <3>6, <4>2 DEF Remembered
      <4> QED
        BY <4>1, <4>2
    <3> QED
      BY <3>4, <3>5, <3>6 DEF Remembered
  <2> QED
    BY <2>3, <2>4 DEF SpacingInv
<1> QED
  BY <1>5, <1>6

\* A backup of a task passes its check: the task knows of it, and it is listed.
LEMMA SpacingVerified ==
  ASSUME TypeOK, SpacingInv, NEW w \in Tasks, BackupVerified(w)
  PROVE  SpacingInv'
<1>n. /\ now \in Nat /\ Shelved(files, now) /\ periodic \in Int
      /\ w \in Jobs /\ w # "admin" /\ job[w].started \in Nat
  BY SpacingTypes
<1>1. /\ job' = [job EXCEPT ![w] = NoJob] /\ files' = Rotated(files) /\ UNCHANGED <<spoiled, tasks>>
      /\ seed' = [seed EXCEPT ![w] = job[w].started]
      /\ known' = [known EXCEPT ![w] = job[w].started]
      /\ periodic' = Max({periodic, job[w].started})
      /\ job[w].step = "verifying"
  BY <1>n DEF BackupVerified
<1>2. \A t \in Int : Listed(files, t) => Listed(files', t)
  BY <1>n, <1>1, RotatedLists
<1>3. job[w] # NoJob
  BY <1>1 DEF NoJob
<1>4. w \in tasks
  BY <1>3 DEF SpacingInv, Resting
<1>5. /\ job'[w] = NoJob /\ seed'[w] = job[w].started /\ known'[w] = job[w].started
      /\ \A t \in Tasks : t # w => job'[t] = job[t] /\ seed'[t] = seed[t] /\ known'[t] = known[t]
  BY <1>n, <1>1, SpacingTypes DEF TypeOK
<1>6. Resting'
  BY <1>1, <1>4, <1>5 DEF SpacingInv, Resting
<1>7. ASSUME ~spoiled' PROVE Remembered'
  <2>1. Remembered
    BY <1>1, <1>7 DEF SpacingInv
  <2>2. Listed(files', periodic')
    <3>1. Listed(files', job[w].started)
      BY <1>n, <1>2, <1>3, <2>1 DEF Remembered
    <3>2. periodic # Never => Listed(files', periodic)
      BY <1>n, <1>2, <2>1 DEF Remembered
    <3>3. periodic' = IF periodic >= job[w].started THEN periodic ELSE job[w].started
      BY <1>n, <1>1, MaxOfTwo
    <3>4. periodic = Never => periodic' = job[w].started
      BY <1>n, <3>3 DEF Never
    <3> QED
      BY <3>1, <3>2, <3>3, <3>4
  <2>3. \A t \in Tasks : t \in tasks' => seed'[t] >= known'[t]
    BY <1>n, <1>1, <1>5, <2>1 DEF Remembered
  <2>4. \A t \in Tasks : job'[t] # NoJob =>
          /\ Listed(files', job'[t].started)
          /\ known'[t] = Never \/ job'[t].started - known'[t] >= Interval
    <3>1. \A t \in Tasks : job[t].started \in Int
      BY SpacingTypes
    <3> QED
      BY <1>2, <1>5, <2>1, <3>1 DEF Remembered
  <2> QED
    BY <2>2, <2>3, <2>4 DEF Remembered
<1> QED
  BY <1>6, <1>7 DEF SpacingInv

LEMMA SpacingJobs ==
  ASSUME TypeOK, SpacingInv, NEW w \in Jobs,
         BackupCopied(w) \/ BackupAborted(w) \/ BackupVerified(w) \/ BackupDiscarded(w)
  PROVE  SpacingInv'
<1>n. now \in Nat /\ Shelved(files, now) /\ \A t \in Tasks : t \in Jobs
  BY SpacingTypes
<1>w. job[w] # NoJob
  BY DEF BackupCopied, BackupAborted, BackupVerified, BackupDiscarded, NoJob
<1>1. CASE BackupCopied(w)
  <2>1. /\ job' = [job EXCEPT ![w].step = "verifying"] /\ \E f : files' = Written(f)
        /\ UNCHANGED <<tasks, seed, known, periodic, spoiled>>
    BY <1>1 DEF BackupCopied
  <2>2. \A v \in Jobs : job[v] \in JobStates
    BY DEF TypeOK
  <2>3. \A v \in Jobs : v # w => job'[v] = job[v]
    BY <2>1 DEF TypeOK
  <2>4. job'[w].started = job[w].started
    BY <2>1, <2>2 DEF TypeOK, JobStates
  <2>5. \A t \in Tasks : job'[t] # NoJob =>
          job[t] # NoJob /\ job'[t].started = job[t].started
    BY <1>n, <1>w, <2>3, <2>4
  <2> QED
    BY <2>1, <2>5, WrittenLists, SpacingGoesOn
<1>2. ASSUME job' = [job EXCEPT ![w] = NoJob]
      PROVE  \A t \in Tasks : job'[t] # NoJob =>
               job[t] # NoJob /\ job'[t].started = job[t].started
  BY <1>2, <1>n DEF TypeOK
<1>3. CASE BackupAborted(w) \/ BackupDiscarded(w)
  <2>1. job' = [job EXCEPT ![w] = NoJob] /\ UNCHANGED <<tasks, seed, known, periodic>>
    BY <1>3 DEF BackupAborted, BackupDiscarded
  <2>2. Taken(Target(w)) \/ UNCHANGED <<files, spoiled>>
    BY <1>3 DEF BackupAborted, BackupDiscarded
  <2>3. ~spoiled' => ~spoiled
    BY <2>2 DEF Taken
  <2>4. ~spoiled' => \A t \in Int : Listed(files, t) => Listed(files', t)
    BY <2>2, TakenLists
  <2> QED
    BY <1>2, <2>1, <2>3, <2>4, SpacingGoesOn
<1>4. CASE BackupVerified(w) /\ w \notin Tasks
  <2>1. w = "admin"
    BY <1>4 DEF Jobs
  <2>2. /\ job' = [job EXCEPT ![w] = NoJob] /\ files' = Rotated(files)
        /\ UNCHANGED <<tasks, seed, known, periodic, spoiled>>
    BY <1>4, <2>1 DEF BackupVerified
  <2>3. \A t \in Int : Listed(files, t) => Listed(files', t)
    BY <1>n, <2>2, RotatedLists
  <2> QED
    BY <1>2, <2>2, <2>3, SpacingGoesOn
<1>5. CASE BackupVerified(w) /\ w \in Tasks
  BY <1>5, SpacingVerified
<1> QED
  BY <1>1, <1>3, <1>4, <1>5

LEMMA SpacingStep ==
  ASSUME TypeOK, SpacingInv, [Next]_vars
  PROVE  SpacingInv'
<1>1. CASE Requests \/ PurgeTick
  <2>1. UNCHANGED <<files, job, tasks, seed, known, periodic, spoiled>>
    BY <1>1, RequestLeaves DEF task
  <2> QED
    BY <2>1, SpacingQuiet
<1>2. CASE Tick \/ Opening \/ Process \/ UNCHANGED vars
  BY <1>2, SpacingProcess
<1>3. ASSUME NEW w \in Jobs,
         BackupBegin(w) \/ BackupCopied(w) \/ BackupAborted(w) \/ BackupVerified(w)
         \/ BackupDiscarded(w)
      PROVE  SpacingInv'
  BY <1>3, SpacingBegin, SpacingJobs
<1>4. CASE Commands
  BY <1>4, SpacingCommands
<1> QED
  BY <1>1, <1>2, <1>3, <1>4 DEF Next, Maintenance

LEMMA StepIsSpaced ==
  ASSUME TypeOK, SpacingInv, [Next]_vars, NEW t \in Tasks,
         known[t] # Never, known'[t] \notin {Never, known[t]}, ~spoiled
  PROVE  known'[t] - known[t] >= Interval
<1>k. known' # known
  OBVIOUS
<1>1. ASSUME Requests \/ PurgeTick PROVE FALSE
  BY <1>1, <1>k, RequestLeaves DEF task
<1>s. ASSUME NEW last, Spawned(last) PROVE FALSE
  <2>1. PICK u \in Tasks \ tasks : known' = [known EXCEPT ![u] = periodic]
    BY <1>s DEF Spawned
  <2>2. u # t
    BY <2>1 DEF SpacingInv, Resting
  <2> QED
    BY <2>1, <2>2 DEF TypeOK
<1>2. ASSUME Tick \/ Opening \/ Checkpoint \/ Reload \/ UNCHANGED vars PROVE FALSE
  BY <1>2, <1>k, <1>s DEF Tick, Opening, Start, OpenQuarantines, OpenOld, OpenCurrent, Migrate,
       Serving, Checkpoint, Reload, vars, task
<1>6. ASSUME Exit PROVE FALSE
  BY <1>6 DEF Exit, Forget
<1>7. ASSUME NEW u \in Tasks, Retire(u) PROVE FALSE
  BY <1>7 DEF Retire, TypeOK
<1>3. ASSUME NEW w \in Jobs,
         BackupBegin(w) \/ BackupCopied(w) \/ BackupAborted(w) \/ BackupDiscarded(w)
      PROVE  FALSE
  BY <1>3, <1>k DEF BackupBegin, BackupCopied, BackupAborted, BackupDiscarded
<1>4. ASSUME Commands PROVE FALSE
  BY <1>4, <1>k DEF Commands, RestoreBegin, RestoreSave, RestoreReplace, DowngradeStart,
         DowngradeCopy, DowngradeStep, Command, task
<1>5. ASSUME NEW w \in Jobs, BackupVerified(w) PROVE known'[t] - known[t] >= Interval
  <2>1. /\ known' = [known EXCEPT ![w] = job[w].started] /\ job[w].step = "verifying"
    BY <1>5, <1>k DEF BackupVerified
  <2>2. w = t /\ known'[t] = job[t].started
    BY <2>1 DEF TypeOK
  <2>3. job[t] # NoJob
    BY <2>1, <2>2 DEF NoJob
  <2> QED
    BY <2>2, <2>3 DEF SpacingInv, Remembered
<1> QED
  BY <1>1, <1>2, <1>3, <1>4, <1>5, <1>6, <1>7 DEF Next, Maintenance, Process

\* A maintenance task never makes two backups within an interval, nor one within
\* an interval of a backup that was finished before it started, for every
\* interval, number of tasks that a reload leaves running and number of backups
\* kept, and whatever restarts, reloads, commands and admin requests come in
\* between, as long as no copy that failed was removed under the name by which
\* its second is listed.
THEOREM BackupsAreSpaced == Spec => BackupSpacing
<1>1. Init => SpacingInv
  BY DEF Init, SpacingInv, Resting, Remembered, Jobs
<1>2. TypeOK /\ SpacingInv /\ [Next]_vars => SpacingInv'
  BY SpacingStep
<1>3. TypeOK /\ SpacingInv /\ [Next]_vars =>
        [\A t \in Tasks :
           known[t] # Never /\ known'[t] \notin {Never, known[t]} /\ ~spoiled
           => known'[t] - known[t] >= Interval]_vars
  BY StepIsSpaced
<1> QED
  BY <1>1, <1>2, <1>3, StoreTypes, PTL DEF Spec, BackupSpacing

----------------------------------------------------------------------------
(* What memory holds of the telemetry is in the table or on its way.        *)

\* The rows a filter leaves of an instant.
LEMMA AtPicked ==
  ASSUME NEW table \in Seq(LogRows), NEW P, P \subseteq DOMAIN table, NEW t
  PROVE  At(Picked(table, P), t) = Cardinality({i \in P : table[i].created = t})
<1> DEFINE rest == Picked(table, P)
           K == {k \in DOMAIN rest : rest[k].created = t}
           Q == {i \in P : table[i].created = t}
           f == [k \in K |-> Nth(P, k)]
<1>1. /\ DOMAIN rest = 1 .. Cardinality(P)
      /\ \A k \in 1 .. Cardinality(P) : Nth(P, k) \in P /\ rest[k] = table[Nth(P, k)]
      /\ \A k, m \in 1 .. Cardinality(P) : k < m => Nth(P, k) < Nth(P, m)
      /\ \A i \in P : \E k \in 1 .. Cardinality(P) : Nth(P, k) = i
  BY PickedIs
<1>2. P \subseteq Nat /\ Cardinality(P) \in Nat
  BY PositionsFinite
<1> HIDE DEF rest
<1>3. f \in [K -> Q]
  BY <1>1
<1>4. ASSUME NEW k \in K, NEW m \in K, f[k] = f[m] PROVE k = m
  <2>1. k \in 1 .. Cardinality(P) /\ m \in 1 .. Cardinality(P) /\ Nth(P, k) = Nth(P, m)
    BY <1>1, <1>4
  <2>2. Nth(P, k) \in Nat
    BY <1>1, <1>2, <2>1
  <2>3. k < m \/ m < k \/ k = m
    BY <1>2, <2>1
  <2>4. (k < m => Nth(P, k) < Nth(P, m)) /\ (m < k => Nth(P, m) < Nth(P, k))
    BY <1>1, <2>1
  <2> QED
    BY <2>1, <2>2, <2>3, <2>4
<1>5. ASSUME NEW i \in Q PROVE \E k \in K : f[k] = i
  <2>1. PICK k \in 1 .. Cardinality(P) : Nth(P, k) = i
    BY <1>1
  <2>2. k \in K
    BY <1>1, <2>1
  <2> QED
    BY <2>1, <2>2
<1>6. IsFiniteSet(K)
  <2>1. IsFiniteSet(1 .. Cardinality(P))
    BY <1>2, UpTo
  <2> QED
    BY <1>1, <2>1, FS_Subset
<1>7. At(rest, t) = Cardinality(K)
  BY DEF At
<1> HIDE DEF f, K, Q
<1>8. f \in Bijection(K, Q)
  BY <1>3, <1>4, <1>5 DEF Bijection, Injection, Surjection, IsInjective
<1>9. Cardinality(Q) = Cardinality(K)
  BY <1>6, <1>8, FS_Bijection DEF ExistsBijection
<1> QED
  BY <1>7, <1>9 DEF rest, Q

\* The rows of an instant are finitely many, and none if it is yet to come.
LEMMA AtIs ==
  ASSUME NEW table \in Seq(LogRows), NEW t
  PROVE  /\ IsFiniteSet({i \in DOMAIN table : table[i].created = t})
         /\ At(table, t) \in Nat
         /\ (\A i \in DOMAIN table : table[i].created # t) => At(table, t) = 0
<1> DEFINE Q == {i \in DOMAIN table : table[i].created = t}
<1>1. IsFiniteSet(Q) /\ Cardinality(Q) \in Nat
  <2>1. Q \subseteq DOMAIN table
    OBVIOUS
  <2> HIDE DEF Q
  <2> QED
    BY <2>1, PositionsFinite
<1>2. (\A i \in DOMAIN table : table[i].created # t) => Cardinality(Q) = 0
  BY FS_EmptySet
<1> QED
  BY <1>1, <1>2 DEF At

LEMMA AtPruned ==
  ASSUME NEW table \in Seq(LogRows), NEW t \in Int, NEW before \in Int, t >= before
  PROVE  At(Pruned(table, before), t) = At(table, t)
<1> DEFINE P == {i \in DOMAIN table : table[i].created >= before}
<1>1. P \subseteq DOMAIN table /\ Pruned(table, before) = Picked(table, P)
  BY DEF Pruned
<1>2. {i \in P : table[i].created = t} = {i \in DOMAIN table : table[i].created = t}
  OBVIOUS
<1> HIDE DEF P
<1>3. At(Picked(table, P), t) = Cardinality({i \in P : table[i].created = t})
  BY <1>1, AtPicked
<1> QED
  BY <1>1, <1>2, <1>3 DEF At

LEMMA AtAppend ==
  ASSUME NEW n \in Nat, NEW table, Logged(table, n), NEW row \in LogRows, row.created <= n, NEW t
  PROVE  At(Append(table, row), t) = At(table, t) + IF row.created = t THEN 1 ELSE 0
<1> DEFINE new == Append(table, row)
           Q == {i \in DOMAIN table : table[i].created = t}
           last == Len(table) + 1
<1>1. /\ Len(table) \in Nat /\ DOMAIN table = 1 .. Len(table) /\ DOMAIN new = 1 .. last
      /\ new[last] = row /\ \A i \in DOMAIN table : new[i] = table[i]
  BY AppendIs
<1>2. table \in Seq(LogRows)
  BY DEF Logged
<1>3. IsFiniteSet(Q) /\ At(table, t) = Cardinality(Q) /\ Cardinality(Q) \in Nat
  BY <1>2, AtIs DEF At
<1> HIDE DEF new
<1>4. last \notin Q /\ DOMAIN new = DOMAIN table \cup {last}
  BY <1>1
<1> HIDE DEF last
<1>5. {i \in DOMAIN new : new[i].created = t} = IF row.created = t THEN Q \cup {last} ELSE Q
  BY <1>1, <1>4
<1> HIDE DEF Q
<1>6. Cardinality(Q \cup {last}) = Cardinality(Q) + 1
  BY <1>3, <1>4, FS_AddElement
<1>7. At(new, t) = Cardinality({i \in DOMAIN new : new[i].created = t})
  BY DEF At
<1>8. CASE row.created = t
  BY <1>3, <1>5, <1>6, <1>7, <1>8 DEF new
<1>9. CASE row.created # t
  <2>1. At(new, t) = Cardinality(Q)
    BY <1>5, <1>7, <1>9
  <2> QED
    BY <1>3, <1>9, <2>1 DEF new
<1> QED
  BY <1>8, <1>9

LEMMA AtRemoved ==
  ASSUME NEW table \in Seq(LogRows), NEW i \in DOMAIN table, NEW t
  PROVE  At(table, t) = At(Removed(table, i), t) + IF table[i].created = t THEN 1 ELSE 0
<1> DEFINE P == DOMAIN table \ {i}
           Q == {k \in DOMAIN table : table[k].created = t}
<1>1. P \subseteq DOMAIN table /\ Removed(table, i) = Picked(table, P)
  BY DEF Removed
<1>2. {k \in P : table[k].created = t} = Q \ {i} /\ (i \in Q <=> table[i].created = t)
  OBVIOUS
<1>3. IsFiniteSet(Q) /\ At(table, t) = Cardinality(Q) /\ Cardinality(Q) \in Nat
  BY AtIs DEF At
<1> HIDE DEF P, Q
<1>4. At(Removed(table, i), t) = Cardinality(Q \ {i})
  BY <1>1, <1>2, AtPicked
<1>5. Cardinality(Q \ {i}) = IF i \in Q THEN Cardinality(Q) - 1 ELSE Cardinality(Q)
  BY <1>3, FS_RemoveElement
<1> QED
  BY <1>2, <1>3, <1>4, <1>5

LEMMA CutoffGrows ==
  ASSUME NEW s \in Nat, NEW t \in Nat, s <= t
  PROVE  Cutoff("telemetry", s) <= Cutoff("telemetry", t)
<1> DEFINE span == Retention["telemetry"] * Day
<1>1. span \in Nat
  BY TablesAssumption
<1>2. Cutoff("telemetry", s) = s - span /\ Cutoff("telemetry", t) = t - span
  BY DEF Cutoff
<1> HIDE DEF span
<1> QED
  BY <1>1, <1>2

\* Every instant of the window at n is covered.
Covered(n, mem, table, pending, dropped) ==
  \A t \in Nat : Cutoff("telemetry", n) <= t /\ t <= n
    => At(mem, t) <= At(table, t) + At(pending, t) + At(dropped, t)

LEMMA WindowIs ==
  ASSUME NEW n \in Nat, NEW t
  PROVE  t \in Max({0, Cutoff("telemetry", n)}) .. n
           <=> t \in Nat /\ Cutoff("telemetry", n) <= t /\ t <= n
<1> DEFINE c == Cutoff("telemetry", n)
           m == Max({0, c})
<1>1. c \in Int
  BY CutoffIs
<1> HIDE DEF c
<1>2. m = IF 0 >= c THEN 0 ELSE c
  BY <1>1, MaxOfTwo
<1> HIDE DEF m
<1>3. t \in m .. n <=> t \in Nat /\ c <= t /\ t <= n
  BY <1>1, <1>2
<1> QED
  BY <1>3 DEF m, c

LEMMA DurableIs ==
  ASSUME now \in Nat
  PROVE  TelemetryDurable <=>
           (phase = "open" /\ plan = Serve /\ ~failures
              => Covered(now, memory, live.telemetry, unsaved, abandoned))
  BY WindowIs DEF TelemetryDurable, Covered

LEMMA DurableNext ==
  ASSUME now' \in Nat
  PROVE  TelemetryDurable' <=>
           (phase' = "open" /\ plan' = Serve /\ ~failures'
              => Covered(now', memory', live'.telemetry, unsaved', abandoned'))
  BY WindowIs DEF TelemetryDurable, Covered

\* The table loses nothing of the window when it is pruned at the window's end
\* or before.
LEMMA CoveredPruned ==
  ASSUME NEW n \in Nat, NEW mem, NEW table \in Seq(LogRows), NEW pending, NEW dropped,
         Covered(n, mem, table, pending, dropped),
         NEW before \in Int, before <= Cutoff("telemetry", n)
  PROVE  Covered(n, mem, Pruned(table, before), pending, dropped)
<1> SUFFICES ASSUME NEW t \in Nat, Cutoff("telemetry", n) <= t, t <= n
             PROVE  At(mem, t) <= At(Pruned(table, before), t) + At(pending, t) + At(dropped, t)
  BY DEF Covered
<1>1. Cutoff("telemetry", n) \in Int
  BY CutoffIs
<1>2. t >= before
  BY <1>1
<1>3. At(Pruned(table, before), t) = At(table, t)
  BY <1>2, AtPruned
<1> QED
  BY <1>3 DEF Covered

\* restore_best_effort reads what the table holds of the window.
LEMMA CoveredServing ==
  ASSUME TypeOK, NEW db, WellFormed(db, now), Serving(db), NEW pending, Logged(pending, now),
         NEW dropped, Logged(dropped, now)
  PROVE  Covered(now, memory', db.telemetry, pending, dropped)
<1>n. /\ now \in Nat /\ db.telemetry \in Seq(LogRows)
      /\ pending \in Seq(LogRows) /\ dropped \in Seq(LogRows)
  BY Constants DEF TypeOK, WellFormed, Logged
<1>1. Cutoff("telemetry", now) \in Int
  BY <1>n, CutoffIs
<1>2. memory' = Pruned(db.telemetry, Cutoff("telemetry", now))
  BY DEF Serving
<1>3. ASSUME NEW t \in Nat, Cutoff("telemetry", now) <= t
      PROVE  At(memory', t) <= At(db.telemetry, t) + At(pending, t) + At(dropped, t)
  <2>1. At(memory', t) = At(db.telemetry, t)
    BY <1>n, <1>1, <1>2, <1>3, AtPruned
  <2>2. At(db.telemetry, t) \in Nat /\ At(pending, t) \in Nat /\ At(dropped, t) \in Nat
    BY <1>n, AtIs
  <2> QED
    BY <2>1, <2>2
<1> QED
  BY <1>3 DEF Covered

\* The requests that have nothing to do with telemetry.
LEMMA OtherRequests ==
  ASSUME TypeOK, Requests, ~(Observe \/ Persist \/ PersistLate \/ PersistDropped)
  PROVE  live'.telemetry = live.telemetry /\ UNCHANGED tele
<1>d. live \in Databases
  BY DEF TypeOK, WellFormed
<1>1. ASSUME NEW q \in Queries, LookUp(q) \/ \E size \in Sizes : Answer(q, size)
      PROVE  live'.telemetry = live.telemetry /\ UNCHANGED tele
  <2>1. live' = live \/ \E new : live' = [live EXCEPT !.search = new]
    BY <1>1 DEF LookUp, Answer, Commit, disk
  <2>2. UNCHANGED tele
    BY <1>1 DEF LookUp, Answer
  <2>3. CASE \E new : live' = [live EXCEPT !.search = new]
    BY <1>d, <2>2, <2>3, OtherTables
  <2> QED
    BY <2>1, <2>2, <2>3
<1>2. ASSUME NEW page \in Pages, NEW hash \in Hashes,
             ReadDocument(page, hash) \/ \E size \in Sizes : KeepDocument(page, hash, size)
      PROVE  live'.telemetry = live.telemetry /\ UNCHANGED tele
  <2>1. \E new : live' = [live EXCEPT !.documents = new]
    BY <1>2 DEF ReadDocument, KeepDocument, Commit
  <2>2. UNCHANGED tele
    BY <1>2 DEF ReadDocument, KeepDocument
  <2> QED
    BY <1>d, <2>1, <2>2, OtherTables
<1>3. ASSUME NEW key \in SavedKeys, DeleteSaved(key) \/ \E size \in Sizes : SaveDocument(key, size)
      PROVE  live'.telemetry = live.telemetry /\ UNCHANGED tele
  <2>1. \E new : live' = [live EXCEPT !.saved = new]
    BY <1>3 DEF DeleteSaved, SaveDocument, Commit
  <2>2. UNCHANGED tele
    BY <1>3 DEF DeleteSaved, SaveDocument
  <2> QED
    BY <1>d, <2>1, <2>2, OtherTables
<1>4. CASE RecordHistory \/ DeleteHistory
  <2>1. \E new : live' = [live EXCEPT !.history = new]
    BY <1>4 DEF RecordHistory, DeleteHistory, Commit
  <2>2. UNCHANGED tele
    BY <1>4 DEF RecordHistory, DeleteHistory
  <2> QED
    BY <1>d, <2>1, <2>2, OtherTables
<1>5. CASE RecordEvent
  <2>1. \E new : live' = [live EXCEPT !.audit = new]
    BY <1>5 DEF RecordEvent, Commit
  <2>2. UNCHANGED tele
    BY <1>5 DEF RecordEvent
  <2> QED
    BY <1>d, <2>1, <2>2, OtherTables
<1>6. CASE PurgeCaches
  BY <1>d, <1>6 DEF PurgeCaches, Commit, Databases
<1> QED
  BY <1>1, <1>2, <1>3, <1>4, <1>5, <1>6 DEF Requests

\* One observation reaches the table or does not; the rest of the window stays.
LEMMA StoredAt ==
  ASSUME TypeOK, NEW row \in LogRows, row.created <= now,
         NEW inserted \in BOOLEAN, NEW pruned \in BOOLEAN, Stored(row, inserted, pruned),
         NEW t \in Nat, Cutoff("telemetry", now) <= t
  PROVE  At(live'.telemetry, t)
           = At(live.telemetry, t) + IF inserted /\ row.created = t THEN 1 ELSE 0
<1> DEFINE grown == Append(live.telemetry, row)
           rows == IF inserted THEN grown ELSE live.telemetry
           before == Cutoff("telemetry", row.created)
           new == IF pruned THEN Pruned(rows, before) ELSE rows
           one == IF inserted /\ row.created = t THEN 1 ELSE 0
<1>n. now \in Nat /\ Logged(live.telemetry, now) /\ live \in Databases
  BY Constants DEF TypeOK, WellFormed
<1>r. row.created \in Nat
  BY DEF LogRows
<1>1. live' = [live EXCEPT !.telemetry = new]
  BY DEF Stored
<1>2. live'.telemetry = new
  <2> HIDE DEF new
  <2> QED
    BY <1>n, <1>1, OtherTables
<1>3. live.telemetry \in Seq(LogRows) /\ grown \in Seq(LogRows)
  BY <1>n, AppendIs DEF Logged
<1>4. /\ At(grown, t) = At(live.telemetry, t) + IF row.created = t THEN 1 ELSE 0
      /\ At(live.telemetry, t) \in Nat
  BY <1>n, <1>3, AtAppend, AtIs
<1>5. before \in Int /\ before <= Cutoff("telemetry", now) /\ Cutoff("telemetry", now) \in Int
  BY <1>n, <1>r, CutoffIs, CutoffGrows
<1> HIDE DEF grown, before
<1>6. rows \in Seq(LogRows) /\ At(rows, t) = At(live.telemetry, t) + one
  <2>1. CASE inserted
    BY <1>3, <1>4, <2>1
  <2>2. CASE ~inserted
    BY <1>3, <1>4, <2>2
  <2> QED
    BY <2>1, <2>2
<1> HIDE DEF rows, one
<1>7. t \in Int /\ t >= before
  BY <1>5
<1>8. At(Pruned(rows, before), t) = At(rows, t)
  BY <1>5, <1>6, <1>7, AtPruned
<1>9. At(new, t) = At(rows, t)
  BY <1>8
<1> HIDE DEF new
<1>10. At(live'.telemetry, t) = At(live.telemetry, t) + one
  BY <1>2, <1>6, <1>9
<1> QED
  BY <1>10 DEF one

\* A request of the running service is done with its observation: the row is in
\* the table, or its loss is counted or written down.
LEMMA DurablePersist ==
  ASSUME TypeOK, TelemetryDurable, phase = "open", plan = Serve, ~failures,
         NEW inserted \in BOOLEAN, NEW pruned \in BOOLEAN, NEW i \in DOMAIN unsaved,
         Stored(unsaved[i], inserted, pruned), unsaved' = Removed(unsaved, i),
         abandoned' = IF inserted THEN abandoned ELSE Append(abandoned, unsaved[i])
  PROVE  Covered(now, memory, live'.telemetry, unsaved', abandoned')
<1>n. /\ now \in Nat /\ Logged(memory, now) /\ Logged(unsaved, now) /\ Logged(abandoned, now)
      /\ Logged(live.telemetry, now)
  BY Constants DEF TypeOK, WellFormed
<1>q. /\ memory \in Seq(LogRows) /\ unsaved \in Seq(LogRows) /\ abandoned \in Seq(LogRows)
      /\ live.telemetry \in Seq(LogRows)
  BY <1>n DEF Logged
<1>d. Covered(now, memory, live.telemetry, unsaved, abandoned)
  BY <1>n, DurableIs
<1> DEFINE row == unsaved[i]
<1>r. row \in LogRows /\ row.created <= now
  BY <1>n, RemovedLogged
<1> SUFFICES ASSUME NEW t \in Nat, Cutoff("telemetry", now) <= t, t <= now
             PROVE  At(memory, t) <= At(live'.telemetry, t) + At(unsaved', t) + At(abandoned', t)
  BY DEF Covered
<1> DEFINE one == IF row.created = t THEN 1 ELSE 0
           a == At(memory, t)
           b == At(live.telemetry, t)
           c == At(unsaved, t)
           d == At(Removed(unsaved, i), t)
           e == At(abandoned, t)
<1>1. At(live'.telemetry, t) = b + IF inserted /\ row.created = t THEN 1 ELSE 0
  BY <1>r, StoredAt
<1>2. c = d + one
  BY <1>q, AtRemoved
<1>3. a <= b + c + e
  BY <1>d DEF Covered
<1>4. Removed(unsaved, i) \in Seq(LogRows)
  BY <1>q, PickedIs DEF Removed
<1>5. a \in Nat /\ b \in Nat /\ d \in Nat /\ e \in Nat /\ one \in Nat
  BY <1>q, <1>4, AtIs
<1>6. At(Append(abandoned, row), t) = e + one
  BY <1>n, <1>r, AtAppend
<1>7. CASE inserted
  <2>1. At(live'.telemetry, t) = b + one /\ At(abandoned', t) = e /\ At(unsaved', t) = d
    BY <1>1, <1>7
  <2> HIDE DEF a, b, c, d, e, one
  <2>2. a <= (b + one) + d + e
    BY <1>2, <1>3, <1>5
  <2> QED
    BY <2>1, <2>2 DEF a
<1>8. CASE ~inserted
  <2>1. At(live'.telemetry, t) = b + 0 /\ At(abandoned', t) = e + one /\ At(unsaved', t) = d
    BY <1>1, <1>6, <1>8
  <2> HIDE DEF a, b, c, d, e, one
  <2>2. a <= (b + 0) + d + (e + one)
    BY <1>2, <1>3, <1>5
  <2> QED
    BY <2>1, <2>2 DEF a
<1> QED
  BY <1>7, <1>8

LEMMA DurableTelemetry ==
  ASSUME TypeOK, TelemetryDurable, Observe \/ Persist \/ PersistLate \/ PersistDropped
  PROVE  TelemetryDurable'
<1>n. /\ now \in Nat /\ Logged(memory, now) /\ Logged(unsaved, now) /\ Logged(late, now)
      /\ Logged(abandoned, now) /\ Logged(live.telemetry, now)
  BY Constants DEF TypeOK, WellFormed
<1>s. now' = now /\ phase' = phase /\ plan' = plan
  BY DEF Observe, Persist, PersistLate, PersistDropped, Stored
<1>q. /\ memory \in Seq(LogRows) /\ unsaved \in Seq(LogRows) /\ abandoned \in Seq(LogRows)
      /\ live.telemetry \in Seq(LogRows)
  BY <1>n DEF Logged
<1>c. Cutoff("telemetry", now) \in Int
  BY <1>n, CutoffIs
<1>d. phase = "open" /\ plan = Serve /\ ~failures
        => Covered(now, memory, live.telemetry, unsaved, abandoned)
  BY <1>n, DurableIs
<1> SUFFICES ASSUME phase' = "open", plan' = Serve, ~failures'
             PROVE  Covered(now, memory', live'.telemetry, unsaved', abandoned')
  BY <1>n, <1>s, DurableNext
<1>1. CASE /\ Observe
           /\ memory' = Pruned(Append(memory, LogRow(now)), Cutoff("telemetry", now))
           /\ unsaved' = Append(unsaved, LogRow(now))
  <2>1. live' = live /\ failures' = failures /\ abandoned' = abandoned
    BY <1>1 DEF Observe, disk
  <2> DEFINE row == LogRow(now)
             grown == Append(memory, row)
  <2>2. row \in LogRows /\ row.created = now /\ row.created <= now
    BY <1>n, LogRowIs
  <2>3. memory' = Pruned(grown, Cutoff("telemetry", now)) /\ unsaved' = Append(unsaved, row)
    BY <1>1
  <2> HIDE DEF row
  <2>4. grown \in Seq(LogRows)
    BY <1>n, <2>2, AppendIs
  <2>5. ASSUME NEW t \in Nat, Cutoff("telemetry", now) <= t, t <= now
        PROVE  At(memory', t) <= At(live.telemetry, t) + At(unsaved', t) + At(abandoned, t)
    <3> DEFINE one == IF row.created = t THEN 1 ELSE 0
               a == At(memory, t)
               b == At(live.telemetry, t)
               c == At(unsaved, t)
               e == At(abandoned, t)
    <3>0. t \in Int /\ t >= Cutoff("telemetry", now)
      BY <1>c, <2>5
    <3>1. At(memory', t) = At(grown, t)
      <4> HIDE DEF grown
      <4> QED
        BY <1>c, <2>3, <2>4, <3>0, AtPruned
    <3>2. At(grown, t) = a + one /\ At(unsaved', t) = c + one
      BY <1>n, <2>2, <2>3, AtAppend
    <3>3. a <= b + c + e
      BY <1>d, <1>s, <2>1, <2>5 DEF Covered
    <3>4. a \in Nat /\ b \in Nat /\ c \in Nat /\ e \in Nat /\ one \in Nat
      BY <1>q, AtIs
    <3> HIDE DEF a, b, c, e, one
    <3>5. a + one <= b + (c + one) + e
      BY <3>3, <3>4
    <3> QED
      BY <3>1, <3>2, <3>5 DEF b, e
  <2> QED
    BY <2>1, <2>5 DEF Covered
<1>2. CASE Observe /\ UNCHANGED <<memory, unsaved>>
  BY <1>2, <1>d, <1>s DEF Observe, disk
<1>o. ASSUME Observe
      PROVE  \/ /\ memory' = Pruned(Append(memory, LogRow(now)), Cutoff("telemetry", now))
                /\ unsaved' = Append(unsaved, LogRow(now))
             \/ UNCHANGED <<memory, unsaved>>
  BY <1>o, <1>s DEF Observe
<1>3. CASE Persist
  <2>1. PICK inserted \in BOOLEAN, pruned \in BOOLEAN, i \in DOMAIN unsaved :
          /\ Stored(unsaved[i], inserted, pruned) /\ unsaved' = Removed(unsaved, i)
          /\ failures' = (failures \/ ~(inserted /\ pruned)) /\ UNCHANGED abandoned
    BY <1>3 DEF Persist
  <2>2. inserted /\ ~failures
    BY <2>1
  <2>3. memory' = memory
    BY <2>1 DEF Stored
  <2> QED
    BY <1>s, <2>1, <2>2, <2>3, DurablePersist
<1>4. CASE PersistDropped
  <2>1. PICK inserted \in BOOLEAN, i \in DOMAIN unsaved :
          /\ Stored(unsaved[i], inserted, FALSE) /\ unsaved' = Removed(unsaved, i)
          /\ abandoned' = IF inserted THEN abandoned ELSE Append(abandoned, unsaved[i])
          /\ UNCHANGED failures
    BY <1>4 DEF PersistDropped
  <2>2. memory' = memory
    BY <2>1 DEF Stored
  <2> QED
    BY <1>s, <2>1, <2>2, DurablePersist
<1>5. CASE PersistLate
  <2>1. PICK inserted \in BOOLEAN, pruned \in BOOLEAN, i \in DOMAIN late :
          Stored(late[i], inserted, pruned) /\ UNCHANGED <<unsaved, abandoned, failures>>
    BY <1>5 DEF PersistLate
  <2>2. late[i] \in LogRows /\ late[i].created <= now
    BY <1>n, RemovedLogged
  <2>3. memory' = memory
    BY <2>1 DEF Stored
  <2>4. ASSUME NEW t \in Nat, Cutoff("telemetry", now) <= t, t <= now
        PROVE  At(memory, t) <= At(live'.telemetry, t) + At(unsaved, t) + At(abandoned, t)
    <3> DEFINE more == IF inserted /\ late[i].created = t THEN 1 ELSE 0
               a == At(memory, t)
               b == At(live.telemetry, t)
               c == At(unsaved, t)
               e == At(abandoned, t)
    <3>1. At(live'.telemetry, t) = b + more
      BY <2>1, <2>2, <2>4, StoredAt
    <3>2. a <= b + c + e
      BY <1>d, <1>s, <2>1, <2>4 DEF Covered
    <3>3. a \in Nat /\ b \in Nat /\ c \in Nat /\ e \in Nat /\ more \in Nat
      BY <1>q, AtIs
    <3> HIDE DEF a, b, c, e, more
    <3>4. a <= (b + more) + c + e
      BY <3>2, <3>3
    <3> QED
      BY <3>1, <3>4 DEF a, c, e
  <2> QED
    BY <2>1, <2>3, <2>4 DEF Covered
<1> QED
  BY <1>1, <1>2, <1>3, <1>4, <1>5, <1>o

LEMMA DurableStep ==
  ASSUME TypeOK, TelemetryDurable, [Next]_vars
  PROVE  TelemetryDurable'
<1>n. /\ now \in Nat /\ WellFormed(live, now) /\ Logged(unsaved, now) /\ Logged(memory, now)
      /\ Logged(abandoned, now)
  BY Constants DEF TypeOK
<1>t. ASSUME now' = now PROVE now' \in Nat
  BY <1>n, <1>t
<1>d. phase = "open" /\ plan = Serve /\ ~failures => Covered(now, memory, live.telemetry, unsaved, abandoned)
  BY <1>n, DurableIs
<1>s. ASSUME live'.telemetry = live.telemetry,
             UNCHANGED <<now, phase, plan, memory, unsaved, abandoned, failures>>
      PROVE  TelemetryDurable'
  BY <1>s, <1>d, <1>t, DurableNext
<1>z. ASSUME phase' # "open" PROVE TelemetryDurable'
  BY <1>z DEF TelemetryDurable
<1>1. CASE Requests
  <2>1. CASE Observe \/ Persist \/ PersistLate \/ PersistDropped
    BY <2>1, DurableTelemetry
  <2>2. CASE ~(Observe \/ Persist \/ PersistLate \/ PersistDropped)
    BY <1>1, <1>s, <2>2, RequestLeaves, OtherRequests DEF tele
  <2> QED
    BY <2>1, <2>2
<1>2. CASE PurgeTick
  <2>1. UNCHANGED <<now, phase, plan, memory, unsaved, abandoned, failures>>
        /\ live' = Purged(live, now) /\ live.version = CurrentVersion
    BY <1>2 DEF PurgeTick, Commit, Open, TypeOK, tele
  <2>2. live'.telemetry \in {live.telemetry, Pruned(live.telemetry, Cutoff("telemetry", now))}
    BY <1>n, <2>1, PurgedIs DEF TypeOK
  <2>3. CASE live'.telemetry = live.telemetry
    BY <1>s, <2>1, <2>3
  <2>4. CASE live'.telemetry = Pruned(live.telemetry, Cutoff("telemetry", now))
    <3> DEFINE c == Cutoff("telemetry", now)
    <3>1. c \in Int /\ live.telemetry \in Seq(LogRows)
      BY <1>n, CutoffIs DEF WellFormed, Logged
    <3>2. c <= c
      BY <3>1
    <3>3. ASSUME phase = "open", plan = Serve, ~failures
          PROVE  Covered(now, memory, Pruned(live.telemetry, c), unsaved, abandoned)
      BY <1>d, <1>n, <3>1, <3>2, <3>3, CoveredPruned
    <3> QED
      BY <1>t, <2>1, <2>4, <3>3, DurableNext
  <2> QED
    BY <2>2, <2>3, <2>4
<1>3. CASE Tick
  <2>1. /\ now' = now + 1 /\ UNCHANGED <<phase, plan, live, memory, unsaved, abandoned, failures>>
    BY <1>3 DEF Tick, disk, tele
  <2>2. now' \in Nat /\ Cutoff("telemetry", now) <= Cutoff("telemetry", now')
    BY <1>n, <2>1, CutoffGrows
  <2>3. Cutoff("telemetry", now) \in Int /\ Cutoff("telemetry", now') \in Int
    BY <1>n, <2>2, CutoffIs
  <2>q. /\ memory \in Seq(LogRows) /\ unsaved \in Seq(LogRows) /\ abandoned \in Seq(LogRows)
        /\ live.telemetry \in Seq(LogRows)
    BY <1>n DEF Logged, WellFormed
  <2>4. ASSUME Covered(now, memory, live.telemetry, unsaved, abandoned)
        PROVE  Covered(now', memory, live.telemetry, unsaved, abandoned)
    <3> SUFFICES ASSUME NEW t \in Nat, Cutoff("telemetry", now') <= t, t <= now'
                 PROVE  At(memory, t) <= At(live.telemetry, t) + At(unsaved, t) + At(abandoned, t)
      BY DEF Covered
    <3>1. CASE t <= now
      BY <2>2, <2>3, <2>4, <3>1 DEF Covered
    <3>2. CASE t = now + 1
      <4>1. \A i \in DOMAIN memory : memory[i].created # t
        BY <1>n, <2>q, <3>2 DEF Logged, LogRows
      <4>2. /\ At(memory, t) = 0 /\ At(live.telemetry, t) \in Nat /\ At(unsaved, t) \in Nat
            /\ At(abandoned, t) \in Nat
        BY <2>q, <4>1, AtIs
      <4> QED
        BY <4>2
    <3> QED
      BY <1>n, <2>1, <3>1, <3>2
  <2> QED
    BY <1>d, <2>1, <2>2, <2>4, DurableNext
<1>4. CASE Start \/ OpenQuarantines \/ OpenOld \/ Exit
  BY <1>4, <1>z DEF Start, OpenQuarantines, OpenOld, Without, Exit
<1>o. ASSUME NEW db, WellFormed(db, now), plan = Serve => Serving(db), UNCHANGED <<now, plan>>,
             Logged(unsaved', now), Logged(abandoned', now), live'.telemetry = db.telemetry
      PROVE  TelemetryDurable'
  <2>1. plan = Serve => Covered(now, memory', db.telemetry, unsaved', abandoned')
    BY <1>n, <1>o, CoveredServing
  <2> QED
    BY <1>o, <1>t, <2>1, DurableNext
<1>5. CASE OpenCurrent
  <2>1. PICK found \in Found : Connected(found) /\ (plan = Serve => Serving(found.db))
    BY <1>5 DEF OpenCurrent
  <2>2. WellFormed(found.db, now) /\ live' = found.db
    BY <2>1, ConnectedIs
  <2> QED
    BY <1>5, <1>n, <1>o, <2>1, <2>2 DEF OpenCurrent
<1>6. CASE Migrate
  <2>1. WellFormed(Migrated(live), now) /\ live' = Migrated(live)
    BY <1>6, <1>n, MigratedIs DEF Migrate
  <2> QED
    BY <1>6, <1>n, <1>o, <2>1 DEF Migrate
<1>7. CASE Reload
  <2>1. CASE Serving(live)
    <3>1. UNCHANGED <<now, plan, live>> /\ unsaved' = <<>> /\ abandoned' = <<>>
      BY <1>7 DEF Reload, disk
    <3>2. Logged(unsaved', now) /\ Logged(abandoned', now)
      BY <3>1, EmptyLogged
    <3> QED
      BY <1>n, <1>o, <2>1, <3>1, <3>2
  <2>2. CASE phase' = "degraded"
    BY <1>z, <2>2
  <2> QED
    BY <1>7, <2>1, <2>2 DEF Reload
<1>11. ASSUME NEW u \in Tasks, Retire(u) PROVE TelemetryDurable'
  BY <1>s, <1>11 DEF Retire, disk, tele
<1>8. CASE Checkpoint \/ UNCHANGED vars
  BY <1>s, <1>8 DEF Checkpoint, vars, disk, tele
<1>9. ASSUME NEW w \in Jobs,
         BackupBegin(w) \/ BackupCopied(w) \/ BackupAborted(w) \/ BackupVerified(w)
         \/ BackupDiscarded(w)
      PROVE  TelemetryDurable'
  BY <1>s, <1>9 DEF BackupBegin, BackupCopied, BackupAborted, BackupVerified, BackupDiscarded, tele
<1>10. CASE Commands
  <2>1. phase' # "open"
    BY <1>10 DEF Commands, RestoreBegin, RestoreSave, RestoreReplace, DowngradeStart,
         DowngradeCopy, DowngradeStep
  <2> QED
    BY <1>z, <2>1
<1> QED
  BY <1>1, <1>2, <1>3, <1>4, <1>5, <1>6, <1>7, <1>8, <1>9, <1>10, <1>11
    DEF Next, Opening, Process, Maintenance

\* Memory is never ahead of the telemetry table by more than what is being
\* recorded and what a request was dropped with, for every retention and in
\* whatever order the requests that record reach the table: with no failure
\* counted, a restart finds every other observation of the window.
THEOREM TelemetryIsDurable == Spec => []TelemetryDurable
<1>1. Init => TelemetryDurable
  BY DEF Init, TelemetryDurable
<1>2. TypeOK /\ TelemetryDurable /\ [Next]_vars => TelemetryDurable'
  BY DurableStep
<1> QED
  BY <1>1, <1>2, StoreTypes, PTL DEF Spec
=============================================================================
