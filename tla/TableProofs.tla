---------------------------- MODULE TableProofs -----------------------------
(***************************************************************************)
(* What the kernel table answers is what its file says: proofs about       *)
(* KernelTable.tla, for every set of rows, files of any length and every   *)
(* question.                                                               *)
(*                                                                         *)
(* The invariant relates the table to the rows it was filled from: exact   *)
(* binds every key to its last row, and by_seq lists, for every partial    *)
(* key, the rows that have it, in the order of the file while it is read   *)
(* and by length once it is loaded.  From that list the partition point    *)
(* tells the nearest rows below and above a length, and what is answered   *)
(* follows.                                                                *)
(***************************************************************************)
EXTENDS TableProperties, OperatorProofs

-----------------------------------------------------------------------------
(* The table and its file *)

GoodRows == Rows \ {Malformed}

Key(r) == KernelKey(r.target, r.op, r.batch, r.seq_len)
PKey(r) == PartialKey(r.target, r.op, r.batch)
Entry(r) == <<r.seq_len, r.latency>>

\* The rows of the file f that the table takes, and those with a partial key.
Taken(f) == {i \in DOMAIN f : f[i].op \in KernelOps}
RowsOf(f, pkey) == {i \in Taken(f) : PKey(f[i]) = pkey}

\* e binds the key of every row taken to the latency of the last row with it.
BindsLast(f, e) ==
  /\ DOMAIN e = {Key(f[i]) : i \in Taken(f)}
  /\ \A i \in Taken(f) :
       (\A j \in Taken(f) : Key(f[j]) = Key(f[i]) => j <= i)
         => e[Key(f[i])] = f[i].latency

\* v has the entries of the rows m[1], m[2] and so on, which are all those in R.
Tabulates(v, f, R, m) ==
  /\ v \in Seq(Nat \X Nat)
  /\ m \in [1 .. Len(v) -> R]
  /\ \A i \in R : \E k \in 1 .. Len(v) : m[k] = i
  /\ \A k \in 1 .. Len(v) : v[k] = Entry(f[m[k]])

\* By length, rows of one length as in the file.
Sooner(f, i, j) ==
  f[i].seq_len < f[j].seq_len \/ (f[i].seq_len = f[j].seq_len /\ i < j)

InFileOrder(v, f, R) ==
  \E m : /\ Tabulates(v, f, R, m)
         /\ \A k, l \in 1 .. Len(v) : k < l => m[k] < m[l]
InLengthOrder(v, f, R) ==
  \E m : /\ Tabulates(v, f, R, m)
         /\ \A k, l \in 1 .. Len(v) : k < l => Sooner(f, m[k], m[l])

Groups(f, b) ==
  /\ DOMAIN b = {PKey(f[i]) : i \in Taken(f)}
  /\ \A pkey \in DOMAIN b : InFileOrder(b[pkey], f, RowsOf(f, pkey))
SortedGroups(f, b) ==
  /\ DOMAIN b = {PKey(f[i]) : i \in Taken(f)}
  /\ \A pkey \in DOMAIN b : InLengthOrder(b[pkey], f, RowsOf(f, pkey))

\* The inductive invariant.  A load that failed leaves no table to be asked.
TableInv ==
  /\ phase \in {"reading", "loaded", "failed"}
  /\ phase # "failed" => read \in Seq(GoodRows) /\ BindsLast(read, exact)
  /\ phase = "reading" => Groups(read, by_seq)
  /\ phase = "loaded" => SortedGroups(read, by_seq)

\* The numbers of a row that parses.
LEMMA RowNumbers ==
  ASSUME NEW f \in Seq(GoodRows)
  PROVE  /\ Len(f) \in Nat /\ DOMAIN f = 1 .. Len(f)
         /\ \A i \in DOMAIN f : /\ f[i] \in GoodRows
                                /\ f[i].seq_len \in Nat /\ f[i].latency \in Nat
                                /\ f[i].batch \in Nat
<1>1. Len(f) \in Nat /\ DOMAIN f = 1 .. Len(f)
  BY LenProperties
<1>2. \A i \in DOMAIN f : f[i] \in GoodRows
  BY <1>1, ElementOfSeq
<1>3. \A r \in GoodRows : r.seq_len \in Nat /\ r.latency \in Nat /\ r.batch \in Nat
  BY TableAssumption DEF GoodRows
<1> QED
  BY <1>1, <1>2, <1>3

\* g has row r at position z, behind the rows of f.
AddsRow(g, f, r, z) ==
  /\ g \in Seq(GoodRows)
  /\ z \in Nat /\ z \in DOMAIN g /\ z \notin DOMAIN f /\ g[z] = r
  /\ DOMAIN g = DOMAIN f \cup {z}
  /\ \A i \in DOMAIN f : g[i] = f[i] /\ i < z /\ i \in Nat
  /\ Taken(g) = IF r.op \in KernelOps THEN Taken(f) \cup {z} ELSE Taken(f)
  /\ Taken(f) \subseteq DOMAIN f
  /\ \A pkey : RowsOf(g, pkey) =
       IF r.op \in KernelOps /\ PKey(r) = pkey THEN RowsOf(f, pkey) \cup {z}
       ELSE RowsOf(f, pkey)

\* Which is what appending a row does.
LEMMA OneMoreRow ==
  ASSUME NEW f \in Seq(GoodRows), NEW r \in GoodRows
  PROVE  AddsRow(Append(f, r), f, r, Len(f) + 1)
<1> DEFINE g == Append(f, r)
           z == Len(f) + 1
<1>1. /\ g \in Seq(GoodRows) /\ Len(g) = z
      /\ \A i \in 1 .. Len(f) : g[i] = f[i]
      /\ g[z] = r
  BY AppendProperties
<1>2. /\ Len(f) \in Nat /\ DOMAIN f = 1 .. Len(f)
      /\ DOMAIN g = 1 .. Len(g)
  BY <1>1, LenProperties
<1>3. /\ z \in Nat /\ z \in DOMAIN g /\ z \notin DOMAIN f
      /\ DOMAIN g = DOMAIN f \cup {z}
      /\ \A i \in DOMAIN f : g[i] = f[i] /\ i < z /\ i \in Nat
  BY <1>1, <1>2
<1>4. Taken(f) \subseteq DOMAIN f
  BY DEF Taken
<1>5. Taken(g) = IF r.op \in KernelOps THEN Taken(f) \cup {z} ELSE Taken(f)
  <2>1. \A i \in DOMAIN f : g[i].op = f[i].op
    BY <1>3
  <2>2. g[z].op = r.op
    BY <1>1
  <2> QED
    BY <1>3, <2>1, <2>2, Zenon DEF Taken
<1>6. ASSUME NEW pkey
      PROVE  RowsOf(g, pkey) =
              IF r.op \in KernelOps /\ PKey(r) = pkey THEN RowsOf(f, pkey) \cup {z}
              ELSE RowsOf(f, pkey)
  <2>1. \A i \in Taken(f) : PKey(g[i]) = PKey(f[i])
    BY <1>3, <1>4
  <2>2. PKey(g[z]) = PKey(r)
    BY <1>1
  <2>3. z \notin Taken(f)
    BY <1>3, <1>4
  <2> QED
    BY <1>5, <2>1, <2>2, <2>3, Zenon DEF RowsOf
<1> HIDE DEF g, z
<1>7. AddsRow(g, f, r, z)
  BY <1>1, <1>3, <1>4, <1>5, <1>6 DEF AddsRow
<1> QED
  BY <1>7 DEF g, z

\* A row of another operation changes nothing.
LEMMA SkipKeeps ==
  ASSUME NEW f \in Seq(GoodRows), NEW r \in GoodRows, r.op \notin KernelOps,
         NEW e, BindsLast(f, e), NEW b, Groups(f, b)
  PROVE  BindsLast(Append(f, r), e) /\ Groups(Append(f, r), b)
<1> DEFINE g == Append(f, r)
           z == Len(f) + 1
<1> HIDE DEF g, z
<1>1. /\ \A i \in DOMAIN f : g[i] = f[i]
      /\ Taken(g) = Taken(f) /\ Taken(f) \subseteq DOMAIN f
      /\ \A pkey : RowsOf(g, pkey) = RowsOf(f, pkey)
  <2>1. AddsRow(g, f, r, z)
    BY OneMoreRow DEF g, z
  <2> QED
    BY <2>1 DEF AddsRow
<1>2. \A i \in Taken(f) : g[i] = f[i]
  BY <1>1
<1>3. /\ {Key(g[i]) : i \in Taken(g)} = {Key(f[i]) : i \in Taken(f)}
      /\ {PKey(g[i]) : i \in Taken(g)} = {PKey(f[i]) : i \in Taken(f)}
  BY <1>1, <1>2
<1>4. BindsLast(g, e)
  <2>1. ASSUME NEW i \in Taken(g), \A j \in Taken(g) : Key(g[j]) = Key(g[i]) => j <= i
        PROVE  e[Key(g[i])] = g[i].latency
    <3>1. i \in Taken(f) /\ g[i] = f[i]
      BY <1>1, <1>2
    <3>2. \A j \in Taken(f) : Key(f[j]) = Key(f[i]) => j <= i
      BY <1>1, <1>2, <2>1, <3>1
    <3> QED
      BY <3>1, <3>2 DEF BindsLast
  <2> QED
    BY <1>3, <2>1 DEF BindsLast
<1>5. Groups(g, b)
  <2>1. ASSUME NEW pkey \in DOMAIN b
        PROVE  InFileOrder(b[pkey], g, RowsOf(g, pkey))
    <3>1. PICK m : /\ Tabulates(b[pkey], f, RowsOf(f, pkey), m)
                   /\ \A k, l \in 1 .. Len(b[pkey]) : k < l => m[k] < m[l]
      BY DEF Groups, InFileOrder
    <3>2. Tabulates(b[pkey], g, RowsOf(g, pkey), m)
      BY <1>1, <1>2, <3>1 DEF Tabulates, RowsOf
    <3> QED
      BY <3>1, <3>2 DEF InFileOrder
  <2> QED
    BY <1>3, <2>1 DEF Groups
<1> QED
  BY <1>4, <1>5 DEF g

\* The entries of a partial key, before a row is inserted.
Entries(b, pkey) == IF pkey \in DOMAIN b THEN b[pkey] ELSE <<>>

\* Every partial key lists its rows, one that no row has lists none.
LEMMA EntriesInOrder ==
  ASSUME NEW f \in Seq(GoodRows), NEW b, Groups(f, b), NEW pkey
  PROVE  InFileOrder(Entries(b, pkey), f, RowsOf(f, pkey))
<1>1. CASE pkey \in DOMAIN b
  BY <1>1 DEF Groups, Entries
<1>2. CASE pkey \notin DOMAIN b
  <2>1. RowsOf(f, pkey) = {}
    BY <1>2 DEF Groups, RowsOf
  <2>2. Entries(b, pkey) = <<>>
    BY <1>2 DEF Entries
  <2> DEFINE m == [k \in 1 .. 0 |-> k]
  <2>3. Len(<<>>) = 0 /\ <<>> \in Seq(Nat \X Nat)
    BY EmptySeq
  <2>4. Tabulates(<<>>, f, {}, m)
    BY <2>3 DEF Tabulates
  <2>5. \A k, l \in 1 .. Len(<<>>) : k < l => m[k] < m[l]
    BY <2>3
  <2> HIDE DEF m
  <2>6. InFileOrder(<<>>, f, {})
    BY <2>4, <2>5, Zenon DEF InFileOrder
  <2> QED
    BY <2>1, <2>2, <2>6
<1> QED
  BY <1>1, <1>2

\* One more row, behind the others, is one more entry behind the others.
LEMMA OneMoreEntry ==
  ASSUME NEW f \in Seq(GoodRows), NEW r \in GoodRows, NEW R, R \subseteq DOMAIN f,
         NEW v, InFileOrder(v, f, R)
  PROVE  InFileOrder(Append(v, Entry(r)), Append(f, r), R \cup {Len(f) + 1})
<1> DEFINE g == Append(f, r)
           z == Len(f) + 1
           n == Len(v)
<1> HIDE DEF g, z
<1>1. /\ z \in Nat /\ g[z] = r
      /\ \A i \in DOMAIN f : g[i] = f[i] /\ i < z /\ i \in Nat
  <2>1. AddsRow(g, f, r, z)
    BY OneMoreRow DEF g, z
  <2> QED
    BY <2>1 DEF AddsRow
<1>2. PICK m : /\ Tabulates(v, f, R, m)
               /\ \A k, l \in 1 .. n : k < l => m[k] < m[l]
  BY DEF InFileOrder
<1> HIDE DEF n
<1>3. /\ v \in Seq(Nat \X Nat) /\ n \in Nat /\ m \in [1 .. n -> R]
      /\ \A i \in R : \E k \in 1 .. n : m[k] = i
      /\ \A k \in 1 .. n : v[k] = Entry(f[m[k]])
  BY <1>2, LenProperties DEF Tabulates, n
<1>4. Entry(r) \in Nat \X Nat
  BY TableAssumption DEF Entry, GoodRows
<1> DEFINE w == Append(v, Entry(r))
<1>5. /\ w \in Seq(Nat \X Nat) /\ Len(w) = n + 1
      /\ \A k \in 1 .. n : w[k] = v[k]
      /\ w[n + 1] = Entry(r)
  BY <1>3, <1>4, AppendProperties DEF n
<1> DEFINE S == R \cup {z}
           q == [k \in 1 .. n + 1 |-> IF k \in 1 .. n THEN m[k] ELSE z]
<1>6. /\ q \in [1 .. n + 1 -> S]
      /\ \A k \in 1 .. n : q[k] = m[k] /\ m[k] \in R
      /\ q[n + 1] = z /\ n + 1 \in 1 .. n + 1
      /\ \A k \in 1 .. n + 1 : k \in 1 .. n \/ k = n + 1
  BY <1>3
<1> HIDE DEF q, w
<1>7. \A i \in S : \E k \in 1 .. n + 1 : q[k] = i
  <2>1. 1 .. n \subseteq 1 .. n + 1
    BY <1>3
  <2> QED
    BY <1>3, <1>6, <2>1
<1>8. \A k \in 1 .. n + 1 : w[k] = Entry(g[q[k]])
  <2>1. ASSUME NEW k \in 1 .. n PROVE w[k] = Entry(g[q[k]])
    <3>1. q[k] \in R /\ q[k] \in DOMAIN f /\ q[k] = m[k]
      BY <1>6
    <3> QED
      BY <1>1, <1>3, <1>5, <3>1
  <2>2. w[n + 1] = Entry(g[q[n + 1]])
    BY <1>1, <1>5, <1>6
  <2> QED
    BY <1>6, <2>1, <2>2
<1>9. \A k, l \in 1 .. n + 1 : k < l => q[k] < q[l]
  <2> SUFFICES ASSUME NEW k \in 1 .. n + 1, NEW l \in 1 .. n + 1, k < l
               PROVE  q[k] < q[l]
    OBVIOUS
  <2>1. k \in 1 .. n /\ q[k] = m[k] /\ m[k] \in DOMAIN f
    BY <1>3, <1>6
  <2>2. CASE l \in 1 .. n
    BY <1>2, <1>6, <2>1, <2>2
  <2>3. CASE l = n + 1
    BY <1>1, <1>6, <2>1, <2>3
  <2> QED
    BY <1>6, <2>2, <2>3
<1>10. Tabulates(w, g, S, q)
  BY <1>5, <1>6, <1>7, <1>8 DEF Tabulates
<1>11. InFileOrder(w, g, S)
  BY <1>5, <1>9, <1>10 DEF InFileOrder
<1> QED
  BY <1>11 DEF w, g, z

\* A row of a kernel operation is inserted.
LEMMA InsertKeeps ==
  ASSUME NEW f \in Seq(GoodRows), NEW r \in GoodRows, r.op \in KernelOps,
         NEW e, BindsLast(f, e), NEW b, Groups(f, b)
  PROVE  /\ BindsLast(Append(f, r), With(e, Key(r), r.latency))
         /\ Groups(Append(f, r),
                   With(b, PKey(r), Append(Entries(b, PKey(r)), Entry(r))))
<1> DEFINE g == Append(f, r)
           z == Len(f) + 1
           d == With(e, Key(r), r.latency)
           c == With(b, PKey(r), Append(Entries(b, PKey(r)), Entry(r)))
<1> HIDE DEF g, z
<1>1. /\ z \in Nat /\ z \in DOMAIN g /\ z \notin DOMAIN f /\ g[z] = r
      /\ \A i \in DOMAIN f : g[i] = f[i] /\ i < z /\ i \in Nat
      /\ Taken(f) \subseteq DOMAIN f
      /\ Taken(g) = Taken(f) \cup {z}
      /\ \A pkey : RowsOf(g, pkey) =
             IF PKey(r) = pkey THEN RowsOf(f, pkey) \cup {z} ELSE RowsOf(f, pkey)
  <2>1. AddsRow(g, f, r, z)
    BY OneMoreRow DEF g, z
  <2> QED
    BY <2>1 DEF AddsRow
<1>2. /\ Taken(g) = Taken(f) \cup {z}
      /\ RowsOf(g, PKey(r)) = RowsOf(f, PKey(r)) \cup {z}
      /\ \A pkey : pkey # PKey(r) => RowsOf(g, pkey) = RowsOf(f, pkey)
  BY <1>1
<1>3. \A i \in Taken(f) : g[i] = f[i] /\ i < z /\ i \in Nat
  BY <1>1
<1>4. BindsLast(g, d)
  <2>1. DOMAIN d = DOMAIN e \cup {Key(r)} /\ d[Key(r)] = r.latency
        /\ \A k \in DOMAIN e : k # Key(r) => d[k] = e[k]
    BY DEF With
  <2> HIDE DEF d
  <2>2. {Key(g[i]) : i \in Taken(g)} = {Key(f[i]) : i \in Taken(f)} \cup {Key(r)}
    BY <1>1, <1>2, <1>3
  <2>3. DOMAIN d = {Key(g[i]) : i \in Taken(g)}
    BY <2>1, <2>2 DEF BindsLast
  <2>4. ASSUME NEW i \in Taken(g), \A j \in Taken(g) : Key(g[j]) = Key(g[i]) => j <= i
        PROVE  d[Key(g[i])] = g[i].latency
    <3>1. CASE i = z
      BY <1>1, <2>1, <3>1
    <3>2. CASE i # z
      <4>1. i \in Taken(f) /\ g[i] = f[i] /\ i < z /\ i \in Nat
        BY <1>2, <1>3, <3>2
      <4>2. Key(f[i]) # Key(r)
        <5> SUFFICES ASSUME Key(f[i]) = Key(r) PROVE z <= i
          BY <1>1, <4>1
        <5>1. z \in Taken(g) /\ Key(g[z]) = Key(g[i])
          BY <1>1, <1>2, <4>1
        <5> QED
          BY <2>4, <5>1
      <4>3. \A j \in Taken(f) : Key(f[j]) = Key(f[i]) => j <= i
        BY <1>2, <1>3, <2>4, <4>1
      <4>4. e[Key(f[i])] = f[i].latency /\ Key(f[i]) \in DOMAIN e
        BY <4>1, <4>3 DEF BindsLast
      <4> QED
        BY <2>1, <4>1, <4>2, <4>4
    <3> QED
      BY <3>1, <3>2
  <2> QED
    BY <2>3, <2>4 DEF BindsLast
<1>5. Groups(g, c)
  <2> DEFINE v == Entries(b, PKey(r))
  <2>1. /\ DOMAIN c = DOMAIN b \cup {PKey(r)}
        /\ c[PKey(r)] = Append(v, Entry(r))
        /\ \A k \in DOMAIN b : k # PKey(r) => c[k] = b[k]
    BY DEF With
  <2> HIDE DEF c
  <2>2. {PKey(g[i]) : i \in Taken(g)} = {PKey(f[i]) : i \in Taken(f)} \cup {PKey(r)}
    BY <1>1, <1>2, <1>3
  <2>3. DOMAIN c = {PKey(g[i]) : i \in Taken(g)}
    BY <2>1, <2>2 DEF Groups
  <2>4. ASSUME NEW pkey \in DOMAIN c
        PROVE  InFileOrder(c[pkey], g, RowsOf(g, pkey))
    <3>1. CASE pkey = PKey(r)
      <4>1. RowsOf(f, pkey) \subseteq DOMAIN f
        BY <1>1 DEF RowsOf
      <4>2. InFileOrder(v, f, RowsOf(f, pkey))
        BY <3>1, EntriesInOrder
      <4>3. InFileOrder(Append(v, Entry(r)), g, RowsOf(f, pkey) \cup {z})
        BY <4>1, <4>2, OneMoreEntry DEF g, z
      <4> QED
        BY <1>2, <2>1, <3>1, <4>3
    <3>2. CASE pkey # PKey(r)
      <4>1. c[pkey] = b[pkey] /\ InFileOrder(b[pkey], f, RowsOf(f, pkey))
        BY <2>1, <3>2 DEF Groups
      <4>2. PICK m : /\ Tabulates(b[pkey], f, RowsOf(f, pkey), m)
                     /\ \A k, l \in 1 .. Len(b[pkey]) : k < l => m[k] < m[l]
        BY <4>1 DEF InFileOrder
      <4>3. Tabulates(b[pkey], g, RowsOf(g, pkey), m)
        BY <1>2, <1>3, <3>2, <4>2, LenProperties DEF Tabulates, RowsOf
      <4> QED
        BY <4>1, <4>2, <4>3 DEF InFileOrder
    <3> QED
      BY <3>1, <3>2
  <2> QED
    BY <2>3, <2>4 DEF Groups
<1> QED
  BY <1>4, <1>5 DEF g

\* Sorting the entries leaves the rows of one length in the order of the file.
LEMMA SortKeeps ==
  ASSUME NEW f \in Seq(GoodRows), NEW R, R \subseteq DOMAIN f,
         NEW v, InFileOrder(v, f, R)
  PROVE  InLengthOrder(SortedEntries(v), f, R)
<1> DEFINE n == Len(v)
           keys == [i \in DOMAIN v |-> v[i][1]]
           order == SortedByKey(keys)
           w == SortedEntries(v)
<1>1. PICK m : /\ Tabulates(v, f, R, m)
               /\ \A k, l \in 1 .. n : k < l => m[k] < m[l]
  BY DEF InFileOrder
<1>2. /\ v \in Seq(Nat \X Nat) /\ n \in Nat /\ DOMAIN v = 1 .. n
      /\ m \in [1 .. n -> R]
      /\ \A i \in R : \E k \in 1 .. n : m[k] = i
      /\ \A k \in 1 .. n : v[k] = Entry(f[m[k]]) /\ v[k] \in Nat \X Nat
  BY <1>1, LenProperties, ElementOfSeq DEF Tabulates
<1>3. \A k \in 1 .. n : v[k][1] = f[m[k]].seq_len /\ f[m[k]].seq_len \in Nat
  <2>1. \A k \in 1 .. n : m[k] \in DOMAIN f
    BY <1>2
  <2> QED
    BY <1>2, <2>1, RowNumbers DEF Entry
<1>4. DOMAIN keys = 1 .. n /\ \A k \in 1 .. n : keys[k] = f[m[k]].seq_len /\ keys[k] \in Int
  BY <1>2, <1>3
<1> HIDE DEF n, keys
<1>5. ListsByKey(order, n, keys)
  BY <1>2, <1>4, SortListsKeys
<1>6. w = [k \in 1 .. n |-> v[order[k]]]
  BY <1>2, Zenon DEF SortedEntries, keys
<1> HIDE DEF order, w
<1>7. /\ order \in [1 .. n -> 1 .. n]
      /\ \A i \in 1 .. n : \E k \in 1 .. n : order[k] = i
      /\ \A k, l \in 1 .. n : k < l => \/ keys[order[k]] < keys[order[l]]
                                       \/ keys[order[k]] = keys[order[l]] /\ order[k] < order[l]
  BY <1>5 DEF ListsByKey
<1>8. w \in Seq(Nat \X Nat) /\ Len(w) = n
  <2>1. w \in [1 .. n -> Nat \X Nat]
    BY <1>2, <1>6, <1>7
  <2> QED
    BY <1>2, <2>1, SequenceShape
<1> DEFINE q == [k \in 1 .. n |-> m[order[k]]]
<1>9. q \in [1 .. n -> R] /\ \A k \in 1 .. n : q[k] = m[order[k]] /\ order[k] \in 1 .. n
  BY <1>2, <1>7
<1> HIDE DEF q
<1>10. \A i \in R : \E k \in 1 .. n : q[k] = i
  <2> TAKE i \in R
  <2>1. PICK j \in 1 .. n : m[j] = i
    BY <1>2
  <2>2. PICK k \in 1 .. n : order[k] = j
    BY <1>7
  <2> QED
    BY <1>9, <2>1, <2>2
<1>11. \A k \in 1 .. n : w[k] = Entry(f[q[k]])
  BY <1>2, <1>6, <1>9
<1>12. Tabulates(w, f, R, q)
  BY <1>8, <1>9, <1>10, <1>11 DEF Tabulates
<1>13. \A k, l \in 1 .. n : k < l => Sooner(f, q[k], q[l])
  <2> SUFFICES ASSUME NEW k \in 1 .. n, NEW l \in 1 .. n, k < l
               PROVE  Sooner(f, q[k], q[l])
    OBVIOUS
  <2>1. /\ order[k] \in 1 .. n /\ q[k] = m[order[k]] /\ keys[order[k]] = f[q[k]].seq_len
        /\ order[l] \in 1 .. n /\ q[l] = m[order[l]] /\ keys[order[l]] = f[q[l]].seq_len
    BY <1>4, <1>9
  <2>2. \/ keys[order[k]] < keys[order[l]]
        \/ keys[order[k]] = keys[order[l]] /\ order[k] < order[l]
    BY <1>7
  <2>3. order[k] < order[l] => q[k] < q[l]
    BY <1>1, <2>1 DEF n
  <2> QED
    BY <2>1, <2>2, <2>3 DEF Sooner
<1>14. InLengthOrder(w, f, R)
  BY <1>8, <1>12, <1>13 DEF InLengthOrder
<1> QED
  BY <1>14 DEF w

-----------------------------------------------------------------------------
(* The invariant *)

\* An empty table holds no row ...
LEMMA TableInvInit == Init => TableInv
<1> SUFFICES ASSUME Init PROVE TableInv
  OBVIOUS
<1>1. read = <<>> /\ exact = Empty /\ by_seq = Empty /\ phase = "reading"
  BY DEF Init
<1>2. read \in Seq(GoodRows) /\ DOMAIN read = {}
  <2>1. <<>> \in Seq(GoodRows) /\ Len(<<>>) = 0
    BY EmptySeq
  <2> QED
    BY <1>1, <2>1, LenProperties
<1>3. Taken(read) = {}
  BY <1>2 DEF Taken
<1>4. DOMAIN Empty = {}
  BY DEF Empty
<1>5. BindsLast(read, exact)
  BY <1>1, <1>3, <1>4 DEF BindsLast
<1>6. Groups(read, by_seq)
  BY <1>1, <1>3, <1>4 DEF Groups
<1> QED
  BY <1>1, <1>2, <1>5, <1>6 DEF TableInv

\* ... reading a row inserts or skips it, or fails ...
LEMMA ReadRowKeeps ==
  ASSUME TableInv, ReadRow
  PROVE  TableInv'
<1>1. PICK r \in Rows :
        /\ read' = Append(read, r)
        /\ \/ r = Malformed /\ phase' = "failed" /\ UNCHANGED <<exact, by_seq>>
           \/ /\ r # Malformed /\ phase' = "reading"
              /\ IF r.op \in KernelOps THEN Insert(r) ELSE UNCHANGED <<exact, by_seq>>
  BY DEF ReadRow
<1>2. read \in Seq(GoodRows) /\ BindsLast(read, exact) /\ Groups(read, by_seq)
  BY DEF ReadRow, TableInv
<1>3. CASE r = Malformed /\ phase' = "failed"
  BY <1>3 DEF TableInv
<1>4. CASE r # Malformed /\ phase' = "reading" /\ r.op \in KernelOps /\ Insert(r)
  <2>1. r \in GoodRows /\ read' \in Seq(GoodRows)
    BY <1>1, <1>2, <1>4, AppendProperties DEF GoodRows
  <2>2. /\ exact' = With(exact, Key(r), r.latency)
        /\ by_seq' = With(by_seq, PKey(r), Append(Entries(by_seq, PKey(r)), Entry(r)))
    BY <1>4 DEF Insert, Key, PKey, Entries, Entry
  <2>3. BindsLast(read', exact') /\ Groups(read', by_seq')
    BY <1>1, <1>2, <1>4, <2>1, <2>2, InsertKeeps
  <2> QED
    BY <1>4, <2>1, <2>3 DEF TableInv, BindsLast, Groups, Taken, InFileOrder, Tabulates, RowsOf
<1>5. CASE r # Malformed /\ phase' = "reading" /\ r.op \notin KernelOps
           /\ UNCHANGED <<exact, by_seq>>
  <2>1. r \in GoodRows /\ read' \in Seq(GoodRows)
    BY <1>1, <1>2, <1>5, AppendProperties DEF GoodRows
  <2>2. BindsLast(read', exact') /\ Groups(read', by_seq')
    BY <1>1, <1>2, <1>5, <2>1, SkipKeeps
  <2> QED
    BY <1>5, <2>1, <2>2 DEF TableInv
<1> QED
  BY <1>1, <1>3, <1>4, <1>5

\* ... the end of the load sorts what was inserted ...
LEMMA FinishKeeps ==
  ASSUME TableInv, Finish
  PROVE  TableInv'
<1>1. /\ phase = "reading" /\ phase' = "loaded"
      /\ by_seq' = [pkey \in DOMAIN by_seq |-> SortedEntries(by_seq[pkey])]
      /\ read' = read /\ exact' = exact
  BY DEF Finish
<1>2. read \in Seq(GoodRows) /\ BindsLast(read, exact) /\ Groups(read, by_seq)
  BY <1>1 DEF TableInv
<1>3. SortedGroups(read, by_seq')
  <2>1. DOMAIN by_seq' = DOMAIN by_seq
    BY <1>1
  <2>2. ASSUME NEW pkey \in DOMAIN by_seq
        PROVE  InLengthOrder(by_seq'[pkey], read, RowsOf(read, pkey))
    <3>1. InFileOrder(by_seq[pkey], read, RowsOf(read, pkey))
      BY <1>2 DEF Groups
    <3>2. RowsOf(read, pkey) \subseteq DOMAIN read
      BY DEF RowsOf, Taken
    <3>3. by_seq'[pkey] = SortedEntries(by_seq[pkey])
      BY <1>1
    <3> QED
      BY <1>2, <3>1, <3>2, <3>3, SortKeeps
  <2> QED
    BY <1>2, <2>1, <2>2 DEF SortedGroups, Groups
<1>4. BindsLast(read', exact') /\ SortedGroups(read', by_seq') /\ read' \in Seq(GoodRows)
  BY <1>1, <1>2, <1>3
<1> QED
  BY <1>1, <1>4 DEF TableInv

\* ... so the table is always that of the rows read.
LEMMA TableInvAlways == Spec => []TableInv
<1>1. Init => TableInv
  BY TableInvInit
<1>2. TableInv /\ [Next]_vars => TableInv'
  <2> SUFFICES ASSUME TableInv, [Next]_vars PROVE TableInv'
    OBVIOUS
  <2>1. CASE ReadRow
    BY <2>1, ReadRowKeeps
  <2>2. CASE Finish
    BY <2>2, FinishKeeps
  <2>3. CASE UNCHANGED vars
    BY <2>3 DEF vars, TableInv
  <2> QED
    BY <2>1, <2>2, <2>3 DEF Next
<1> QED
  BY <1>1, <1>2, PTL DEF Spec

-----------------------------------------------------------------------------
(* Interpolation *)

\* Between two rows of which the longer took no less, an interpolated time is a
\* fraction between theirs, and no less for a longer sequence.
LEMMA InterpolateBetween ==
  ASSUME NEW s \in Nat, NEW l \in Nat, NEW t \in Nat, NEW m \in Nat, NEW x \in Nat,
         s < x, x < t, l <= m, NEW v, v = Interpolate(<<s, l>>, <<t, m>>, x)
  PROVE  /\ v.num \in Nat /\ v.den \in Nat \ {0}
         /\ l * v.den <= v.num /\ v.num <= m * v.den
<1> DEFINE d == t - s
           a == x - s
           e == m - l
<1>1. d \in Nat \ {0} /\ a \in Nat /\ e \in Nat /\ m = l + e /\ a <= d
  OBVIOUS
<1>2. v.num = l * d + a * e /\ v.den = d
  BY DEF Interpolate
<1> HIDE DEF d, a, e
<1>3. a * e \in Nat /\ l * d \in Nat /\ d * e \in Nat
  BY <1>1
<1>4. (l + e) * d = l * d + d * e
  BY <1>1
<1>5. a * e <= d * e
  BY <1>1, ProductGrows
<1> QED
  BY <1>1, <1>2, <1>3, <1>4, <1>5

\* An interpolation between latencies that grow grows.
LEMMA InterpolateGrows ==
  ASSUME NEW s \in Nat, NEW l \in Nat, NEW t \in Nat, NEW m \in Nat,
         NEW x \in Nat, NEW y \in Nat, s < x, x <= y, y < t, l <= m
  PROVE  AtMost(Interpolate(<<s, l>>, <<t, m>>, x), Interpolate(<<s, l>>, <<t, m>>, y))
<1> DEFINE d == t - s
           a == x - s
           b == y - s
           e == m - l
           v == Interpolate(<<s, l>>, <<t, m>>, x)
           w == Interpolate(<<s, l>>, <<t, m>>, y)
<1>1. d \in Nat /\ a \in Nat /\ b \in Nat /\ e \in Nat /\ a <= b
  OBVIOUS
<1>2. v.num = l * d + a * e /\ v.den = d /\ w.num = l * d + b * e /\ w.den = d
  BY DEF Interpolate
<1> HIDE DEF d, a, b, e, v, w
<1>3. a * e \in Nat /\ b * e \in Nat /\ l * d \in Nat
  BY <1>1
<1>4. a * e <= b * e
  BY <1>1, ProductGrows
<1>5. v.num \in Nat /\ w.num \in Nat /\ v.num <= w.num
  BY <1>2, <1>3, <1>4
<1>6. v.num * d <= w.num * d
  BY <1>1, <1>5, ProductGrows
<1>7. AtMost(v, w)
  BY <1>2, <1>6 DEF AtMost
<1> QED
  BY <1>7 DEF v, w

\* An interpolated time lies on the line through the two rows.
LEMMA InterpolateOnLine ==
  ASSUME NEW s \in Nat, NEW l \in Nat, NEW t \in Nat, NEW m \in Nat, NEW x \in Nat,
         s < x, x < t, NEW v, v = Interpolate(<<s, l>>, <<t, m>>, x)
  PROVE  v.den > 0 /\ v.num * (t - s) = v.den * (l * (t - x) + m * (x - s))
<1> DEFINE a == x - s
           b == t - x
           d == t - s
<1>1. a \in Nat /\ b \in Nat /\ d \in Nat /\ d = a + b /\ d > 0
  OBVIOUS
<1>2. v.num = l * d + a * (m - l) /\ v.den = d
  BY DEF Interpolate
<1> HIDE DEF a, b, d
<1>3. l * (a + b) + a * (m - l) = l * b + m * a
  BY <1>1
<1>4. v.num = l * b + m * a
  BY <1>1, <1>2, <1>3
<1>5. v.num \in Int
  BY <1>1, <1>4
<1>6. v.num * d = d * v.num
  BY <1>1, <1>5
<1> QED
  BY <1>1, <1>2, <1>4, <1>6 DEF a, b, d

\* A time between two others.
LEMMA AtMostThrough ==
  ASSUME NEW v, v.num \in Nat, v.den \in Nat, NEW w, w.num \in Nat, w.den \in Nat,
         NEW l \in Nat, v.num <= l * v.den, l * w.den <= w.num
  PROVE  AtMost(v, w)
<1>1. v.num * w.den <= (l * v.den) * w.den
  <2>1. l * v.den \in Nat
    OBVIOUS
  <2> QED
    BY <2>1, ProductGrows
<1>2. (l * w.den) * v.den <= w.num * v.den
  <2>1. l * w.den \in Nat
    OBVIOUS
  <2> QED
    BY <2>1, ProductGrows
<1>3. (l * v.den) * w.den = (l * w.den) * v.den
  <2> DEFINE a == v.den
             b == w.den
  <2> HIDE DEF a, b
  <2>1. a \in Nat /\ b \in Nat
    BY DEF a, b
  <2>2. (l * a) * b = (l * b) * a
    BY <2>1
  <2> QED
    BY <2>2 DEF a, b
<1>4. v.num * w.den \in Nat /\ w.num * v.den \in Nat /\ (l * v.den) * w.den \in Nat
  <2>1. l * v.den \in Nat
    OBVIOUS
  <2> QED
    BY <2>1
<1> QED
  BY <1>1, <1>2, <1>3, <1>4 DEF AtMost

-----------------------------------------------------------------------------
(* Answers *)

\* What is answered for the length n from the rows R: what the last row of that
\* length took, what the nearest row took where all are shorter or all longer, or
\* a time between those of the nearest shorter and the nearest longer row.
Answers(v, R, n) ==
  \/ \E i \in Below(R, n) : read[i].seq_len = n /\ v = Whole(read[i].latency)
  \/ \E i \in Below(R, n) :
       (\A k \in R : read[k].seq_len < n) /\ v = Whole(read[i].latency)
  \/ \E j \in Above(R, n) :
       (\A k \in R : read[k].seq_len > n) /\ v = Whole(read[j].latency)
  \/ \E i \in Below(R, n), j \in Above(R, n) :
       /\ read[i].seq_len < n /\ n < read[j].seq_len
       /\ v = Interpolate(Entry(read[i]), Entry(read[j]), n)

\* A nonempty set of numbers has a least one ...
LEMMA LeastNumber ==
  ASSUME NEW D \in SUBSET Nat, D # {}
  PROVE  \E x \in D : \A y \in D : x <= y
<1>1. PICK x \in D : \A y \in D : ~ (<<y, x>> \in OpToRel(<, Nat))
  BY NatLessThanWellFounded, WFMin
<1>2. \A y \in D : ~ (y < x)
  BY <1>1 DEF OpToRel
<1> QED
  BY <1>2

\* ... and a nonempty set of positions a last one.
LEMMA LastPosition ==
  ASSUME NEW n \in Nat, NEW T \in SUBSET (1 .. n), T # {}
  PROVE  \E i \in T : \A j \in T : j <= i
<1> DEFINE D == {n - i : i \in T}
<1>1. D \in SUBSET Nat /\ D # {}
  <2>1. \A i \in T : i \in Nat /\ n - i \in Nat
    OBVIOUS
  <2>2. PICK i \in T : TRUE
    OBVIOUS
  <2>3. n - i \in D
    BY <2>2
  <2> QED
    BY <2>1, <2>3
<1>2. PICK x \in D : \A y \in D : x <= y
  <2> HIDE DEF D
  <2> QED
    BY <1>1, LeastNumber
<1>3. PICK i \in T : x = n - i
  OBVIOUS
<1>4. \A j \in T : n - i <= n - j
  BY <1>2, <1>3
<1> QED
  BY <1>4

\* The entries for a partial key up to the partition point are no longer than n.
LEMMA PartitionAt ==
  ASSUME NEW f \in Seq(GoodRows), NEW R, R \subseteq DOMAIN f,
         NEW v, NEW m, Tabulates(v, f, R, m),
         \A k, l \in 1 .. Len(v) : k < l => Sooner(f, m[k], m[l]),
         NEW n \in Nat
  PROVE  /\ PartitionPoint(v, n) \in 0 .. Len(v)
         /\ \A k \in 1 .. Len(v) : f[m[k]].seq_len <= n <=> k <= PartitionPoint(v, n)
<1> DEFINE N == Len(v)
           q == [k \in 1 .. N |-> [time |-> f[m[k]].seq_len]]
           p == PartitionPoint(v, n)
<1>1. /\ N \in Nat /\ DOMAIN v = 1 .. N
      /\ \A k \in 1 .. N : /\ m[k] \in R /\ m[k] \in DOMAIN f
                           /\ v[k] = Entry(f[m[k]])
                           /\ f[m[k]].seq_len \in Nat
  <2>1. N \in Nat /\ DOMAIN v = 1 .. N
    BY LenProperties DEF Tabulates
  <2>2. \A k \in 1 .. N : m[k] \in R /\ v[k] = Entry(f[m[k]])
    BY DEF Tabulates
  <2> QED
    BY <2>1, <2>2, RowNumbers
<1>2. \A k \in 1 .. N : v[k][1] = f[m[k]].seq_len /\ q[k].time = f[m[k]].seq_len
  BY <1>1 DEF Entry
<1>3. Ordered(q)
  <2> SUFFICES ASSUME NEW i \in 1 .. N, NEW j \in 1 .. N, i <= j
               PROVE  q[i].time <= q[j].time
    BY DEF Ordered
  <2>1. CASE i = j
    BY <1>1, <1>2, <2>1
  <2>2. CASE i < j
    BY <1>1, <1>2, <2>2 DEF Sooner
  <2> QED
    BY <1>1, <2>1, <2>2
<1>4. DOMAIN q = 1 .. N /\ \A k \in 1 .. N : q[k].time \in Nat
  BY <1>1, <1>2
<1> HIDE DEF q, N
<1>5. {k \in DOMAIN q : q[k].time <= n} = 1 .. DueBy(q, n) /\ DueBy(q, n) \in 0 .. N
  BY <1>1, <1>3, <1>4, DuePrefix
<1>6. {k \in DOMAIN q : q[k].time <= n} = {k \in DOMAIN v : v[k][1] <= n}
  BY <1>1, <1>2, <1>4
<1>7. p = DueBy(q, n)
  BY <1>6, Zenon DEF PartitionPoint, DueBy
<1> HIDE DEF p
<1>8. \A k \in 1 .. N : f[m[k]].seq_len <= n <=> k <= p
  <2> TAKE k \in 1 .. N
  <2>1. k \in DOMAIN q /\ q[k].time = f[m[k]].seq_len
    BY <1>2, <1>4
  <2>2. q[k].time <= n <=> k \in 1 .. p
    BY <1>5, <1>7, <2>1
  <2>3. k \in 1 .. p <=> k <= p
    BY <1>1, <1>5, <1>7
  <2> QED
    BY <2>1, <2>2, <2>3
<1> QED
  BY <1>5, <1>7, <1>8 DEF p, N

\* What lies between the entries answers for a length that no row has.
LEMMA BetweenAnswers ==
  ASSUME read \in Seq(GoodRows), NEW R, R \subseteq DOMAIN read, R # {},
         NEW v, InLengthOrder(v, read, R),
         NEW n \in Nat, \A i \in R : read[i].seq_len # n
  PROVE  Answers(BetweenEntries(v, n), R, n)
<1> DEFINE N == Len(v)
           p == PartitionPoint(v, n)
<1>1. PICK m : /\ Tabulates(v, read, R, m)
               /\ \A k, l \in 1 .. N : k < l => Sooner(read, m[k], m[l])
  BY DEF InLengthOrder
<1> DEFINE s(k) == read[m[k]].seq_len
<1>2. /\ N \in Nat
      /\ \A i \in R : \E k \in 1 .. N : m[k] = i
      /\ \A k \in 1 .. N : m[k] \in R /\ v[k] = Entry(read[m[k]])
  BY <1>1, LenProperties DEF Tabulates
<1>3. \A i \in R : read[i].seq_len \in Nat /\ i \in Nat
  BY RowNumbers
<1>4. p \in 0 .. N /\ \A k \in 1 .. N : s(k) <= n <=> k <= p
  BY <1>1, PartitionAt
<1>5. N >= 1
  BY <1>2
<1> HIDE DEF N, p
<1>6. \A k \in 1 .. N : /\ v[k][1] = s(k) /\ v[k][2] = read[m[k]].latency
                        /\ s(k) \in Nat /\ s(k) # n
  BY <1>2, <1>3 DEF Entry
<1>7. p >= 1 => m[p] \in Below(R, n)
  <2> SUFFICES ASSUME p >= 1 PROVE m[p] \in Below(R, n)
    OBVIOUS
  <2>1. p \in 1 .. N
    BY <1>2, <1>4
  <2>2. m[p] \in R /\ s(p) <= n
    BY <1>2, <1>4, <2>1
  <2>3. ASSUME NEW j \in R, read[j].seq_len <= n
        PROVE  \/ read[j].seq_len < s(p)
               \/ read[j].seq_len = s(p) /\ j <= m[p]
    <3>1. PICK k \in 1 .. N : m[k] = j
      BY <1>2
    <3>2. k <= p
      BY <1>4, <2>3, <3>1
    <3>3. CASE k = p
      BY <1>3, <2>2, <3>1, <3>3
    <3>4. CASE k < p
      <4>1. Sooner(read, m[k], m[p])
        BY <1>1, <2>1, <3>4 DEF N
      <4> QED
        BY <1>3, <2>2, <3>1, <4>1 DEF Sooner
    <3> QED
      BY <2>1, <3>2, <3>3, <3>4
  <2> QED
    BY <2>2, <2>3 DEF Below
<1>8. p < N => m[p + 1] \in Above(R, n)
  <2> SUFFICES ASSUME p < N PROVE m[p + 1] \in Above(R, n)
    OBVIOUS
  <2> DEFINE u == p + 1
  <2>1. u \in 1 .. N /\ ~ (u <= p)
    BY <1>2, <1>4
  <2> HIDE DEF u
  <2>2. m[u] \in R /\ s(u) >= n
    BY <1>2, <1>4, <1>6, <2>1
  <2>3. ASSUME NEW j \in R, read[j].seq_len >= n
        PROVE  \/ read[j].seq_len > s(u)
               \/ read[j].seq_len = s(u) /\ j >= m[u]
    <3>1. PICK k \in 1 .. N : m[k] = j
      BY <1>2
    <3>2. ~ (k <= p)
      BY <1>3, <1>4, <2>3, <3>1
    <3>3. u <= k
      BY <1>4, <3>2 DEF u
    <3>4. CASE k = u
      BY <1>3, <2>2, <3>1, <3>4
    <3>5. CASE u < k
      <4>1. Sooner(read, m[u], m[k])
        BY <1>1, <2>1, <3>5 DEF N
      <4> QED
        BY <1>3, <2>2, <3>1, <4>1 DEF Sooner
    <3> QED
      BY <2>1, <3>3, <3>4, <3>5
  <2>4. m[u] \in Above(R, n)
    BY <2>2, <2>3 DEF Above
  <2> QED
    BY <2>4 DEF u
<1>9. Last(v) = v[N]
  BY DEF Last, N
<1>10. CASE p = 0
  <2>1. 1 \in 1 .. N /\ n <= v[1][1]
    <3>1. 1 \in 1 .. N
      BY <1>2
    <3>2. v[1][1] = read[m[1]].seq_len /\ v[1][1] \in Nat
      BY <1>3, <1>6, <3>1
    <3>3. ~ (v[1][1] <= n)
      BY <1>4, <1>10, <3>1, <3>2
    <3> QED
      BY <3>1, <3>2, <3>3
  <2>2. BetweenEntries(v, n) = Whole(read[m[1]].latency)
    BY <1>6, <2>1 DEF BetweenEntries
  <2>3. \A k \in R : read[k].seq_len > n
    <3> TAKE i \in R
    <3>1. PICK k \in 1 .. N : m[k] = i
      BY <1>2
    <3> QED
      BY <1>3, <1>4, <1>10, <3>1
  <2>4. m[1] \in Above(R, n)
    <3>1. p < N /\ p + 1 = 1
      BY <1>2, <1>5, <1>10
    <3> QED
      BY <1>8, <3>1
  <2> QED
    BY <2>2, <2>3, <2>4 DEF Answers
<1>11. CASE p = N
  <2>1. N \in 1 .. N /\ 1 \in 1 .. N
    BY <1>2, <1>5
  <2>2. ~ (n <= v[1][1]) /\ n >= Last(v)[1]
    BY <1>4, <1>6, <1>9, <1>11, <2>1
  <2>3. BetweenEntries(v, n) = Whole(read[m[N]].latency)
    BY <1>6, <1>9, <2>1, <2>2 DEF BetweenEntries
  <2>4. \A k \in R : read[k].seq_len < n
    <3> TAKE i \in R
    <3>1. PICK k \in 1 .. N : m[k] = i
      BY <1>2
    <3>2. read[i].seq_len <= n
      BY <1>4, <1>11, <3>1
    <3> QED
      BY <1>3, <3>2
  <2>5. m[N] \in Below(R, n)
    BY <1>5, <1>7, <1>11
  <2> QED
    BY <2>3, <2>4, <2>5 DEF Answers
<1>12. CASE p >= 1 /\ p < N
  <2>1. p \in 1 .. N /\ p + 1 \in 1 .. N /\ N \in 1 .. N /\ 1 \in 1 .. N
    BY <1>2, <1>4, <1>12
  <2>2. ~ (n <= v[1][1]) /\ ~ (n >= Last(v)[1])
    <3>1. s(1) <= n /\ ~ (s(N) <= n)
      BY <1>4, <1>12, <2>1
    <3> QED
      BY <1>6, <1>9, <2>1, <3>1
  <2>3. BetweenEntries(v, n) = Interpolate(v[p], v[p + 1], n)
    BY <2>2 DEF BetweenEntries, p
  <2>4. BetweenEntries(v, n) = Interpolate(Entry(read[m[p]]), Entry(read[m[p + 1]]), n)
    BY <1>2, <2>1, <2>3
  <2>5. s(p) < n /\ n < s(p + 1)
    <3>1. s(p) <= n /\ ~ (s(p + 1) <= n)
      BY <1>4, <2>1
    <3> QED
      BY <1>6, <2>1, <3>1
  <2> QED
    BY <1>7, <1>8, <1>12, <2>4, <2>5 DEF Answers
<1> QED
  BY <1>2, <1>4, <1>10, <1>11, <1>12

\* The rows measured for a question are those with its partial key.
LEMMA MeasuredRows ==
  ASSUME NEW target, NEW op \in KernelOps, NEW batch
  PROVE  Measured(target, op, batch) = RowsOf(read, PartialKey(target, op, batch))
<1>1. \A i \in DOMAIN read :
        i \in Measured(target, op, batch)
          <=> i \in RowsOf(read, PartialKey(target, op, batch))
  BY DEF Measured, RowsOf, Taken, PKey, PartialKey
<1> QED
  BY <1>1 DEF Measured, RowsOf, Taken

\* A key that is bound answers with the last row that has it.
LEMMA ExactAnswers ==
  ASSUME read \in Seq(GoodRows), BindsLast(read, exact),
         NEW target, NEW op \in KernelOps, NEW batch, NEW n \in Nat,
         KernelKey(target, op, batch, n) \in DOMAIN exact
  PROVE  \E i \in Below(Measured(target, op, batch), n) :
           /\ read[i].seq_len = n
           /\ exact[KernelKey(target, op, batch, n)] = read[i].latency
<1> DEFINE key == KernelKey(target, op, batch, n)
           T == {i \in Taken(read) : Key(read[i]) = key}
           R == Measured(target, op, batch)
<1>1. Len(read) \in Nat /\ DOMAIN read = 1 .. Len(read)
  BY RowNumbers
<1>2. T \in SUBSET (1 .. Len(read)) /\ T # {}
  <2>1. T \subseteq DOMAIN read
    BY DEF Taken
  <2>2. PICK i \in Taken(read) : key = Key(read[i])
    BY DEF BindsLast
  <2> QED
    BY <1>1, <2>1, <2>2
<1>3. PICK i \in T : \A j \in T : j <= i
  <2> HIDE DEF T
  <2> QED
    BY <1>1, <1>2, LastPosition
<1>4. \A j \in DOMAIN read : j \in T <=> j \in R /\ read[j].seq_len = n
  BY DEF Taken, Measured, Key, KernelKey
<1>5. exact[key] = read[i].latency
  <2>1. i \in Taken(read) /\ Key(read[i]) = key
    BY <1>3
  <2>2. \A j \in Taken(read) : Key(read[j]) = Key(read[i]) => j <= i
    BY <1>3, <2>1
  <2> HIDE DEF key, T
  <2> QED
    BY <2>1, <2>2 DEF BindsLast
<1> HIDE DEF T
<1>6. i \in R /\ read[i].seq_len = n /\ i \in DOMAIN read
  BY <1>1, <1>2, <1>3, <1>4
<1>7. ASSUME NEW j \in R, read[j].seq_len <= n
      PROVE  read[j].seq_len < n \/ (read[j].seq_len = n /\ j <= i)
  <2>1. j \in DOMAIN read /\ read[j].seq_len \in Nat
    BY RowNumbers DEF Measured
  <2>2. read[j].seq_len = n => j <= i
    BY <1>3, <1>4, <1>7, <2>1
  <2> QED
    BY <1>7, <2>1, <2>2
<1>8. i \in Below(R, n)
  <2> HIDE DEF R
  <2> QED
    BY <1>6, <1>7 DEF Below
<1> QED
  BY <1>5, <1>6, <1>8

\* What lookup answers, by the rows.
LEMMA LookupAnswers ==
  ASSUME TableInv, phase = "loaded",
         NEW target, NEW op \in KernelOps, NEW batch, NEW n \in Nat
  PROVE  IF Measured(target, op, batch) = {} THEN Lookup(target, op, batch, n) = None
         ELSE Answers(Lookup(target, op, batch, n), Measured(target, op, batch), n)
<1> DEFINE key == KernelKey(target, op, batch, n)
           pkey == PartialKey(target, op, batch)
           R == Measured(target, op, batch)
           v == Lookup(target, op, batch, n)
<1>1. read \in Seq(GoodRows) /\ BindsLast(read, exact) /\ SortedGroups(read, by_seq)
  BY DEF TableInv
<1>2. R = RowsOf(read, pkey) /\ R \subseteq DOMAIN read
  BY MeasuredRows DEF Measured
<1>3. pkey \in DOMAIN by_seq <=> R # {}
  <2>1. pkey \in DOMAIN by_seq <=> \E i \in Taken(read) : PKey(read[i]) = pkey
    BY <1>1 DEF SortedGroups
  <2> HIDE DEF R, pkey
  <2> QED
    BY <1>2, <2>1 DEF RowsOf
<1>4. key \in DOMAIN exact <=> \E i \in R : read[i].seq_len = n
  <2>1. key \in DOMAIN exact <=> \E i \in Taken(read) : Key(read[i]) = key
    BY <1>1 DEF BindsLast
  <2>2. \A i \in DOMAIN read :
          (i \in Taken(read) /\ Key(read[i]) = key) <=> (i \in R /\ read[i].seq_len = n)
    BY DEF Taken, Measured, Key, KernelKey
  <2> HIDE DEF R, key
  <2> QED
    BY <1>2, <2>1, <2>2 DEF Taken
<1>5. CASE key \in DOMAIN exact
  <2>1. v = Whole(exact[key])
    BY <1>5 DEF Lookup
  <2>2. \E i \in Below(R, n) : read[i].seq_len = n /\ exact[key] = read[i].latency
    BY <1>1, <1>5, ExactAnswers
  <2>3. R # {}
    BY <1>4, <1>5
  <2> HIDE DEF v, R, key
  <2>4. Answers(v, R, n)
    BY <2>1, <2>2 DEF Answers
  <2> QED
    BY <2>3, <2>4 DEF v, R
<1>6. CASE key \notin DOMAIN exact /\ R # {}
  <2>1. v = BetweenEntries(by_seq[pkey], n)
    BY <1>3, <1>6 DEF Lookup
  <2>2. InLengthOrder(by_seq[pkey], read, R)
    <3> HIDE DEF R, pkey
    <3> QED
      BY <1>1, <1>2, <1>3, <1>6 DEF SortedGroups
  <2>3. \A i \in R : read[i].seq_len # n
    BY <1>4, <1>6
  <2> HIDE DEF v, R, pkey
  <2>4. Answers(v, R, n)
    BY <1>1, <1>2, <1>6, <2>1, <2>2, <2>3, BetweenAnswers
  <2> QED
    BY <1>6, <2>4 DEF v, R
<1>7. CASE key \notin DOMAIN exact /\ R = {}
  BY <1>3, <1>7 DEF Lookup
<1> QED
  BY <1>5, <1>6, <1>7

\* The rows of a question are numbers, and the nearest on a side is one row.
LEMMA NearestRows ==
  ASSUME read \in Seq(GoodRows), NEW R, R \subseteq DOMAIN read, NEW n \in Nat
  PROVE  /\ \A i \in R : read[i].seq_len \in Nat /\ read[i].latency \in Nat
         /\ \A i \in Below(R, n) : i \in R /\ read[i].seq_len <= n
         /\ \A j \in Above(R, n) : j \in R /\ read[j].seq_len >= n
         /\ \A i, j \in Below(R, n) : i = j
         /\ \A i, j \in Above(R, n) : i = j
<1>1. \A i \in R : i \in Nat /\ read[i].seq_len \in Nat /\ read[i].latency \in Nat
  BY RowNumbers
<1>2. /\ \A i \in Below(R, n) : i \in R /\ read[i].seq_len <= n
      /\ \A j \in Above(R, n) : j \in R /\ read[j].seq_len >= n
  BY DEF Below, Above
<1>3. ASSUME NEW i \in Below(R, n), NEW j \in Below(R, n) PROVE i = j
  <2>1. /\ \/ read[j].seq_len < read[i].seq_len
           \/ read[j].seq_len = read[i].seq_len /\ j <= i
        /\ \/ read[i].seq_len < read[j].seq_len
           \/ read[i].seq_len = read[j].seq_len /\ i <= j
    BY <1>2 DEF Below
  <2> QED
    BY <1>1, <1>2, <2>1
<1>4. ASSUME NEW i \in Above(R, n), NEW j \in Above(R, n) PROVE i = j
  <2>1. /\ \/ read[j].seq_len > read[i].seq_len
           \/ read[j].seq_len = read[i].seq_len /\ j >= i
        /\ \/ read[i].seq_len > read[j].seq_len
           \/ read[i].seq_len = read[j].seq_len /\ i >= j
    BY <1>2 DEF Above
  <2> QED
    BY <1>1, <1>2, <2>1
<1> QED
  BY <1>1, <1>2, <1>3, <1>4

-----------------------------------------------------------------------------
(* What the table owes to its file *)

\* No answer is None, and those read off one row equal what it took.
LEMMA AnswerIsTime ==
  ASSUME NEW l \in Nat
  PROVE  Whole(l) # None /\ Equals(Whole(l), l)
<1>1. Whole(l) \in [num : Int, den : Int]
  BY DEF Whole
<1> QED
  BY <1>1, TableAssumption DEF Whole, Equals

\* lookup answers from the rows of the file, whatever their order, from_csv,
\* insert and lookup: for every set of rows, file and question.
THEOREM TableMatchesRows == Spec => []LookupMatchesRows
<1>1. TableInv => LookupMatchesRows
  <2> SUFFICES ASSUME TableInv, phase = "loaded",
                      NEW target \in Targets, NEW op \in KernelOps,
                      NEW batch \in Batches, NEW n \in SeqLens,
                      NEW v, v = Lookup(target, op, batch, n),
                      NEW rows, rows = Measured(target, op, batch)
               PROVE  MatchesRows(v, rows, n)
    BY DEF LookupMatchesRows
  <2> n \in Nat
    BY QuestionsAssumption
  <2>1. read \in Seq(GoodRows) /\ rows \subseteq DOMAIN read
    BY DEF TableInv, Measured
  <2>2. IF rows = {} THEN v = None ELSE Answers(v, rows, n)
    BY LookupAnswers
  <2>3. /\ \A i \in rows : read[i].seq_len \in Nat /\ read[i].latency \in Nat
        /\ \A i \in Below(rows, n) : i \in rows /\ read[i].seq_len <= n
        /\ \A j \in Above(rows, n) : j \in rows /\ read[j].seq_len >= n
        /\ \A i, j \in Below(rows, n) : i = j
        /\ \A i, j \in Above(rows, n) : i = j
    BY <2>1, NearestRows
  <2>4. CASE rows = {}
    BY <2>2, <2>3, <2>4 DEF MatchesRows
  <2>5. ASSUME NEW i \in Below(rows, n), read[i].seq_len = n, v = Whole(read[i].latency)
        PROVE  /\ rows # {} /\ v # None /\ Equals(v, read[i].latency)
               /\ \A k \in Below(rows, n) : k = i
    BY <2>3, <2>5, AnswerIsTime
  <2>6. ASSUME NEW i \in Below(rows, n), \A k \in rows : read[k].seq_len < n,
               v = Whole(read[i].latency)
        PROVE  /\ rows # {} /\ v # None /\ Equals(v, read[i].latency)
               /\ Above(rows, n) = {}
               /\ \A k \in Below(rows, n) : k = i
    <3>1. Above(rows, n) = {}
      BY <2>3, <2>6
    <3> QED
      BY <2>3, <2>6, <3>1, AnswerIsTime
  <2>7. ASSUME NEW j \in Above(rows, n), \A k \in rows : read[k].seq_len > n,
               v = Whole(read[j].latency)
        PROVE  /\ rows # {} /\ v # None /\ Equals(v, read[j].latency)
               /\ Below(rows, n) = {}
               /\ \A k \in Above(rows, n) : k = j
    <3>1. Below(rows, n) = {}
      BY <2>3, <2>7
    <3> QED
      BY <2>3, <2>7, <3>1, AnswerIsTime
  <2>8. ASSUME NEW i \in Below(rows, n), NEW j \in Above(rows, n),
               read[i].seq_len < n, n < read[j].seq_len,
               v = Interpolate(Entry(read[i]), Entry(read[j]), n)
        PROVE  /\ rows # {} /\ v # None /\ OnLine(v, i, j, n)
               /\ \A k \in Below(rows, n) : k = i
               /\ \A k \in Above(rows, n) : k = j
    <3>1. /\ read[i].seq_len \in Nat /\ read[i].latency \in Nat
          /\ read[j].seq_len \in Nat /\ read[j].latency \in Nat
      BY <2>3
    <3>2. v \in [num : Int, den : Int]
      BY <2>8, <3>1 DEF Interpolate, Entry
    <3>3. OnLine(v, i, j, n)
      <4> DEFINE s == read[i].seq_len
                 l == read[i].latency
                 t == read[j].seq_len
                 m == read[j].latency
      <4>1. v = Interpolate(<<s, l>>, <<t, m>>, n)
        BY <2>8 DEF Entry
      <4> HIDE DEF s, l, t, m
      <4>2. /\ s \in Nat /\ l \in Nat /\ t \in Nat /\ m \in Nat
            /\ s < n /\ n < t
        BY <2>8, <3>1 DEF s, l, t, m
      <4>3. v.den > 0 /\ v.num * (t - s) = v.den * (l * (t - n) + m * (n - s))
        BY <4>1, <4>2, InterpolateOnLine
      <4> QED
        BY <4>3 DEF OnLine, s, l, t, m
    <3> QED
      BY <2>3, <3>2, <3>3, TableAssumption
  <2>9. CASE rows # {}
    <3>1. Answers(v, rows, n)
      BY <2>2, <2>9
    <3>2. CASE \E i \in Below(rows, n) :
                 read[i].seq_len = n /\ v = Whole(read[i].latency)
      BY <2>5, <3>2 DEF MatchesRows
    <3>3. CASE \E i \in Below(rows, n) :
                 (\A k \in rows : read[k].seq_len < n) /\ v = Whole(read[i].latency)
      BY <2>6, <3>3 DEF MatchesRows
    <3>4. CASE \E j \in Above(rows, n) :
                 (\A k \in rows : read[k].seq_len > n) /\ v = Whole(read[j].latency)
      BY <2>7, <3>4 DEF MatchesRows
    <3>5. CASE \E i \in Below(rows, n), j \in Above(rows, n) :
                 /\ read[i].seq_len < n /\ n < read[j].seq_len
                 /\ v = Interpolate(Entry(read[i]), Entry(read[j]), n)
      BY <2>3, <2>8, <3>5 DEF MatchesRows
    <3> QED
      BY <3>1, <3>2, <3>3, <3>4, <3>5, Zenon DEF Answers
  <2> QED
    BY <2>4, <2>9
<1> QED
  BY <1>1, TableInvAlways, PTL

\* Of what was measured, longer sequences took no less.
GrowsWith(R) ==
  \A i, j \in R : read[i].seq_len <= read[j].seq_len => read[i].latency <= read[j].latency

\* Then an answer is between what the rows around it took.
LEMMA AnswerBetween ==
  ASSUME read \in Seq(GoodRows), NEW R, R \subseteq DOMAIN read, GrowsWith(R),
         NEW n \in Nat, NEW v, Answers(v, R, n)
  PROVE  /\ v.num \in Nat /\ v.den \in Nat
         /\ \A k \in R : /\ read[k].latency \in Nat
                         /\ read[k].seq_len <= n => read[k].latency * v.den <= v.num
                         /\ read[k].seq_len >= n => v.num <= read[k].latency * v.den
<1>1. /\ \A i \in R : read[i].seq_len \in Nat /\ read[i].latency \in Nat
      /\ \A i \in Below(R, n) : i \in R /\ read[i].seq_len <= n
      /\ \A j \in Above(R, n) : j \in R /\ read[j].seq_len >= n
  BY NearestRows
<1> DEFINE Goal == /\ v.num \in Nat /\ v.den \in Nat
                   /\ \A k \in R :
                        /\ read[k].latency \in Nat
                        /\ read[k].seq_len <= n => read[k].latency * v.den <= v.num
                        /\ read[k].seq_len >= n => v.num <= read[k].latency * v.den
<1>2. ASSUME NEW i \in R, v = Whole(read[i].latency),
             \A k \in R : read[k].seq_len <= n => read[k].seq_len <= read[i].seq_len,
             \A k \in R : read[k].seq_len >= n => read[k].seq_len >= read[i].seq_len
      PROVE  Goal
  <2>1. v.num = read[i].latency /\ v.den = 1 /\ read[i].latency \in Nat
    BY <1>1, <1>2 DEF Whole
  <2>2. ASSUME NEW k \in R
        PROVE  /\ read[k].seq_len <= n => read[k].latency <= read[i].latency
               /\ read[k].seq_len >= n => read[i].latency <= read[k].latency
    BY <1>1, <1>2 DEF GrowsWith
  <2> QED
    BY <1>1, <2>1, <2>2
<1>3. CASE \E i \in Below(R, n) : read[i].seq_len = n /\ v = Whole(read[i].latency)
  <2>1. Goal
    BY <1>1, <1>2, <1>3
  <2> QED
    BY <2>1
<1>4. CASE \E i \in Below(R, n) :
             (\A k \in R : read[k].seq_len < n) /\ v = Whole(read[i].latency)
  <2>1. PICK i \in Below(R, n) :
               (\A k \in R : read[k].seq_len < n) /\ v = Whole(read[i].latency)
    BY <1>4
  <2>2. \A k \in R : read[k].seq_len <= n => read[k].seq_len <= read[i].seq_len
    BY <1>1 DEF Below
  <2>3. \A k \in R : read[k].seq_len >= n => read[k].seq_len >= read[i].seq_len
    BY <1>1, <2>1
  <2>4. Goal
    BY <1>1, <1>2, <2>1, <2>2, <2>3
  <2> QED
    BY <2>4
<1>5. CASE \E j \in Above(R, n) :
             (\A k \in R : read[k].seq_len > n) /\ v = Whole(read[j].latency)
  <2>1. PICK j \in Above(R, n) :
               (\A k \in R : read[k].seq_len > n) /\ v = Whole(read[j].latency)
    BY <1>5
  <2>2. \A k \in R : read[k].seq_len <= n => read[k].seq_len <= read[j].seq_len
    BY <1>1, <2>1
  <2>3. \A k \in R : read[k].seq_len >= n => read[k].seq_len >= read[j].seq_len
    BY <1>1 DEF Above
  <2>4. Goal
    BY <1>1, <1>2, <2>1, <2>2, <2>3
  <2> QED
    BY <2>4
<1>6. CASE \E i \in Below(R, n), j \in Above(R, n) :
             /\ read[i].seq_len < n /\ n < read[j].seq_len
             /\ v = Interpolate(Entry(read[i]), Entry(read[j]), n)
  <2>1. PICK i \in Below(R, n), j \in Above(R, n) :
               /\ read[i].seq_len < n /\ n < read[j].seq_len
               /\ v = Interpolate(Entry(read[i]), Entry(read[j]), n)
    BY <1>6
  <2> DEFINE s == read[i].seq_len
             l == read[i].latency
             t == read[j].seq_len
             m == read[j].latency
  <2>2. v = Interpolate(<<s, l>>, <<t, m>>, n)
    BY <2>1 DEF Entry
  <2>3. /\ s \in Nat /\ l \in Nat /\ t \in Nat /\ m \in Nat /\ i \in R /\ j \in R
        /\ s < n /\ n < t
    BY <1>1, <2>1
  <2>4. l <= m
    BY <2>3 DEF GrowsWith
  <2>5. ASSUME NEW k \in R
        PROVE  /\ read[k].seq_len <= n => read[k].latency <= l
               /\ read[k].seq_len >= n => m <= read[k].latency
    <3>1. read[k].seq_len <= n => read[k].seq_len <= s
      BY <1>1 DEF Below
    <3>2. read[k].seq_len >= n => t <= read[k].seq_len
      BY <1>1 DEF Above
    <3> QED
      BY <2>3, <3>1, <3>2 DEF GrowsWith
  <2> HIDE DEF s, l, t, m
  <2>6. v.num \in Nat /\ v.den \in Nat /\ l * v.den <= v.num /\ v.num <= m * v.den
    BY <2>2, <2>3, <2>4, InterpolateBetween
  <2>7. ASSUME NEW k \in R
        PROVE  /\ read[k].seq_len <= n => read[k].latency * v.den <= v.num
               /\ read[k].seq_len >= n => v.num <= read[k].latency * v.den
    <3> DEFINE c == read[k].latency
               d == v.den
               u == v.num
    <3> HIDE DEF c, d, u
    <3>1. c \in Nat /\ d \in Nat /\ u \in Nat /\ l * d <= u /\ u <= m * d
      BY <1>1, <2>6 DEF c, d, u
    <3>2. c * d \in Nat /\ l * d \in Nat /\ m * d \in Nat
      BY <2>3, <3>1
    <3>3. (c <= l => c * d <= l * d) /\ (m <= c => m * d <= c * d)
      BY <2>3, <3>1, ProductGrows
    <3>4. (c <= l => c * d <= u) /\ (m <= c => u <= c * d)
      BY <3>1, <3>2, <3>3
    <3> QED
      BY <2>5, <3>4 DEF c, d, u
  <2> QED
    BY <1>1, <2>6, <2>7
<1> QED
  BY <1>3, <1>4, <1>5, <1>6, Zenon DEF Answers

\* With no row between two lengths, they have the same rows around them.
LEMMA SameNeighbours ==
  ASSUME read \in Seq(GoodRows), NEW R, R \subseteq DOMAIN read, GrowsWith(R), R # {},
         NEW x \in Nat, NEW y \in Nat, x <= y,
         \A k \in R : ~ (x <= read[k].seq_len /\ read[k].seq_len <= y),
         NEW v, Answers(v, R, x), NEW w, Answers(w, R, y)
  PROVE  AtMost(v, w)
<1>1. /\ \A i \in R : read[i].seq_len \in Nat /\ read[i].latency \in Nat
      /\ \A n \in {x, y} :
           /\ \A i \in Below(R, n) : i \in R /\ read[i].seq_len <= n
           /\ \A j \in Above(R, n) : j \in R /\ read[j].seq_len >= n
           /\ \A i, j \in Below(R, n) : i = j
           /\ \A i, j \in Above(R, n) : i = j
  <2>1. ASSUME NEW n \in Nat
        PROVE  /\ \A i \in R : read[i].seq_len \in Nat /\ read[i].latency \in Nat
               /\ \A i \in Below(R, n) : i \in R /\ read[i].seq_len <= n
               /\ \A j \in Above(R, n) : j \in R /\ read[j].seq_len >= n
               /\ \A i, j \in Below(R, n) : i = j
               /\ \A i, j \in Above(R, n) : i = j
    BY NearestRows
  <2> QED
    BY <2>1, x \in Nat
<1>2. \A k \in R : /\ read[k].seq_len <= x <=> read[k].seq_len <= y
                   /\ read[k].seq_len >= x <=> read[k].seq_len >= y
                   /\ read[k].seq_len # x /\ read[k].seq_len # y
                   /\ read[k].seq_len < x \/ y < read[k].seq_len
  BY <1>1
<1>3. Below(R, x) = Below(R, y) /\ Above(R, x) = Above(R, y)
  BY <1>2 DEF Below, Above
<1>4. \A l \in Nat : AtMost(Whole(l), Whole(l))
  BY DEF AtMost, Whole
<1>5. ASSUME NEW i \in Below(R, x), \A k \in R : read[k].seq_len < x,
             v = Whole(read[i].latency)
      PROVE  AtMost(v, w)
  <2>1. \A k \in R : read[k].seq_len < y
    BY <1>1, <1>2, <1>5
  <2>2. w = Whole(read[i].latency)
    BY <1>1, <1>2, <1>3, <2>1 DEF Answers
  <2> QED
    BY <1>1, <1>4, <1>5, <2>2
<1>6. ASSUME NEW j \in Above(R, x), \A k \in R : read[k].seq_len > x,
             v = Whole(read[j].latency)
      PROVE  AtMost(v, w)
  <2>1. \A k \in R : read[k].seq_len > y
    BY <1>1, <1>2, <1>6
  <2>2. w = Whole(read[j].latency)
    BY <1>1, <1>2, <1>3, <2>1 DEF Answers
  <2> QED
    BY <1>1, <1>4, <1>6, <2>2
<1>7. ASSUME NEW i \in Below(R, x), NEW j \in Above(R, x),
             read[i].seq_len < x, x < read[j].seq_len,
             v = Interpolate(Entry(read[i]), Entry(read[j]), x)
      PROVE  AtMost(v, w)
  <2>1. /\ i \in R /\ j \in R /\ i \in Below(R, y) /\ j \in Above(R, y)
        /\ read[i].seq_len < y /\ y < read[j].seq_len
    BY <1>1, <1>2, <1>3, <1>7
  <2>2. w = Interpolate(Entry(read[i]), Entry(read[j]), y)
    <3>1. ~ (\A k \in R : read[k].seq_len < y) /\ ~ (\A k \in R : read[k].seq_len > y)
      BY <1>1, <2>1
    <3> QED
      BY <1>1, <1>2, <2>1, <3>1 DEF Answers
  <2> DEFINE s == read[i].seq_len
             l == read[i].latency
             t == read[j].seq_len
             m == read[j].latency
  <2>3. v = Interpolate(<<s, l>>, <<t, m>>, x) /\ w = Interpolate(<<s, l>>, <<t, m>>, y)
    BY <1>7, <2>2 DEF Entry
  <2>4. /\ s \in Nat /\ l \in Nat /\ t \in Nat /\ m \in Nat /\ l <= m
        /\ s < x /\ y < t
    BY <1>1, <1>7, <2>1 DEF GrowsWith
  <2> HIDE DEF s, l, t, m
  <2>5. AtMost(Interpolate(<<s, l>>, <<t, m>>, x), Interpolate(<<s, l>>, <<t, m>>, y))
    BY <2>4, InterpolateGrows
  <2> QED
    BY <2>3, <2>5
<1> QED
  BY <1>1, <1>2, <1>5, <1>6, <1>7 DEF Answers

\* Then an answer is a fraction.
LEMMA AnswerType ==
  ASSUME read \in Seq(GoodRows), NEW R, R \subseteq DOMAIN read, GrowsWith(R),
         NEW n \in Nat, NEW v, Answers(v, R, n)
  PROVE  v.num \in Nat /\ v.den \in Nat \ {0} /\ v # None
<1>1. /\ \A i \in R : read[i].seq_len \in Nat /\ read[i].latency \in Nat
      /\ \A i \in Below(R, n) : i \in R /\ read[i].seq_len <= n
      /\ \A j \in Above(R, n) : j \in R /\ read[j].seq_len >= n
  BY NearestRows
<1>2. CASE \E i \in R : v = Whole(read[i].latency)
  <2>1. PICK i \in R : v = Whole(read[i].latency)
    BY <1>2
  <2> DEFINE l == read[i].latency
  <2>2. l \in Nat /\ v = [num |-> l, den |-> 1]
    BY <1>1, <2>1 DEF Whole
  <2> HIDE DEF l
  <2>3. v \in [num : Int, den : Int]
    BY <2>2
  <2> QED
    BY <2>2, <2>3, TableAssumption
<1>3. CASE \E i \in Below(R, n), j \in Above(R, n) :
             /\ read[i].seq_len < n /\ n < read[j].seq_len
             /\ v = Interpolate(Entry(read[i]), Entry(read[j]), n)
  <2>1. PICK i \in Below(R, n), j \in Above(R, n) :
               /\ read[i].seq_len < n /\ n < read[j].seq_len
               /\ v = Interpolate(Entry(read[i]), Entry(read[j]), n)
    BY <1>3
  <2> DEFINE s == read[i].seq_len
             l == read[i].latency
             t == read[j].seq_len
             m == read[j].latency
  <2>2. v = Interpolate(<<s, l>>, <<t, m>>, n)
    BY <2>1 DEF Entry
  <2>3. /\ s \in Nat /\ l \in Nat /\ t \in Nat /\ m \in Nat /\ i \in R /\ j \in R
        /\ s < n /\ n < t
    BY <1>1, <2>1
  <2>4. l <= m
    BY <2>3 DEF GrowsWith
  <2> HIDE DEF s, l, t, m
  <2>5. v.num \in Nat /\ v.den \in Nat \ {0}
    BY <2>2, <2>3, <2>4, InterpolateBetween
  <2>6. v = [num |-> v.num, den |-> v.den]
    BY <2>2 DEF Interpolate
  <2>7. v \in [num : Int, den : Int]
    BY <2>5, <2>6
  <2> QED
    BY <2>5, <2>7, TableAssumption
<1> QED
  BY <1>1, <1>2, <1>3, Zenon DEF Answers

\* ... and does not fall with the length.
LEMMA LookupGrows ==
  ASSUME TableInv, phase = "loaded", NEW target, NEW op \in KernelOps, NEW batch,
         NEW R, R = Measured(target, op, batch), R # {}, GrowsWith(R),
         NEW x \in Nat, NEW y \in Nat, x <= y
  PROVE  AtMost(Lookup(target, op, batch, x), Lookup(target, op, batch, y))
<1>1. read \in Seq(GoodRows) /\ R \subseteq DOMAIN read
  BY DEF TableInv, Measured
<1> DEFINE v == Lookup(target, op, batch, x)
           w == Lookup(target, op, batch, y)
<1>2. Answers(v, R, x) /\ Answers(w, R, y)
  BY LookupAnswers
<1> HIDE DEF v, w
<1>3. CASE \E k \in R : x <= read[k].seq_len /\ read[k].seq_len <= y
  <2>1. PICK k \in R : x <= read[k].seq_len /\ read[k].seq_len <= y
    BY <1>3
  <2>2. /\ v.num \in Nat /\ v.den \in Nat /\ w.num \in Nat /\ w.den \in Nat
        /\ read[k].latency \in Nat
        /\ read[k].seq_len >= x => v.num <= read[k].latency * v.den
        /\ read[k].seq_len <= y => read[k].latency * w.den <= w.num
    BY <1>1, <1>2, AnswerBetween
  <2>3. v.num <= read[k].latency * v.den /\ read[k].latency * w.den <= w.num
    <3>1. read[k].seq_len \in Nat
      BY <1>1, RowNumbers
    <3> QED
      BY <2>1, <2>2, <3>1
  <2>4. AtMost(v, w)
    BY <2>2, <2>3, AtMostThrough
  <2> QED
    BY <2>4 DEF v, w
<1>4. CASE \A k \in R : ~ (x <= read[k].seq_len /\ read[k].seq_len <= y)
  <2>1. AtMost(v, w)
    BY <1>1, <1>2, <1>4, SameNeighbours
  <2> QED
    BY <2>1 DEF v, w
<1> QED
  BY <1>3, <1>4

\* Monotone measurements give monotone answers, lookup: for every set of rows,
\* file and question.
THEOREM TableLongerTakesLonger == Spec => []LongerTakesLonger
<1>1. TableInv => LongerTakesLonger
  <2> SUFFICES ASSUME TableInv, phase = "loaded",
                      NEW target \in Targets, NEW op \in KernelOps,
                      NEW batch \in MeasuredBatches(target, op),
                      NEW R, R = Measured(target, op, batch), GrowsWith(R),
                      NEW x \in SeqLens, NEW y \in SeqLens, x <= y
               PROVE  AtMost(Lookup(target, op, batch, x), Lookup(target, op, batch, y))
    BY DEF LongerTakesLonger, GrowsWith
  <2>1. x \in Nat /\ y \in Nat
    BY QuestionsAssumption
  <2>2. R # {}
    BY DEF MeasuredBatches
  <2> QED
    BY <2>1, <2>2, LookupGrows
<1> QED
  BY <1>1, TableInvAlways, PTL

\* The batch sizes that lookup_nearest_batch finds are those measured.
LEMMA AvailableBatches ==
  ASSUME read \in Seq(GoodRows), SortedGroups(read, by_seq), NEW target, NEW op \in KernelOps
  PROVE  {b \in {pkey[3] : pkey \in DOMAIN by_seq} :
            PartialKey(target, op, b) \in DOMAIN by_seq} = MeasuredBatches(target, op)
<1>1. \A b : b \in MeasuredBatches(target, op) <=> Measured(target, op, b) # {}
  BY DEF MeasuredBatches, Measured
<1>2. \A b : PartialKey(target, op, b) \in DOMAIN by_seq
                <=> RowsOf(read, PartialKey(target, op, b)) # {}
  BY DEF SortedGroups, RowsOf
<1>3. \A b : PartialKey(target, op, b) \in DOMAIN by_seq <=> b \in MeasuredBatches(target, op)
  BY <1>1, <1>2, MeasuredRows
<1>4. \A b : PartialKey(target, op, b) \in DOMAIN by_seq
                => b \in {pkey[3] : pkey \in DOMAIN by_seq}
  <2> TAKE b
  <2>1. PartialKey(target, op, b)[3] = b
    BY DEF PartialKey
  <2> QED
    BY <2>1
<1> QED
  BY <1>3, <1>4

\* An answer for another batch size is that of a nearest one measured, and there
\* is none only if nothing was measured, lookup_nearest_batch: for every set of
\* rows, file and question.
THEOREM TableNearestBatch == Spec => []NearestBatchAnswers
<1>1. TableInv => NearestBatchAnswers
  <2> SUFFICES ASSUME TableInv, phase = "loaded",
                      NEW target \in Targets, NEW op \in KernelOps,
                      NEW batch \in Batches, NEW n \in SeqLens,
                      NEW batches, batches = MeasuredBatches(target, op),
                      NEW answers, answers = LookupNearestBatch(target, op, batch, n)
               PROVE  /\ answers # {}
                      /\ \A v \in answers :
                           IF batches = {} THEN v = None
                           ELSE \E b \in batches :
                                  /\ v = Lookup(target, op, b, n)
                                  /\ \A c \in batches :
                                       Distance(b, batch) <= Distance(c, batch)
    BY DEF NearestBatchAnswers
  <2>1. batch \in Nat /\ n \in Nat
    BY QuestionsAssumption
  <2>2. read \in Seq(GoodRows) /\ SortedGroups(read, by_seq)
    BY DEF TableInv
  <2>3. batches \subseteq Nat
    BY <2>2, RowNumbers DEF MeasuredBatches
  <2>4. \A b : b \in batches <=> Measured(target, op, b) # {}
    BY DEF MeasuredBatches, Measured
  <2> DEFINE available == {b \in {pkey[3] : pkey \in DOMAIN by_seq} :
                             PartialKey(target, op, b) \in DOMAIN by_seq}
  <2>5. available = batches
    BY <2>2, AvailableBatches
  <2>6. \A b, c \in Nat : /\ AbsDiff(b, c) = Distance(b, c) /\ Distance(b, c) \in Nat
                          /\ Distance(b, b) = 0
    BY DEF AbsDiff, Distance
  <2> DEFINE direct == Lookup(target, op, batch, n)
             nearest == {b \in available :
                           \A c \in available : AbsDiff(b, batch) <= AbsDiff(c, batch)}
  <2>7. answers = IF direct # None THEN {direct}
                  ELSE IF available = {} THEN {None}
                  ELSE {Lookup(target, op, b, n) : b \in nearest}
    BY DEF LookupNearestBatch
  <2>8. CASE direct # None
    <3>1. answers = {direct}
      BY <2>7, <2>8
    <3>2. batch \in batches
      BY <2>1, <2>4, <2>8, LookupAnswers
    <3>3. \A c \in batches : Distance(batch, batch) <= Distance(c, batch)
      BY <2>1, <2>3, <2>6
    <3> QED
      BY <3>1, <3>2, <3>3
  <2>9. CASE direct = None /\ available = {}
    BY <2>5, <2>7, <2>9
  <2>10. CASE direct = None /\ available # {}
    <3>1. answers = {Lookup(target, op, b, n) : b \in nearest} /\ batches # {}
      BY <2>5, <2>7, <2>10
    <3>2. \A b \in nearest : b \in available
                             /\ \A c \in available : AbsDiff(b, batch) <= AbsDiff(c, batch)
      OBVIOUS
    <3>3. \A b \in available : (\A c \in available : AbsDiff(b, batch) <= AbsDiff(c, batch))
                               => b \in nearest
      OBVIOUS
    <3> HIDE DEF available, nearest
    <3>4. \A b \in nearest : b \in batches
            /\ \A c \in batches : Distance(b, batch) <= Distance(c, batch)
      BY <2>1, <2>3, <2>5, <2>6, <3>2
    <3>5. nearest # {}
      <4> DEFINE D == {AbsDiff(b, batch) : b \in batches}
      <4>1. D \in SUBSET Nat /\ D # {}
        <5>1. \A b \in batches : AbsDiff(b, batch) \in Nat
          BY <2>1, <2>3, <2>6
        <5> QED
          BY <3>1, <5>1
      <4>2. PICK x \in D : \A y \in D : x <= y
        <5> HIDE DEF D
        <5> QED
          BY <4>1, LeastNumber
      <4>3. PICK b \in batches : x = AbsDiff(b, batch)
        OBVIOUS
      <4>4. \A c \in batches : AbsDiff(b, batch) <= AbsDiff(c, batch)
        BY <4>2, <4>3
      <4> QED
        BY <2>5, <3>3, <4>3, <4>4
    <3> QED
      BY <3>1, <3>4, <3>5
  <2> QED
    BY <2>8, <2>9, <2>10
<1> QED
  BY <1>1, TableInvAlways, PTL
=============================================================================
